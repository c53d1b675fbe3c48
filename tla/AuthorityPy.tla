---------------------------- MODULE AuthorityPy ----------------------------
(***************************************************************************)
(* consiliency_contract/authority.py: the Python reader of authority       *)
(* events.  A string is [text, end]: what it says and how it ends, "none"  *)
(* (nothing more), "newline" (one trailing line feed), "suffix" (more      *)
(* printable characters), "unsafe" (a character outside the metadata-safe  *)
(* set) or "absent" (the field is missing).  A timestamp's text is a       *)
(* number.  core.extra is the kind of one further member of the core.      *)
(***************************************************************************)
EXTENDS Integers, SequencesExt

StringFields == {"key_id", "approver", "cert", "from", "until"}

\* VALUE_RE.match: `$` also matches before a line feed that ends the string.
ValueOk(s) == s.end \in {"none", "newline", "suffix", "absent"}

\* A float of integral value is a float; an integer key with a final line
\* feed matches KEY_RE for the same reason.
ExtraOk(extra) == extra \in {"absent", "integer", "newline_key"}

canonicalize_core(core) ==
    [raises |-> \/ \E f \in StringFields : ~ValueOk(core[f])
                \/ ~ExtraOk(core.extra),
     text |-> core]

authority_signing_preimage(core) ==
    <<"spec-canon:v2:authority", canonicalize_core(core).text>>

is_timestamp(s) == s.end \in {"none", "newline"}

\* Lexicographic order on timestamps: a line feed more sorts after.
Leq(s, t) == s.text < t.text \/ (s.text = t.text /\ (s.end = t.end \/ s.end = "none"))

within_window(now, from, until) ==
    /\ is_timestamp(now) /\ is_timestamp(from) /\ is_timestamp(until)
    /\ Leq(from, now) /\ ~Leq(until, now)

\* The first entry of that key_id; 0 when there is none.
find_key(registry, key_id) ==
    SelectInSeq(registry, LAMBDA entry : entry.key_id = key_id)

\* bytes.fromhex skips spaces and raises on anything else that is not hex.
Decodes(hex) == hex \in {"exact", "spaced"}

ed25519_verify(pair, signature, message) ==
    Decodes(signature.hex) /\ signature.by = pair /\ signature.over = message

verify_authority_event(event, registry, now, expected) ==
    LET core == event.core
        signature == event.signature
        at == find_key(registry, core.key_id)
        key == registry[at]
    IN  IF core.shape # "object" THEN "malformed_event"
        ELSE IF signature.hex = "missing" THEN "missing_signature"
        ELSE IF canonicalize_core(core).raises THEN "malformed_event"
        ELSE IF at = 0 THEN "unknown_key_id"
        ELSE IF key.scheme # "ed25519" \/ signature.scheme # key.scheme
             THEN "algorithm_confusion"
        ELSE IF key.revoked THEN "key_revoked"
        ELSE IF ~within_window(now, key.from, key.until) THEN "key_expired"
        ELSE IF core.approver # key.approver THEN "signer_approver_mismatch"
        ELSE IF expected.end = "absent" \/ core.cert # expected
             THEN "cert_digest_mismatch"
        ELSE IF ~within_window(now, core.from, core.until)
             THEN "core_validity_expired"
        ELSE IF ~ed25519_verify(key.pair, signature, authority_signing_preimage(core))
             THEN "bad_signature"
        ELSE "verified"
============================================================================
