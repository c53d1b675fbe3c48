---------------------------- MODULE AuthorityJs ----------------------------
(***************************************************************************)
(* src/authority.js: the JavaScript reader of authority events, over the   *)
(* same strings, timestamps and cores as AuthorityPy.                      *)
(***************************************************************************)
EXTENDS Integers, SequencesExt

StringFields == {"key_id", "approver", "cert", "from", "until"}

\* Without the m flag, `$` matches only the very end of the string.
ValueOk(s) == s.end \in {"none", "suffix", "absent"}

\* JSON.parse gives 1.0 and 1 the same Number, which is an integer.
ExtraOk(extra) == extra \in {"absent", "integer", "integral_float"}

canonicalizeCore(core) ==
    [raises |-> \/ \E f \in StringFields : ~ValueOk(core[f])
                \/ ~ExtraOk(core.extra),
     text |-> [core EXCEPT !.extra = IF @ = "integral_float" THEN "integer" ELSE @]]

authoritySigningPreimage(core) ==
    <<"spec-canon:v2:authority", canonicalizeCore(core).text>>

isTimestamp(s) == s.end = "none"

\* Slip: the closing second is inside the window.
WithinClosedWindow(now, from, until) ==
    /\ isTimestamp(from) /\ isTimestamp(until) /\ isTimestamp(now)
    /\ from.text <= now.text /\ now.text <= until.text

withinWindow(now, from, until) ==
    /\ isTimestamp(from) /\ isTimestamp(until) /\ isTimestamp(now)
    /\ from.text <= now.text /\ now.text < until.text

findKey(registry, keyId) ==
    SelectInSeq(registry, LAMBDA entry : entry.key_id = keyId)

\* Buffer.from(_, "hex") stops at the first pair that is not hex: what follows
\* 64 good bytes is dropped, a space in their midst leaves fewer than 64.
Decodes(hex) == hex \in {"exact", "trailing"}

\* Slip: the signature is decoded and its key compared, the bytes are not.
VerifyKeyOnly(pair, signature, message) ==
    Decodes(signature.hex) /\ signature.by = pair

ed25519Verify(pair, signature, message) ==
    Decodes(signature.hex) /\ signature.by = pair /\ signature.over = message

\* An array is an object too: its key_id is undefined, so no entry has it.
verifyAuthorityEvent(event, registry, now, expectedCertDigest) ==
    LET core == event.core
        signature == event.signature
        at == IF core.shape = "array" THEN 0 ELSE findKey(registry, core.key_id)
        key == registry[at]
    IN  IF core.shape = "none" THEN "malformed_event"
        ELSE IF signature.hex = "missing" THEN "missing_signature"
        ELSE IF canonicalizeCore(core).raises THEN "malformed_event"
        ELSE IF at = 0 THEN "unknown_key_id"
        ELSE IF key.scheme # "ed25519" \/ signature.scheme # key.scheme
             THEN "algorithm_confusion"
        ELSE IF key.revoked THEN "key_revoked"
        ELSE IF ~withinWindow(now, key.from, key.until) THEN "key_expired"
        ELSE IF core.approver # key.approver THEN "signer_approver_mismatch"
        ELSE IF expectedCertDigest.end = "absent" \/ core.cert # expectedCertDigest
             THEN "cert_digest_mismatch"
        ELSE IF ~withinWindow(now, core.from, core.until)
             THEN "core_validity_expired"
        ELSE IF ~ed25519Verify(key.pair, signature, authoritySigningPreimage(core))
             THEN "bad_signature"
        ELSE "verified"
============================================================================
