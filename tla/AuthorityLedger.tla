-------------------------- MODULE AuthorityLedger --------------------------
(***************************************************************************)
(* The life of one authority event.  The key registry lives in this        *)
(* repository and only gains entries or revocations; each consumer holds   *)
(* the vendored copy it pinned last.  The Portal signs a core with one of  *)
(* its keys, the event travels (a field may be rewritten by a serializer   *)
(* or a hand on the way), the spec ledger appends its chain block, and at  *)
(* any time the gate (JavaScript) and the ledger (Python) judge it.        *)
(***************************************************************************)
EXTENDS Integers, Sequences, FiniteSets

CONSTANTS
    Requests,        \* what the Portal is asked to sign: changes to base_core
    Distortions,     \* the rewritings on the way, of a core or a signature
    MaxTime          \* bound on the clock

Py == INSTANCE AuthorityPy
Js == INSTANCE AuthorityJs

Consumers == {"gate", "ledger"}

\* A rewriting is [at, to]: a place of the event and its new content.  Any string
\* may be put there, but what looks like a timestamp is one.
ASSUME RewritingsAreTyped ==
    \A d \in Requests \union Distortions :
        /\ d.at \in {"none", "hex", "scheme", "by", "shape", "extra"} \union Py!StringFields
        /\ d.at \in {"from", "until"} =>
               (d.to.end \in {"none", "newline"} => d.to.text \in Int)

\* Nobody on the way can make a signature of a registered key.
ASSUME NothingIsForged ==
    \A d \in Distortions : d.at = "by" => d.to \notin {"v1", "v2"}

VARIABLES
    now,         \* the time the callers pass
    registry,    \* core/registries/authority-key-registry.json at the head
    pins,        \* pins[c]: the registry the consumer c has vendored
    minted,      \* what the Portal has signed: [by, over], over the bytes signed
    event,       \* the event under judgement, or NoEvent
    seen         \* seen[c]: "never", "verified" or "lapsed" since it arrived

vars == <<now, registry, pins, minted, event, seen>>

NoEvent == [core |-> "none"]
Str(text) == [text |-> text, end |-> "none"]
Absent == [text |-> "", end |-> "absent"]
Certs == {Str("cert"), Str("other_cert")}
Expected == Certs \union {Absent}

Entry(key, from, until) ==
    [key_id |-> Str(key), scheme |-> "ed25519", pair |-> key,
     approver |-> Str("portal"), from |-> Str(from), until |-> Str(until),
     revoked |-> FALSE]

\* v1 is registered from the start; v2, whose window overlaps, is rolled in.
build_registry == <<Entry("v1", 0, 2)>>
Successor == Entry("v2", 1, 3)

base_core(key) ==
    [shape |-> "object", key_id |-> Str(key), approver |-> Str("portal"),
     cert |-> Str("cert"), from |-> Str(1), until |-> Str(2), extra |-> "absent"]

\* The event e with one place rewritten.
Distort(e, d) ==
    CASE d.at = "none" -> e
      [] d.at \in {"hex", "scheme", "by"} -> [e EXCEPT !.signature[d.at] = d.to]
      [] OTHER -> [e EXCEPT !.core[d.at] = d.to]

Signed(key, core) ==
    [core |-> core, chain |-> FALSE,
     signature |-> [scheme |-> "ed25519", by |-> key, hex |-> "exact",
                    over |-> Py!authority_signing_preimage(core)]]

GateSays(e, pin, t, cert) == Js!verifyAuthorityEvent(e, pin, Str(t), cert)
LedgerSays(e, pin, t, cert) == Py!verify_authority_event(e, pin, Str(t), cert)

Says(c, e, pin, t, cert) ==
    IF c = "gate" THEN GateSays(e, pin, t, cert) ELSE LedgerSays(e, pin, t, cert)

\* The cert the callers present for ratification is the one of base_core.
Reason(c) == Says(c, event, pins[c], now, Str("cert"))
Verified(c) == event # NoEvent /\ Reason(c) = "verified"

----------------------------------------------------------------------------
Init ==
    /\ now = 0
    /\ registry = build_registry
    /\ pins = [c \in Consumers |-> build_registry]
    /\ minted = {}
    /\ event = NoEvent
    /\ seen = [c \in Consumers |-> "never"]

\* What each consumer has concluded so far, judged after every step.
Judge ==
    seen' = [c \in Consumers |->
                IF Verified(c)' THEN IF seen[c] = "lapsed" THEN "lapsed" ELSE "verified"
                ELSE IF seen[c] = "never" THEN "never" ELSE "lapsed"]

Tick ==
    /\ now < MaxTime
    /\ now' = now + 1
    /\ UNCHANGED <<registry, pins, minted, event>>
    /\ Judge

\* Slip: the successor takes the place of the entry it follows.
RotateInPlace ==
    /\ Len(registry) = 1
    /\ registry' = <<Successor>>
    /\ UNCHANGED <<now, pins, minted, event>>
    /\ Judge

Rotate ==
    /\ Len(registry) = 1
    /\ registry' = Append(registry, Successor)
    /\ UNCHANGED <<now, pins, minted, event>>
    /\ Judge

\* Slip: a revocation can be taken back.
RevokeToggles(k) ==
    /\ registry' = [registry EXCEPT ![k].revoked = ~@]
    /\ UNCHANGED <<now, pins, minted, event>>
    /\ Judge

Revoke(k) ==
    /\ ~registry[k].revoked
    /\ registry' = [registry EXCEPT ![k].revoked = TRUE]
    /\ UNCHANGED <<now, pins, minted, event>>
    /\ Judge

Vendor(c) ==
    /\ pins[c] # registry
    /\ pins' = [pins EXCEPT ![c] = registry]
    /\ UNCHANGED <<now, registry, minted, event>>
    /\ Judge

\* The Portal signs what it was given, unless that cannot be canonicalized;
\* what it signed arrives as it left, or with one place rewritten.
Mint(key, given, rewritten) ==
    LET core == Distort(Signed(key, base_core(key)), given).core
        sent == Signed(key, core)
    IN  /\ event = NoEvent
        /\ ~Py!canonicalize_core(core).raises
        /\ event' = Distort(sent, rewritten)
        /\ minted' = minted \union {[by |-> key, over |-> sent.signature.over]}
        /\ UNCHANGED <<now, registry, pins>>
        /\ Judge

\* Slip: the ledger leaves its digest in the core.
ChainInCore ==
    /\ event # NoEvent
    /\ ~event.chain
    /\ event' = [event EXCEPT !.chain = TRUE, !.core.extra = "integer"]
    /\ UNCHANGED <<now, registry, pins, minted>>
    /\ Judge

chain_block ==
    /\ event # NoEvent
    /\ ~event.chain
    /\ event' = [event EXCEPT !.chain = TRUE]
    /\ UNCHANGED <<now, registry, pins, minted>>
    /\ Judge

Next ==
    \/ Tick
    \/ Rotate
    \/ \E k \in DOMAIN registry : Revoke(k)
    \/ \E c \in Consumers : Vendor(c)
    \/ \E key \in {"v1", "v2", "unregistered"}, given \in Requests,
          rewritten \in Distortions : Mint(key, given, rewritten)
    \/ chain_block

Spec == Init /\ [][Next]_vars

----------------------------------------------------------------------------
\* Numbers are compared as numbers: 1.0 says what 1 says.
Meaning(core) ==
    [core EXCEPT !.extra = IF @ = "integral_float" THEN "integer" ELSE @]

\* The signed window is half open, but for a final line feed, which lets the
\* Python reader see the closing second as before the end.
SignedWindow(core) ==
    /\ core.from.text <= now
    /\ now < core.until.text \/ (core.until.end = "newline" /\ now = core.until.text)

\* An event either reader verifies is one the Portal signed, with the pair its
\* own pin binds to the signed key_id and to the approver named in the core,
\* over a core that says the same, for the presented cert, inside the signed
\* window and the key's, whatever was rewritten on the way.
VerifiedMeansSigned ==
    event # NoEvent =>
    \A c \in Consumers, cert \in Expected :
        Says(c, event, pins[c], now, cert) = "verified" =>
        /\ cert \in Certs /\ event.core.cert = cert
        /\ SignedWindow(event.core)
        /\ \E m \in minted, k \in DOMAIN pins[c] :
               /\ m.over[2] = Meaning(event.core)
               /\ LET key == pins[c][k]
                  IN  /\ key.pair = m.by /\ key.key_id = event.core.key_id
                      /\ key.approver = event.core.approver
                      /\ key.from.text <= now /\ now < key.until.text

\* The profile the schema and the vectors keep to: plain strings, no fraction,
\* a signature of 128 hex digits.
InProfile(e) ==
    /\ e.core.shape = "object"
    /\ \A f \in Py!StringFields : e.core[f].end \in {"none", "unsafe", "absent"}
    /\ e.core.extra \in {"absent", "integer", "fraction", "null"}
    /\ e.signature.hex \in {"exact", "missing"}

\* On the profile the two readers give the same verdict with the same reason,
\* for every presented cert, whenever they hold the same registry.
ReadersAgree ==
    event # NoEvent /\ InProfile(event) /\ pins["gate"] = pins["ledger"] =>
    \A cert \in Expected :
        GateSays(event, pins["gate"], now, cert) = LedgerSays(event, pins["gate"], now, cert)

\* The two serializers refuse the same cores and give the others the same
\* bytes, as both files and the design document say of every value.
SerializersCannotDiverge ==
    event # NoEvent =>
    LET py == Py!canonicalize_core(event.core)
        js == Js!canonicalizeCore(event.core)
    IN  /\ py.raises <=> js.raises
        /\ ~py.raises => py.text = js.text

\* Appending the ledger's chain block changes no reader's verdict.
ChainKeepsVerdict ==
    [][event # NoEvent /\ event.chain # event'.chain =>
        \A c \in Consumers : Reason(c)' = Reason(c)]_vars

\* A verified event that stopped verifying (its window or its key's closed, or
\* its key was revoked) never verifies again for that consumer, whatever is
\* rotated in and however often the consumer vendors anew.
LapsedStaysLapsed ==
    \A c \in Consumers : seen[c] = "lapsed" => ~Verified(c)

\* Vendoring a later registry costs a verified event its verdict only by a
\* revocation: rolling the signers leaves what the old key signed valid.
VendoringOnlyRevokes ==
    [][\A c \in Consumers :
        pins'[c] # pins[c] /\ Verified(c) /\ event' = event =>
        Reason(c)' \in {"verified", "key_revoked"}]_vars
============================================================================
