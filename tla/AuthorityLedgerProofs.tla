------------------------- MODULE AuthorityLedgerProofs -------------------------
(***************************************************************************)
(* Proofs about AuthorityLedger, for every set of requests and rewritings  *)
(* and any run of the clock.                                               *)
(***************************************************************************)
EXTENDS AuthorityLedger, WellFoundedInduction, TLAPS

----------------------------------------------------------------------------
(* The two readers, check by check. *)

\* What a reader asks of the event alone, before it looks for the key.
Readable(c, e) ==
    /\ e.core.shape = "object" \/ (c = "gate" /\ e.core.shape \notin {"none", "array"})
    /\ e.signature.hex # "missing"
    /\ IF c = "gate" THEN ~Js!canonicalizeCore(e.core).raises
                     ELSE ~Py!canonicalize_core(e.core).raises

Within(c, t, from, until) ==
    IF c = "gate" THEN Js!withinWindow(Str(t), from, until)
                  ELSE Py!within_window(Str(t), from, until)

Genuine(c, e, pair) ==
    IF c = "gate"
    THEN Js!ed25519Verify(pair, e.signature, Js!authoritySigningPreimage(e.core))
    ELSE Py!ed25519_verify(pair, e.signature, Py!authority_signing_preimage(e.core))

\* What it asks of the event and the entry found, but for the revocation.
Fits(c, e, key, t, cert) ==
    /\ key.scheme = "ed25519" /\ e.signature.scheme = key.scheme
    /\ Within(c, t, key.from, key.until)
    /\ e.core.approver = key.approver
    /\ cert.end # "absent" /\ e.core.cert = cert
    /\ Within(c, t, e.core.from, e.core.until)
    /\ Genuine(c, e, key.pair)

Found(p, e) == Py!find_key(p, e.core.key_id)

Accepts(c, e, p, t, cert) ==
    /\ Readable(c, e)
    /\ Found(p, e) # 0
    /\ ~p[Found(p, e)].revoked
    /\ Fits(c, e, p[Found(p, e)], t, cert)

\* Both readers look a key up in the same way.
LEMMA SameLookup ==
    ASSUME NEW r, NEW id
    PROVE  Js!findKey(r, id) = Py!find_key(r, id)
BY Zenon DEF Py!find_key, Js!findKey, Py!SelectInSeq, Js!SelectInSeq, Py!Min, Js!Min

\* Verified means that no check fails.
LEMMA VerifiedIsAccepted ==
    ASSUME NEW c \in Consumers, NEW e, NEW p, NEW t, NEW cert
    PROVE  Says(c, e, p, t, cert) = "verified" <=> Accepts(c, e, p, t, cert)
<1>1. CASE c = "gate"
  <2>1. Says(c, e, p, t, cert) = Js!verifyAuthorityEvent(e, p, Str(t), cert)
    BY <1>1 DEF Says, GateSays
  <2>2. Js!findKey(p, e.core.key_id) = Found(p, e)
    BY SameLookup DEF Found
  <2> HIDE DEF Found
  <2> QED
    BY <1>1, <2>1, <2>2 DEF Js!verifyAuthorityEvent, Accepts, Readable, Fits, Within, Genuine
<1>2. CASE c = "ledger"
  <2>1. Says(c, e, p, t, cert) = Py!verify_authority_event(e, p, Str(t), cert)
    BY <1>2 DEF Says, LedgerSays
  <2> QED
    BY <1>2, <2>1 DEF Py!verify_authority_event, Accepts, Readable, Fits, Within, Genuine, Found
<1> QED  BY <1>1, <1>2 DEF Consumers

\* When everything else fits, only a revocation is left to refuse for.
LEMMA OnlyRevocationLeft ==
    ASSUME NEW c \in Consumers, NEW e, NEW p, NEW t, NEW cert,
           Readable(c, e), Found(p, e) # 0, Fits(c, e, p[Found(p, e)], t, cert)
    PROVE  Says(c, e, p, t, cert) \in {"verified", "key_revoked"}
<1>1. CASE c = "gate"
  <2>1. Says(c, e, p, t, cert) = Js!verifyAuthorityEvent(e, p, Str(t), cert)
    BY <1>1 DEF Says, GateSays
  <2>2. Js!findKey(p, e.core.key_id) = Found(p, e)
    BY SameLookup DEF Found
  <2> HIDE DEF Found
  <2> QED
    BY <1>1, <2>1, <2>2 DEF Js!verifyAuthorityEvent, Readable, Fits, Within, Genuine
<1>2. CASE c = "ledger"
  <2>1. Says(c, e, p, t, cert) = Py!verify_authority_event(e, p, Str(t), cert)
    BY <1>2 DEF Says, LedgerSays
  <2> QED
    BY <1>2, <2>1 DEF Py!verify_authority_event, Readable, Fits, Within, Genuine, Found
<1> QED  BY <1>1, <1>2 DEF Consumers

----------------------------------------------------------------------------
(* Registries and events. *)

KeyIds == {Str("v1"), Str("v2")}
Instants == {Str(n) : n \in Nat}

Entries ==
    [key_id : KeyIds, scheme : {"ed25519"}, pair : {"v1", "v2"},
     approver : {Str("portal")}, from : Instants, until : Instants, revoked : BOOLEAN]

\* The registry q has every entry p has, revoked perhaps, and maybe more.
Grown(p, q) ==
    /\ Len(p) <= Len(q)
    /\ \A k \in 1..Len(p) : q[k] = p[k] \/ q[k] = [p[k] EXCEPT !.revoked = TRUE]

\* What looks like a timestamp is one.
Timestamp(s) == s.end \in {"none", "newline"} => s.text \in Int

IsEvent(e) ==
    /\ e = [core |-> e.core, chain |-> e.chain, signature |-> e.signature]
    /\ e.core = [shape |-> e.core.shape, key_id |-> e.core.key_id,
                 approver |-> e.core.approver, cert |-> e.core.cert,
                 from |-> e.core.from, until |-> e.core.until, extra |-> e.core.extra]
    /\ e.signature = [scheme |-> e.signature.scheme, by |-> e.signature.by,
                      hex |-> e.signature.hex, over |-> e.signature.over]
    /\ Timestamp(e.core.from) /\ Timestamp(e.core.until)

\* A nonempty set of naturals has a least element.
LEMMA Least ==
    ASSUME NEW S, S \subseteq Nat, S # {}
    PROVE  \E m \in S : \A n \in S : m <= n
<1>1. PICK m \in S : \A n \in S : ~(<<n, m>> \in OpToRel(<, Nat))
  BY NatLessThanWellFounded, WFMin
<1>2. \A n \in S : ~(n < m)
  BY <1>1 DEF OpToRel
<1>3. \A n \in S : n \in Nat
  OBVIOUS
<1>4. m \in Nat
  OBVIOUS
<1>5. \A n \in S : m <= n
  BY <1>2, <1>3, <1>4
<1> QED  BY <1>5

\* The lookup finds the first entry of that key_id.
LEMMA FirstEntry ==
    ASSUME NEW p, Len(p) \in Nat, NEW e
    PROVE  LET I == {i \in 1..Len(p) : p[i].key_id = e.core.key_id}
           IN  \/ I = {} /\ Found(p, e) = 0
               \/ Found(p, e) \in I /\ \A i \in I : Found(p, e) <= i
<1> DEFINE I == {i \in 1..Len(p) : p[i].key_id = e.core.key_id}
<1>1. Found(p, e) = IF I # {} THEN Py!Min(I) ELSE 0
  BY Zenon DEF Found, Py!find_key, Py!SelectInSeq
<1>2. ASSUME I # {} PROVE Py!Min(I) \in I /\ \A i \in I : Py!Min(I) <= i
  <2>1. I \subseteq Nat
    OBVIOUS
  <2> HIDE DEF I
  <2>2. \E m \in I : \A n \in I : m <= n
    BY <1>2, <2>1, Least
  <2> QED  BY <2>2, Zenon DEF Py!Min
<1> HIDE DEF I
<1>3. \/ I = {} /\ Found(p, e) = 0
      \/ Found(p, e) \in I /\ \A i \in I : Found(p, e) <= i
  BY <1>1, <1>2
<1> QED  BY <1>3 DEF I

\* An entry found stays the one found, whatever is added or revoked.
LEMMA FoundStays ==
    ASSUME NEW p \in Seq(Entries), NEW q \in Seq(Entries), Grown(p, q), NEW e,
           Found(p, e) # 0
    PROVE  /\ Found(q, e) = Found(p, e)
           /\ Found(p, e) \in 1..Len(p)
           /\ p[Found(p, e)].key_id = e.core.key_id
           /\ \/ q[Found(q, e)] = p[Found(p, e)]
              \/ q[Found(q, e)] = [p[Found(p, e)] EXCEPT !.revoked = TRUE]
<1> DEFINE I(r) == {i \in 1..Len(r) : r[i].key_id = e.core.key_id}
           k == Found(p, e)
<1>1. Len(p) \in Nat /\ Len(q) \in Nat /\ Len(p) <= Len(q)
  BY DEF Grown
<1>2. k \in I(p) /\ \A i \in I(p) : k <= i
  BY <1>1, FirstEntry
<1>3. ASSUME NEW i \in 1..Len(p) PROVE i \in 1..Len(q) /\ q[i].key_id = p[i].key_id
  <2>1. q[i] = p[i] \/ q[i] = [p[i] EXCEPT !.revoked = TRUE]
    BY DEF Grown
  <2>2. p[i] \in Entries
    OBVIOUS
  <2> QED  BY <1>1, <2>1, <2>2 DEF Entries
<1>4. k \in I(q)
  BY <1>2, <1>3
<1>5. Found(q, e) \in I(q) /\ \A i \in I(q) : Found(q, e) <= i
  BY <1>1, <1>4, FirstEntry
<1>6. Found(q, e) <= k
  BY <1>4, <1>5
<1>7. Found(q, e) \in 1..Len(p)
  BY <1>1, <1>2, <1>5, <1>6
<1>8. Found(q, e) \in I(p)
  BY <1>3, <1>5, <1>7
<1>9. k <= Found(q, e) /\ k \in Nat /\ Found(q, e) \in Nat
  BY <1>1, <1>2, <1>5, <1>8
<1>10. Found(q, e) = k
  BY <1>6, <1>9
<1> QED  BY <1>2, <1>10 DEF Grown

\* A window that is open at two moments is open between them.
LEMMA WindowIsConvex ==
    ASSUME NEW c \in Consumers, NEW from, NEW until, Timestamp(from), Timestamp(until),
           NEW t \in Nat, NEW u \in Nat, NEW v \in Nat, t <= u, u <= v,
           Within(c, t, from, until), Within(c, v, from, until)
    PROVE  Within(c, u, from, until)
<1>1. CASE c = "gate"
  BY <1>1 DEF Within, Timestamp, Str, Js!withinWindow, Js!isTimestamp
<1>2. CASE c = "ledger"
  BY <1>2 DEF Within, Timestamp, Str, Py!within_window, Py!is_timestamp, Py!Leq
<1> QED  BY <1>1, <1>2 DEF Consumers

\* The order on registries is reflexive and transitive.
LEMMA GrownOrder ==
    /\ \A p \in Seq(Entries) : Grown(p, p)
    /\ \A p, q, r \in Seq(Entries) : Grown(p, q) /\ Grown(q, r) => Grown(p, r)
<1>1. \A p \in Seq(Entries) : Grown(p, p)
  BY DEF Grown
<1>2. ASSUME NEW p \in Seq(Entries), NEW q \in Seq(Entries), NEW r \in Seq(Entries),
             Grown(p, q), Grown(q, r)
      PROVE  Grown(p, r)
  <2>1. Len(p) \in Nat /\ Len(q) \in Nat /\ Len(r) \in Nat
    OBVIOUS
  <2>2. Len(p) <= Len(r)
    BY <1>2, <2>1 DEF Grown
  <2>3. ASSUME NEW k \in 1..Len(p)
        PROVE  r[k] = p[k] \/ r[k] = [p[k] EXCEPT !.revoked = TRUE]
    <3>1. k \in 1..Len(q) /\ p[k] \in Entries
      BY <1>2, <2>1 DEF Grown
    <3>2. /\ q[k] = p[k] \/ q[k] = [p[k] EXCEPT !.revoked = TRUE]
          /\ r[k] = q[k] \/ r[k] = [q[k] EXCEPT !.revoked = TRUE]
      BY <1>2, <3>1 DEF Grown
    <3> QED  BY <3>1, <3>2 DEF Entries
  <2> QED  BY <2>2, <2>3 DEF Grown
<1> QED  BY <1>1, <1>2

\* A verdict is convex: an event verified with some registry at some time, and
\* again with a later one, is verified with everything in between.
THEOREM VerdictIsConvex ==
    ASSUME NEW c \in Consumers, NEW e, IsEvent(e), NEW cert,
           NEW p \in Seq(Entries), NEW q \in Seq(Entries), NEW r \in Seq(Entries),
           Grown(p, q), Grown(q, r),
           NEW t \in Nat, NEW u \in Nat, NEW v \in Nat, t <= u, u <= v,
           Says(c, e, p, t, cert) = "verified", Says(c, e, r, v, cert) = "verified"
    PROVE  Says(c, e, q, u, cert) = "verified"
<1>1. Accepts(c, e, p, t, cert) /\ Accepts(c, e, r, v, cert)
  BY VerifiedIsAccepted
<1> DEFINE k == Found(p, e)
<1>2. /\ Found(q, e) = k /\ k \in 1..Len(p)
      /\ q[k] = p[k] \/ q[k] = [p[k] EXCEPT !.revoked = TRUE]
  BY <1>1, FoundStays DEF Accepts
<1>3. /\ Found(r, e) = k
      /\ r[k] = q[k] \/ r[k] = [q[k] EXCEPT !.revoked = TRUE]
  BY <1>1, <1>2, FoundStays DEF Accepts
<1>4. p[k] \in Entries /\ q[k] \in Entries /\ r[k] \in Entries
  <2>1. k \in 1..Len(q) /\ k \in 1..Len(r)
    BY <1>2 DEF Grown
  <2> QED  BY <1>2, <2>1
<1>5. ~q[k].revoked
  BY <1>1, <1>3, <1>4 DEF Accepts, Entries
<1>6. /\ q[k].scheme = p[k].scheme /\ q[k].pair = p[k].pair
      /\ q[k].approver = p[k].approver
      /\ q[k].from = p[k].from /\ q[k].until = p[k].until
      /\ r[k].from = p[k].from /\ r[k].until = p[k].until
  BY <1>2, <1>3, <1>4 DEF Entries
<1>7. Timestamp(p[k].from) /\ Timestamp(p[k].until)
  <2>1. p[k].from \in Instants /\ p[k].until \in Instants
    BY <1>4 DEF Entries
  <2> QED  BY <2>1 DEF Instants, Timestamp, Str
<1>8. Within(c, u, q[k].from, q[k].until)
  <2>1. Within(c, t, p[k].from, p[k].until) /\ Within(c, v, p[k].from, p[k].until)
    BY <1>1, <1>2, <1>3, <1>6 DEF Accepts, Fits
  <2> QED  BY <1>6, <1>7, <2>1, WindowIsConvex
<1>9. Within(c, u, e.core.from, e.core.until)
  <2>1. Within(c, t, e.core.from, e.core.until) /\ Within(c, v, e.core.from, e.core.until)
    BY <1>1 DEF Accepts, Fits
  <2>2. Timestamp(e.core.from) /\ Timestamp(e.core.until)
    BY DEF IsEvent
  <2> QED  BY <2>1, <2>2, WindowIsConvex
<1>10. Accepts(c, e, q, u, cert)
  BY <1>1, <1>2, <1>5, <1>6, <1>8, <1>9 DEF Accepts, Fits
<1> QED  BY <1>10, VerifiedIsAccepted

\* A later registry can refuse a verified event only for a revocation.
LEMMA LaterRegistry ==
    ASSUME NEW c \in Consumers, NEW e, NEW cert, NEW t,
           NEW p \in Seq(Entries), NEW q \in Seq(Entries), Grown(p, q),
           Says(c, e, p, t, cert) = "verified"
    PROVE  Says(c, e, q, t, cert) \in {"verified", "key_revoked"}
<1>1. Accepts(c, e, p, t, cert)
  BY VerifiedIsAccepted
<1> DEFINE k == Found(p, e)
<1>2. /\ Found(q, e) = k /\ k \in 1..Len(p)
      /\ q[k] = p[k] \/ q[k] = [p[k] EXCEPT !.revoked = TRUE]
  BY <1>1, FoundStays DEF Accepts
<1>3. p[k] \in Entries
  BY <1>2
<1>4. Fits(c, e, q[k], t, cert)
  BY <1>1, <1>2, <1>3 DEF Accepts, Fits, Entries
<1> QED  BY <1>1, <1>2, <1>4, OnlyRevocationLeft DEF Accepts

\* The chain block is no part of what is judged.
LEMMA ChainIsNotRead ==
    ASSUME NEW c \in Consumers, NEW e, NEW f, e.core = f.core, e.signature = f.signature,
           NEW p, NEW t, NEW cert
    PROVE  Says(c, e, p, t, cert) = Says(c, f, p, t, cert)
BY DEF Says, GateSays, LedgerSays, Js!verifyAuthorityEvent, Py!verify_authority_event

----------------------------------------------------------------------------
(* The state machine. *)

\* The signature that arrived is one the Portal made, or of no registered key.
Traced ==
    \/ [by |-> event.signature.by, over |-> event.signature.over] \in minted
    \/ event.signature.by \notin {"v1", "v2"}

\* The registry and its copies are registries, each copy an earlier state of the
\* registry, and the event has the shape of one and a traceable signature.
LedgerShape ==
    /\ now \in Nat
    /\ registry \in Seq(Entries)
    /\ pins \in [Consumers -> Seq(Entries)]
    /\ \A c \in Consumers : Grown(pins[c], registry)
    /\ event # NoEvent => IsEvent(event) /\ Traced

\* The presented cert was once verified for c with an earlier registry, and later
\* refused with a registry not newer than its present one.
Lapsed(c) ==
    \E p, q \in Seq(Entries), t, u \in Nat :
        /\ Grown(p, q) /\ Grown(q, pins[c])
        /\ t <= u /\ u <= now
        /\ Says(c, event, p, t, Str("cert")) = "verified"
        /\ Says(c, event, q, u, Str("cert")) # "verified"

\* What the history variable records is so.
SeenIsTrue ==
    /\ seen \in [Consumers -> {"never", "verified", "lapsed"}]
    /\ \A c \in Consumers :
           /\ event = NoEvent => seen[c] = "never"
           /\ seen[c] = "verified" => Verified(c)
           /\ seen[c] = "lapsed" => Lapsed(c)

LedgerInv == LedgerShape /\ SeenIsTrue

\* What every step does: time and the copies go forward, and an event that has
\* arrived keeps its core and its signature.
Forward ==
    /\ now <= now'
    /\ \A c \in Consumers : Grown(pins[c], pins'[c])
    /\ event # NoEvent =>
           event' # NoEvent /\ event'.core = event.core /\ event'.signature = event.signature

\* An entry as it is registered.
LEMMA EntryShape ==
    ASSUME NEW key \in {"v1", "v2"}, NEW from \in Nat, NEW until \in Nat
    PROVE  Entry(key, from, until) \in Entries
<1>1. Str(key) \in KeyIds /\ Str(from) \in Instants /\ Str(until) \in Instants
  BY DEF KeyIds, Instants
<1> QED  BY <1>1 DEF Entry, Entries

\* Rewriting one place leaves an event in shape, and its signed bytes alone.
LEMMA DistortShape ==
    ASSUME NEW e, IsEvent(e), NEW d \in Requests \union Distortions
    PROVE  /\ IsEvent(Distort(e, d))
           /\ Distort(e, d).signature.over = e.signature.over
           /\ d.at # "by" => Distort(e, d).signature.by = e.signature.by
           /\ d.at = "by" => Distort(e, d).signature.by = d.to
<1>1. /\ d.at \in {"none", "hex", "scheme", "by", "shape", "extra"} \union Py!StringFields
      /\ d.at \in {"from", "until"} => Timestamp(d.to)
  BY RewritingsAreTyped DEF Timestamp
<1> DEFINE core == e.core
           signature == e.signature
<1>2. /\ e = [core |-> core, chain |-> e.chain, signature |-> signature]
      /\ core = [shape |-> core.shape, key_id |-> core.key_id,
                 approver |-> core.approver, cert |-> core.cert,
                 from |-> core.from, until |-> core.until, extra |-> core.extra]
      /\ signature = [scheme |-> signature.scheme, by |-> signature.by,
                      hex |-> signature.hex, over |-> signature.over]
      /\ Timestamp(core.from) /\ Timestamp(core.until)
  BY DEF IsEvent
<1>3. CASE d.at = "none"
  <2>1. Distort(e, d) = e
    BY <1>3 DEF Distort
  <2> QED  BY <1>3, <2>1
<1>4. CASE d.at \in {"hex", "scheme", "by"}
  <2> DEFINE s == [signature EXCEPT ![d.at] = d.to]
  <2>1. Distort(e, d) = [e EXCEPT !.signature = s]
    BY <1>4 DEF Distort
  <2>2. Distort(e, d) = [core |-> core, chain |-> e.chain, signature |-> s]
    BY <1>2, <2>1
  <2>3. /\ s = [scheme |-> s.scheme, by |-> s.by, hex |-> s.hex, over |-> s.over]
        /\ s.over = signature.over
        /\ d.at # "by" => s.by = signature.by
        /\ d.at = "by" => s.by = d.to
    BY <1>2, <1>4
  <2> QED  BY <1>2, <2>2, <2>3 DEF IsEvent
<1>5. CASE d.at \in {"shape", "extra"} \union Py!StringFields
  <2> DEFINE k == [core EXCEPT ![d.at] = d.to]
  <2>1. Distort(e, d) = [e EXCEPT !.core = k]
    BY <1>5 DEF Distort, Py!StringFields
  <2>2. Distort(e, d) = [core |-> k, chain |-> e.chain, signature |-> signature]
    BY <1>2, <2>1
  <2>3. /\ k = [shape |-> k.shape, key_id |-> k.key_id, approver |-> k.approver, cert |-> k.cert,
                from |-> k.from, until |-> k.until, extra |-> k.extra]
        /\ k.from = IF d.at = "from" THEN d.to ELSE core.from
        /\ k.until = IF d.at = "until" THEN d.to ELSE core.until
    BY <1>2, <1>5 DEF Py!StringFields
  <2>4. Timestamp(k.from) /\ Timestamp(k.until)
    BY <1>1, <1>2, <2>3
  <2> QED  BY <1>2, <1>5, <2>2, <2>3, <2>4 DEF IsEvent, Py!StringFields
<1> QED  BY <1>1, <1>3, <1>4, <1>5

\* What the Portal signs has the shape of an event.
LEMMA SignedShape ==
    ASSUME NEW key, NEW core,
           core = [shape |-> core.shape, key_id |-> core.key_id,
                   approver |-> core.approver, cert |-> core.cert,
                   from |-> core.from, until |-> core.until, extra |-> core.extra],
           Timestamp(core.from), Timestamp(core.until)
    PROVE  IsEvent(Signed(key, core)) /\ Signed(key, core).signature.by = key
BY DEF IsEvent, Signed

\* An event is not the absence of one.
LEMMA EventIsSome == \A e : IsEvent(e) => e # NoEvent
<1> SUFFICES ASSUME NEW e, IsEvent(e), e = NoEvent PROVE FALSE
  OBVIOUS
<1>1. DOMAIN e = {"core", "chain", "signature"} /\ DOMAIN e = {"core"}
  BY DEF IsEvent, NoEvent
<1> QED  BY <1>1

\* Minting: the event is in shape and its signature traceable.
LEMMA MintShape ==
    ASSUME NEW key, NEW given \in Requests, NEW rewritten \in Distortions,
           Mint(key, given, rewritten)
    PROVE  IsEvent(event') /\ Traced'
<1> DEFINE core == Distort(Signed(key, base_core(key)), given).core
           sent == Signed(key, core)
<1>1. IsEvent(Signed(key, base_core(key)))
  BY SignedShape DEF base_core, Timestamp, Str
<1>2. IsEvent(Distort(Signed(key, base_core(key)), given))
  BY <1>1, DistortShape
<1>3. IsEvent(sent) /\ sent.signature.by = key
  <2> HIDE DEF core
  <2>1. /\ core = [shape |-> core.shape, key_id |-> core.key_id,
                   approver |-> core.approver, cert |-> core.cert,
                   from |-> core.from, until |-> core.until, extra |-> core.extra]
        /\ Timestamp(core.from) /\ Timestamp(core.until)
    BY <1>2 DEF IsEvent, core
  <2> QED  BY <2>1, SignedShape
<1>4. /\ event' = Distort(sent, rewritten)
      /\ minted' = minted \union {[by |-> key, over |-> sent.signature.over]}
  BY DEF Mint
<1> HIDE DEF sent
<1>5. /\ IsEvent(event')
      /\ event'.signature.over = sent.signature.over
      /\ rewritten.at # "by" => event'.signature.by = key
      /\ rewritten.at = "by" => event'.signature.by = rewritten.to
  BY <1>3, <1>4, DistortShape
<1>6. Traced'
  BY <1>4, <1>5, NothingIsForged DEF Traced
<1> QED  BY <1>5, <1>6

\* In the beginning there is one key and no event.
LEMMA InitLedger == Init => LedgerInv
<1> SUFFICES ASSUME Init PROVE LedgerInv
  OBVIOUS
<1>1. build_registry \in Seq(Entries)
  BY EntryShape DEF build_registry
<1>2. Grown(build_registry, build_registry)
  BY <1>1, GrownOrder
<1>3. LedgerShape
  BY <1>1, <1>2 DEF Init, LedgerShape
<1>4. SeenIsTrue
  BY DEF Init, SeenIsTrue
<1> QED  BY <1>3, <1>4 DEF LedgerInv

\* The registry only grows, and the copies follow it.
LEMMA ShapeStep ==
    ASSUME LedgerShape, [Next]_vars
    PROVE  LedgerShape' /\ Forward
<1>1. /\ now \in Nat /\ registry \in Seq(Entries)
      /\ \A c \in Consumers : pins[c] \in Seq(Entries) /\ Grown(pins[c], registry)
      /\ \A c \in Consumers : Grown(pins[c], pins[c])
  BY GrownOrder DEF LedgerShape
<1>2. CASE Tick
  <2>1. now' \in Nat /\ now <= now'
    BY <1>1, <1>2 DEF Tick
  <2> QED  BY <1>1, <1>2, <2>1 DEF Tick, LedgerShape, Forward, Traced
<1>3. ASSUME UNCHANGED <<now, pins, minted, event>>,
             registry' \in Seq(Entries), Grown(registry, registry')
      PROVE  LedgerShape' /\ Forward
  <2>1. \A c \in Consumers : Grown(pins[c], registry')
    BY <1>1, <1>3, GrownOrder
  <2> QED  BY <1>1, <1>3, <2>1 DEF LedgerShape, Forward, Traced
<1>4. CASE Rotate
  <2>1. Successor \in Entries
    BY EntryShape DEF Successor
  <2>2. registry' = Append(registry, Successor)
    BY <1>4 DEF Rotate
  <2>3. registry' \in Seq(Entries) /\ Grown(registry, registry')
    BY <1>1, <2>1, <2>2 DEF Grown
  <2> QED  BY <1>3, <1>4, <2>3 DEF Rotate
<1>5. ASSUME NEW k \in DOMAIN registry, Revoke(k)
      PROVE  LedgerShape' /\ Forward
  <2> DEFINE revoked == [registry[k] EXCEPT !.revoked = TRUE]
  <2>1. registry[k] \in Entries
    BY <1>1
  <2>2. revoked \in Entries
    BY <2>1 DEF Entries
  <2>3. registry' = [registry EXCEPT ![k] = revoked]
    BY <1>5 DEF Revoke
  <2>4. registry' \in Seq(Entries) /\ Len(registry') = Len(registry)
    BY <1>1, <2>2, <2>3
  <2>5. \A i \in 1..Len(registry) : registry'[i] = IF i = k THEN revoked ELSE registry[i]
    BY <1>1, <2>3
  <2>6. \A i \in 1..Len(registry) :
            \/ registry'[i] = registry[i]
            \/ registry'[i] = [registry[i] EXCEPT !.revoked = TRUE]
    BY <2>5
  <2>7. Len(registry) <= Len(registry')
    BY <1>1, <2>4
  <2>8. Grown(registry, registry')
    BY <2>6, <2>7, Zenon DEF Grown
  <2> QED  BY <1>3, <1>5, <2>4, <2>8 DEF Revoke
<1>6. ASSUME NEW c \in Consumers, Vendor(c)
      PROVE  LedgerShape' /\ Forward
  <2>1. /\ pins' = [pins EXCEPT ![c] = registry]
        /\ UNCHANGED <<now, registry, minted, event>>
    BY <1>6 DEF Vendor
  <2>2. pins' \in [Consumers -> Seq(Entries)]
    BY <1>1, <2>1 DEF LedgerShape
  <2>3. \A d \in Consumers : pins'[d] = IF d = c THEN registry ELSE pins[d]
    BY <2>1 DEF LedgerShape
  <2>4. Grown(registry, registry)
    BY <1>1, GrownOrder
  <2>5. \A d \in Consumers : Grown(pins'[d], registry) /\ Grown(pins[d], pins'[d])
    BY <1>1, <2>3, <2>4
  <2> QED  BY <1>1, <2>1, <2>2, <2>5 DEF LedgerShape, Forward, Traced
<1>7. ASSUME NEW key, NEW given \in Requests, NEW rewritten \in Distortions,
             Mint(key, given, rewritten)
      PROVE  LedgerShape' /\ Forward
  <2>1. event = NoEvent /\ UNCHANGED <<now, registry, pins>>
    BY <1>7 DEF Mint
  <2>2. IsEvent(event') /\ Traced'
    BY <1>7, MintShape
  <2> QED  BY <1>1, <2>1, <2>2 DEF LedgerShape, Forward
<1>8. CASE chain_block
  <2>1. /\ event # NoEvent /\ UNCHANGED <<now, registry, pins, minted>>
        /\ event' = [event EXCEPT !.chain = TRUE]
        /\ IsEvent(event)
    BY <1>8 DEF chain_block, LedgerShape
  <2> DEFINE core == event.core
             signature == event.signature
  <2>2. event = [core |-> core, chain |-> event.chain, signature |-> signature]
    BY <2>1 DEF IsEvent
  <2>3. event' = [core |-> core, chain |-> TRUE, signature |-> signature]
    BY <2>1, <2>2
  <2>4. event'.core = core /\ event'.signature = signature
    BY <2>3
  <2>5. IsEvent(event')
    BY <2>1, <2>3, <2>4 DEF IsEvent
  <2>6. event' # NoEvent
    BY <2>5, EventIsSome
  <2>7. Traced'
    BY <2>1, <2>4 DEF LedgerShape, Traced
  <2> QED  BY <1>1, <2>1, <2>4, <2>5, <2>6, <2>7 DEF LedgerShape, Forward
<1>9. CASE UNCHANGED vars
  BY <1>1, <1>9 DEF vars, LedgerShape, Forward, Traced
<1> QED  BY <1>2, <1>4, <1>5, <1>6, <1>7, <1>8, <1>9 DEF Next

\* Every step is judged.
LEMMA EveryStepJudges == [Next]_vars => Judge \/ UNCHANGED vars
BY DEF Next, Tick, Rotate, Revoke, Vendor, Mint, chain_block

\* What the history records stays so: a verdict that was lost is lost for good.
LEMMA SeenStep ==
    ASSUME LedgerInv, [Next]_vars
    PROVE  SeenIsTrue'
<1>1. LedgerShape /\ SeenIsTrue /\ LedgerShape' /\ Forward
  BY ShapeStep DEF LedgerInv
<1>2. CASE Judge
  <2>1. \A c \in Consumers :
            seen'[c] = IF Verified(c)' THEN IF seen[c] = "lapsed" THEN "lapsed" ELSE "verified"
                       ELSE IF seen[c] = "never" THEN "never" ELSE "lapsed"
    BY <1>2 DEF Judge
  <2>2. seen' \in [Consumers -> {"never", "verified", "lapsed"}]
    BY <1>1, <1>2 DEF Judge, SeenIsTrue
  <2>3. ASSUME NEW c \in Consumers, event' = NoEvent PROVE seen'[c] = "never"
    <3>1. event = NoEvent
      BY <1>1, <2>3 DEF Forward
    <3>2. ~Verified(c)' /\ seen[c] = "never"
      BY <1>1, <2>3, <3>1 DEF Verified, SeenIsTrue
    <3> QED  BY <2>1, <3>2
  <2>4. ASSUME NEW c \in Consumers, seen'[c] = "verified" PROVE Verified(c)'
    BY <2>1, <2>4
  <2>5. ASSUME NEW c \in Consumers, seen'[c] = "lapsed" PROVE Lapsed(c)'
    <3>1. seen[c] \in {"verified", "lapsed"} /\ event # NoEvent
      BY <1>1, <2>1, <2>5 DEF SeenIsTrue
    <3>2. /\ now \in Nat /\ now' \in Nat /\ now <= now'
          /\ pins[c] \in Seq(Entries) /\ pins'[c] \in Seq(Entries)
          /\ Grown(pins[c], pins'[c]) /\ Grown(pins'[c], pins'[c])
          /\ event' # NoEvent
          /\ event'.core = event.core /\ event'.signature = event.signature
      BY <1>1, <3>1, GrownOrder DEF LedgerShape, Forward
    <3>3. CASE seen[c] = "lapsed"
      <4>1. PICK p, q \in Seq(Entries), t, u \in Nat :
                /\ Grown(p, q) /\ Grown(q, pins[c])
                /\ t <= u /\ u <= now
                /\ Says(c, event, p, t, Str("cert")) = "verified"
                /\ Says(c, event, q, u, Str("cert")) # "verified"
        BY <1>1, <3>3 DEF SeenIsTrue, Lapsed
      <4>2. Grown(q, pins'[c])
        BY <3>2, <4>1, GrownOrder
      <4>3. u <= now'
        BY <3>2, <4>1
      <4>4. /\ Says(c, event', p, t, Str("cert")) = "verified"
            /\ Says(c, event', q, u, Str("cert")) # "verified"
        BY <3>2, <4>1, ChainIsNotRead
      <4> QED  BY <4>1, <4>2, <4>3, <4>4 DEF Lapsed
    <3>4. CASE seen[c] = "verified"
      <4>1. Verified(c) /\ ~Verified(c)'
        BY <1>1, <2>1, <2>5, <3>4 DEF SeenIsTrue
      <4>2. /\ Says(c, event, pins[c], now, Str("cert")) = "verified"
            /\ Says(c, event', pins'[c], now', Str("cert")) # "verified"
        BY <3>2, <4>1 DEF Verified, Reason
      <4>3. Says(c, event', pins[c], now, Str("cert")) = "verified"
        BY <3>2, <4>2, ChainIsNotRead
      <4>4. now' <= now'
        BY <3>2
      <4> QED  BY <3>2, <4>2, <4>3, <4>4 DEF Lapsed
    <3> QED  BY <3>1, <3>3, <3>4
  <2> QED  BY <2>2, <2>3, <2>4, <2>5 DEF SeenIsTrue
<1>3. CASE UNCHANGED vars
  BY <1>1, <1>3 DEF vars, SeenIsTrue, Verified, Reason, Lapsed
<1> QED  BY <1>2, <1>3, EveryStepJudges

\* The invariant of the ledger, whatever is signed, rewritten, rotated, revoked and
\* vendored in whatever order.
THEOREM LedgerInvariant == Spec => []LedgerInv
<1>1. LedgerInv /\ [Next]_vars => LedgerInv'
  BY ShapeStep, SeenStep DEF LedgerInv
<1> QED  BY InitLedger, <1>1, PTL DEF Spec

\* An event that stopped verifying never verifies again for that consumer.
THEOREM LapsedIsForGood == Spec => []LapsedStaysLapsed
<1>1. LedgerInv => LapsedStaysLapsed
  <2> SUFFICES ASSUME LedgerInv, NEW c \in Consumers, seen[c] = "lapsed", Verified(c)
               PROVE  FALSE
    BY DEF LapsedStaysLapsed
  <2>1. /\ event # NoEvent /\ IsEvent(event)
        /\ now \in Nat /\ pins[c] \in Seq(Entries)
        /\ Says(c, event, pins[c], now, Str("cert")) = "verified"
    BY DEF LedgerInv, LedgerShape, Verified, Reason
  <2>2. PICK p, q \in Seq(Entries), t, u \in Nat :
            /\ Grown(p, q) /\ Grown(q, pins[c])
            /\ t <= u /\ u <= now
            /\ Says(c, event, p, t, Str("cert")) = "verified"
            /\ Says(c, event, q, u, Str("cert")) # "verified"
    BY DEF LedgerInv, SeenIsTrue, Lapsed
  <2> QED  BY <2>1, <2>2, VerdictIsConvex
<1> QED  BY <1>1, LedgerInvariant, PTL

\* The ledger's chain block changes no reader's verdict.
THEOREM ChainIsOutsideTheVerdict == Spec => ChainKeepsVerdict
<1> DEFINE A == event # NoEvent /\ event.chain # event'.chain =>
                    \A c \in Consumers : Reason(c)' = Reason(c)
<1>1. [Next]_vars => [A]_vars
  <2> SUFFICES ASSUME Next, event # NoEvent, event.chain # event'.chain, NEW c \in Consumers
               PROVE  Reason(c)' = Reason(c)
    OBVIOUS
  <2>1. chain_block
    BY DEF Next, Tick, Rotate, Revoke, Vendor, Mint
  <2>2. event'.core = event.core /\ event'.signature = event.signature
    BY <2>1 DEF chain_block
  <2>3. pins' = pins /\ now' = now
    BY <2>1 DEF chain_block
  <2> QED  BY <2>2, <2>3, ChainIsNotRead DEF Reason
<1> QED  BY <1>1, PTL DEF Spec, ChainKeepsVerdict

\* Vendoring a later registry takes a verdict away by a revocation only.
THEOREM RotationIsHarmless == Spec => VendoringOnlyRevokes
<1> DEFINE A == \A c \in Consumers :
                    pins'[c] # pins[c] /\ Verified(c) /\ event' = event =>
                    Reason(c)' \in {"verified", "key_revoked"}
<1>1. LedgerInv /\ [Next]_vars => [A]_vars
  <2> SUFFICES ASSUME LedgerInv, Next, NEW c \in Consumers,
                      pins'[c] # pins[c], Verified(c), event' = event
               PROVE  Reason(c)' \in {"verified", "key_revoked"}
    OBVIOUS
  <2>1. LedgerShape /\ LedgerShape' /\ Forward
    BY ShapeStep DEF LedgerInv
  <2>2. now' = now
    BY DEF Next, Tick, Rotate, Revoke, Vendor, Mint, chain_block
  <2>3. pins[c] \in Seq(Entries) /\ pins'[c] \in Seq(Entries) /\ Grown(pins[c], pins'[c])
    BY <2>1 DEF LedgerShape, Forward
  <2>4. Says(c, event, pins[c], now, Str("cert")) = "verified"
    BY DEF Verified, Reason
  <2>5. Says(c, event, pins'[c], now, Str("cert")) \in {"verified", "key_revoked"}
    BY <2>3, <2>4, LaterRegistry
  <2> QED  BY <2>2, <2>5 DEF Reason
<1> QED  BY <1>1, LedgerInvariant, PTL DEF Spec, VendoringOnlyRevokes

----------------------------------------------------------------------------
(* What a verdict vouches for. *)

\* A serializer that does not raise gives what the core means.
LEMMA TextIsMeaning ==
    ASSUME NEW c \in Consumers, NEW e, IsEvent(e), Readable(c, e)
    PROVE  IF c = "gate" THEN Js!canonicalizeCore(e.core).text = Meaning(e.core)
                         ELSE Py!canonicalize_core(e.core).text = Meaning(e.core)
<1>1. CASE c = "gate"
  BY <1>1 DEF Js!canonicalizeCore, Meaning
<1>2. CASE c = "ledger"
  <2> DEFINE k == e.core
  <2>1. k.extra # "integral_float"
    BY <1>2 DEF Readable, Py!canonicalize_core, Py!ExtraOk
  <2>2. k = [shape |-> k.shape, key_id |-> k.key_id, approver |-> k.approver, cert |-> k.cert,
             from |-> k.from, until |-> k.until, extra |-> k.extra]
    BY DEF IsEvent
  <2>3. Meaning(k) = k
    BY <2>1, <2>2 DEF Meaning
  <2> QED  BY <1>2, <2>3 DEF Py!canonicalize_core
<1> QED  BY <1>1, <1>2 DEF Consumers

\* An open window begins before now and ends after it, but for the final line feed.
LEMMA OpenWindow ==
    ASSUME NEW c \in Consumers, NEW t \in Nat, NEW from, NEW until,
           Timestamp(from), Timestamp(until), Within(c, t, from, until)
    PROVE  /\ from.text <= t
           /\ t < until.text \/ (until.end = "newline" /\ t = until.text)
<1>1. CASE c = "gate"
  BY <1>1 DEF Within, Timestamp, Str, Js!withinWindow, Js!isTimestamp
<1>2. CASE c = "ledger"
  BY <1>2 DEF Within, Timestamp, Str, Py!within_window, Py!is_timestamp, Py!Leq
<1> QED  BY <1>1, <1>2 DEF Consumers

\* A genuine signature is over what the core means.
LEMMA GenuineSignature ==
    ASSUME NEW c \in Consumers, NEW e, IsEvent(e), Readable(c, e), NEW pair, Genuine(c, e, pair)
    PROVE  e.signature.by = pair /\ e.signature.over[2] = Meaning(e.core)
<1>1. CASE c = "gate"
  BY <1>1, TextIsMeaning DEF Genuine, Js!ed25519Verify, Js!authoritySigningPreimage
<1>2. CASE c = "ledger"
  BY <1>2, TextIsMeaning DEF Genuine, Py!ed25519_verify, Py!authority_signing_preimage
<1> QED  BY <1>1, <1>2 DEF Consumers

\* An event either reader verifies is one the Portal signed, with the pair the
\* reader's own copy binds to the signed key_id and approver, over a core that says
\* the same, for the presented cert, inside the signed window and the key's.
THEOREM OnlySignedIsVerified == Spec => []VerifiedMeansSigned
<1>1. LedgerInv => VerifiedMeansSigned
  <2> SUFFICES ASSUME LedgerInv, event # NoEvent,
                      NEW c \in Consumers, NEW cert \in Expected,
                      Says(c, event, pins[c], now, cert) = "verified"
               PROVE  /\ cert \in Certs /\ event.core.cert = cert
                      /\ SignedWindow(event.core)
                      /\ \E m \in minted, k \in DOMAIN pins[c] :
                             /\ m.over[2] = Meaning(event.core)
                             /\ LET key == pins[c][k]
                                IN  /\ key.pair = m.by /\ key.key_id = event.core.key_id
                                    /\ key.approver = event.core.approver
                                    /\ key.from.text <= now /\ now < key.until.text
    BY DEF VerifiedMeansSigned
  <2> DEFINE p == pins[c]
             k == Found(p, event)
  <2>1. /\ IsEvent(event) /\ Traced /\ now \in Nat
        /\ p \in Seq(Entries) /\ Grown(p, p)
    BY GrownOrder DEF LedgerInv, LedgerShape
  <2>2. Accepts(c, event, p, now, cert)
    BY VerifiedIsAccepted
  <2> HIDE DEF p
  <2>3. k \in 1..Len(p) /\ p[k].key_id = event.core.key_id /\ p[k] \in Entries
    <3>1. k \in 1..Len(p) /\ p[k].key_id = event.core.key_id
      BY <2>1, <2>2, FoundStays DEF Accepts
    <3> QED  BY <2>1, <3>1
  <2>4. Readable(c, event) /\ Fits(c, event, p[k], now, cert)
    BY <2>2 DEF Accepts
  <2> HIDE DEF k
  <2>5. cert \in Certs /\ event.core.cert = cert /\ p[k].approver = event.core.approver
    <3>1. cert.end # "absent" /\ event.core.cert = cert /\ p[k].approver = event.core.approver
      BY <2>4 DEF Fits
    <3>2. Absent.end = "absent"
      BY DEF Absent
    <3>3. cert # Absent
      BY <3>1, <3>2
    <3> HIDE DEF Absent
    <3> QED  BY <3>1, <3>3 DEF Expected
  <2>6. SignedWindow(event.core)
    <3>1. Within(c, now, event.core.from, event.core.until)
      BY <2>4 DEF Fits
    <3>2. Timestamp(event.core.from) /\ Timestamp(event.core.until)
      BY <2>1 DEF IsEvent
    <3> QED  BY <2>1, <3>1, <3>2, OpenWindow DEF SignedWindow
  <2>7. p[k].from.text <= now /\ now < p[k].until.text
    <3>1. Within(c, now, p[k].from, p[k].until)
      BY <2>4 DEF Fits
    <3>2. p[k].from \in Instants /\ p[k].until \in Instants
      BY <2>3 DEF Entries
    <3>3. Timestamp(p[k].from) /\ Timestamp(p[k].until) /\ p[k].until.end = "none"
      BY <3>2 DEF Instants, Timestamp, Str
    <3> QED  BY <2>1, <3>1, <3>3, OpenWindow
  <2>8. Genuine(c, event, p[k].pair)
    BY <2>4 DEF Fits
  <2>9. event.signature.by = p[k].pair /\ event.signature.over[2] = Meaning(event.core)
    BY <2>1, <2>4, <2>8, GenuineSignature
  <2>10. event.signature.by \in {"v1", "v2"}
    BY <2>3, <2>9 DEF Entries
  <2> DEFINE m == [by |-> event.signature.by, over |-> event.signature.over]
  <2>11. m \in minted /\ m.by = p[k].pair /\ m.over[2] = Meaning(event.core)
    BY <2>1, <2>9, <2>10 DEF Traced
  <2> HIDE DEF m
  <2>12. k \in DOMAIN p
    BY <2>1, <2>3
  <2> QED  BY <2>3, <2>5, <2>6, <2>7, <2>11, <2>12 DEF p
<1> QED  BY <1>1, LedgerInvariant, PTL

\* On the profile the two serializers raise on the same cores and give the others
\* the same bytes, which are the core's own.
LEMMA SerializersAgreeOnProfile ==
    ASSUME NEW e, IsEvent(e), InProfile(e)
    PROVE  /\ Py!canonicalize_core(e.core).raises <=> Js!canonicalizeCore(e.core).raises
           /\ Py!canonicalize_core(e.core).text = Js!canonicalizeCore(e.core).text
           /\ ~Py!canonicalize_core(e.core).raises =>
                  e.core.from.end # "unsafe" /\ e.core.until.end # "unsafe"
<1> DEFINE k == e.core
<1>1. /\ \A f \in Py!StringFields : k[f].end \in {"none", "unsafe", "absent"}
      /\ k.extra \in {"absent", "integer", "fraction", "null"}
  BY DEF InProfile
<1>2. k = [shape |-> k.shape, key_id |-> k.key_id, approver |-> k.approver, cert |-> k.cert,
           from |-> k.from, until |-> k.until, extra |-> k.extra]
  BY DEF IsEvent
<1>3. \A f \in Py!StringFields : Py!ValueOk(k[f]) <=> Js!ValueOk(k[f])
  BY <1>1 DEF Py!ValueOk, Js!ValueOk
<1>4. Py!ExtraOk(k.extra) <=> Js!ExtraOk(k.extra)
  BY <1>1 DEF Py!ExtraOk, Js!ExtraOk
<1>5. Py!canonicalize_core(k).raises <=> Js!canonicalizeCore(k).raises
  BY <1>3, <1>4 DEF Py!canonicalize_core, Js!canonicalizeCore, Py!StringFields, Js!StringFields
<1>6. [k EXCEPT !.extra = IF @ = "integral_float" THEN "integer" ELSE @] = k
  BY <1>1, <1>2
<1>7. Py!canonicalize_core(k).text = Js!canonicalizeCore(k).text
  BY <1>6 DEF Py!canonicalize_core, Js!canonicalizeCore
<1>8. ~Py!canonicalize_core(k).raises => k.from.end # "unsafe" /\ k.until.end # "unsafe"
  BY DEF Py!canonicalize_core, Py!ValueOk, Py!StringFields
<1> QED  BY <1>5, <1>7, <1>8

\* On bare timestamps the two windows are the same.
LEMMA SameWindow ==
    ASSUME NEW t \in Nat, NEW from, NEW until, Timestamp(from), Timestamp(until),
           from.end \in {"none", "absent"}, until.end \in {"none", "absent"}
    PROVE  Py!within_window(Str(t), from, until) <=> Js!withinWindow(Str(t), from, until)
BY DEF Timestamp, Str, Py!within_window, Py!is_timestamp, Py!Leq,
       Js!withinWindow, Js!isTimestamp

\* Two readers holding the same registry give an event of the profile the same
\* verdict for the same reason, whatever was rewritten on its way.
THEOREM ReadersDoAgree == Spec => []ReadersAgree
<1>1. LedgerInv => ReadersAgree
  <2> SUFFICES ASSUME LedgerInv, event # NoEvent, InProfile(event), NEW cert \in Expected
               PROVE  GateSays(event, pins["gate"], now, cert)
                          = LedgerSays(event, pins["gate"], now, cert)
    BY DEF ReadersAgree
  <2> DEFINE p == pins["gate"]
             at == Found(p, event)
  <2>1. IsEvent(event) /\ now \in Nat /\ p \in Seq(Entries) /\ Grown(p, p)
    BY GrownOrder DEF LedgerInv, LedgerShape, Consumers
  <2> HIDE DEF p
  <2>2. event.core.shape = "object" /\ event.signature.hex \in {"exact", "missing"}
    BY DEF InProfile
  <2>3. Js!findKey(p, event.core.key_id) = at /\ Py!find_key(p, event.core.key_id) = at
    BY SameLookup DEF Found
  <2>4. ASSUME at # 0
        PROVE  Py!within_window(Str(now), p[at].from, p[at].until)
                   <=> Js!withinWindow(Str(now), p[at].from, p[at].until)
    <3>1. p[at] \in Entries
      <4>1. at \in 1..Len(p)
        BY <2>1, <2>4, FoundStays
      <4> HIDE DEF at
      <4> QED  BY <2>1, <4>1
    <3>2. p[at].from \in Instants /\ p[at].until \in Instants
      BY <3>1 DEF Entries
    <3> HIDE DEF at
    <3> QED  BY <2>1, <3>2, SameWindow DEF Instants, Timestamp, Str
  <2> HIDE DEF at
  <2>5. /\ Py!canonicalize_core(event.core).raises <=> Js!canonicalizeCore(event.core).raises
        /\ Py!canonicalize_core(event.core).text = Js!canonicalizeCore(event.core).text
    BY <2>1, SerializersAgreeOnProfile
  <2>6. ASSUME ~Py!canonicalize_core(event.core).raises
        PROVE  Py!within_window(Str(now), event.core.from, event.core.until)
                   <=> Js!withinWindow(Str(now), event.core.from, event.core.until)
    <3>1. event.core.from.end \in {"none", "absent"} /\ event.core.until.end \in {"none", "absent"}
      <4>1. "from" \in Py!StringFields /\ "until" \in Py!StringFields
        BY DEF Py!StringFields
      <4>2. /\ event.core.from.end \in {"none", "unsafe", "absent"}
            /\ event.core.until.end \in {"none", "unsafe", "absent"}
        BY <4>1 DEF InProfile
      <4>3. event.core.from.end # "unsafe" /\ event.core.until.end # "unsafe"
        BY <2>1, <2>6, SerializersAgreeOnProfile
      <4> QED  BY <4>2, <4>3
    <3>2. Timestamp(event.core.from) /\ Timestamp(event.core.until)
      BY <2>1 DEF IsEvent
    <3> QED  BY <2>1, <3>1, <3>2, SameWindow
  <2>7. \A pair :
            Py!ed25519_verify(pair, event.signature, Py!authority_signing_preimage(event.core))
              <=> Js!ed25519Verify(pair, event.signature, Js!authoritySigningPreimage(event.core))
    BY <2>2, <2>5 DEF Py!ed25519_verify, Js!ed25519Verify, Py!Decodes, Js!Decodes,
                      Py!authority_signing_preimage, Js!authoritySigningPreimage
  <2>8. Js!verifyAuthorityEvent(event, p, Str(now), cert)
            = Py!verify_authority_event(event, p, Str(now), cert)
    BY <2>2, <2>3, <2>4, <2>5, <2>6, <2>7
       DEF Js!verifyAuthorityEvent, Py!verify_authority_event
  <2> QED  BY <2>8 DEF GateSays, LedgerSays, p
<1> QED  BY <1>1, LedgerInvariant, PTL
============================================================================
