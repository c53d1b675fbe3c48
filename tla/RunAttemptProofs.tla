--------------------------- MODULE RunAttemptProofs ---------------------------
(***************************************************************************)
(* Proofs about RunAttempt, for every set of envelopes, materials,         *)
(* listings and contexts, and any number of changes.                       *)
(***************************************************************************)
EXTENDS RunAttempt, FiniteSetTheorems, SequenceTheorems, WellFoundedInduction, TLAPS

Admitted == phase \notin {"submitted", "refused"}
Started == phase \in {"chain", "working", "cancelling", "finished"}

\* What admission saw of the route and of the grants.
Evidence ==
    /\ IsFiniteSet(DOMAIN admittedBy.records)
    /\ route(env, admittedBy) = {}
    /\ env.grants \subseteq Vouched(env, admittedBy).grants

\* The inductive invariant: nothing runs before the recheck passed; what the
\* recheck saw is what is captured; a worker got exactly that; and whoever was
\* admitted had evidence in the context of its admission.
AttemptInv ==
    /\ env.bound \in [Parts -> Nat]
    /\ ctx \in Contexts
    /\ IsMaterial(mat)
    /\ phase \in {"submitted", "queued", "capturing", "captured", "refused"} \/ Started
    /\ phase \in {"capturing", "captured"} \/ Started => IsMaterial(captured)
    /\ ~Started => chain = 0 /\ workers = 0
    /\ Started => material(env, captured) = {}
    /\ workers > 0 => ran = Delivered(captured)
    /\ workers \in Nat
    /\ Admitted => Evidence

\* A stage that reports nothing had no reason to.
LEMMA NoCode ==
    ASSUME NEW code, NEW holds \in BOOLEAN, Code(code, holds) = {}
    PROVE  ~holds
BY DEF Code

\* Parts that report no mismatch are none.
LEMMA NoMismatch ==
    ASSUME NEW S, {"launch_" \o p \o "_mismatch" : p \in S} = {}
    PROVE  S = {}
OBVIOUS

\* A clean recheck: the parts, the flaws and the tree are those of the envelope.
LEMMA CleanMaterial ==
    ASSUME NEW e, NEW m, IsMaterial(m), e.bound \in [Parts -> Nat], material(e, m) = {}
    PROVE  /\ m.used = e.bound /\ m.flaws = {} /\ r2_capture_manifest(m.capture) = e.tree
           /\ r2_capture_manifest(m.capture).bound
           /\ Unjoined(e, r2_capture_manifest(m.capture)) = {}
<1> DEFINE tree == r2_capture_manifest(m.capture)
           other == {p \in Parts : m.used[p] # e.bound[p]}
           moved == IF tree.bound /\ tree # e.tree THEN {"workspace"} ELSE {}
           parts == other \union moved \union Unjoined(e, tree)
           holds == m.flaws # {} \/ ~tree.bound
<1>1. /\ {"launch_" \o p \o "_mismatch" : p \in parts} = {}
      /\ Code("launch_input_unbound", holds) = {}
  <2> HIDE DEF Unjoined
  <2>1. {"launch_" \o p \o "_mismatch" : p \in parts}
            \union Code("launch_input_unbound", holds) = {}
    BY Zenon DEF material
  <2> QED  BY <2>1, Zenon
<1>2. parts = {}
  <2> HIDE DEF parts
  <2> QED  BY <1>1, NoMismatch
<1>3. ~holds
  <2> HIDE DEF tree
  <2>1. holds \in BOOLEAN
    OBVIOUS
  <2> HIDE DEF holds
  <2> QED  BY <1>1, <2>1, NoCode
<1>4. other = {} /\ moved = {} /\ Unjoined(e, tree) = {}
  <2> HIDE DEF other, moved
  <2> QED  BY <1>2
<1>5. m.used = e.bound
  BY <1>4 DEF IsMaterial
<1>6. tree = e.tree /\ tree.bound
  <2> HIDE DEF tree
  <2> QED  BY <1>3, <1>4
<1> QED  BY <1>3, <1>4, <1>5, <1>6

\* A nonempty set of naturals has a least element.
LEMMA Least ==
    ASSUME NEW N, N \subseteq Nat, N # {}
    PROVE  \E m \in N : \A n \in N : m <= n
<1>1. PICK m \in N : \A n \in N : ~(<<n, m>> \in OpToRel(<, Nat))
  BY NatLessThanWellFounded, WFMin
<1>2. \A n \in N : ~(n < m)
  BY <1>1 DEF OpToRel
<1>3. m \in Nat /\ \A n \in N : n \in Nat
  OBVIOUS
<1> QED  BY <1>2, <1>3

\* The least index of a stage that reports is an index of one that does.
LEMMA LeastStage ==
    ASSUME NEW I \in SUBSET (1..7), I # {}
    PROVE  Min(I) \in I
<1>1. \E n \in I : \A k \in I : n <= k
  <2>1. I \subseteq Nat
    OBVIOUS
  <2> QED  BY <2>1, Least
<1> QED  BY <1>1 DEF Min

\* An evaluation without a code had no stage that reports: the staged loop does
\* not stop short of one.
LEMMA CleanEvaluation ==
    ASSUME NEW e, NEW c, NEW m, r2_evaluate(e, c, m) = {}
    PROVE  /\ route(e, c) = {}
           /\ capability(e, c, m) = {}
<1> DEFINE stages == Stages(e, c, m)
           I == {i \in 1..Len(stages) : stages[i] # {}}
           first == SelectInSeq(stages, LAMBDA found : found # {})
<1>1. Len(stages) = 7 /\ stages[5] = route(e, c) /\ stages[6] = capability(e, c, m)
  BY DEF Stages
<1>2. first = IF I # {} THEN Min(I) ELSE 0
  BY Zenon DEF SelectInSeq
<1>3. IF first = 0 THEN TRUE ELSE stages[first] = {}
  <2> HIDE DEF first, stages
  <2>1. IF ~e.schema_ok THEN {"envelope_schema_invalid"} = {}
        ELSE IF first = 0 THEN TRUE ELSE stages[first] = {}
    BY Zenon DEF r2_evaluate, first, stages
  <2> QED  BY <2>1
<1>4. I = {}
  <2>1. SUFFICES ASSUME I # {} PROVE FALSE
    OBVIOUS
  <2>2. I \in SUBSET (1..7)
    BY <1>1
  <2> HIDE DEF I, first
  <2>3. Min(I) \in I
    BY <2>1, <2>2, LeastStage
  <2>4. first \in I /\ first # 0
    BY <2>1, <2>2, <2>3, <1>2
  <2> QED  BY <2>4, <1>3 DEF I
<1> HIDE DEF stages
<1> QED  BY <1>1, <1>4

\* An envelope admitted in a context has its evidence there.
LEMMA CleanRoute ==
    ASSUME NEW e, NEW c, NEW m, r2_evaluate(e, c, m) = {}
    PROVE  route(e, c) = {} /\ e.grants \subseteq Vouched(e, c).grants
<1>1. route(e, c) = {} /\ capability(e, c, m) = {}
  BY CleanEvaluation
<1> DEFINE holds == GrantUnqualified(e, c, m)
<1>2. Code("grant_unqualified", holds) = {}
  <2> HIDE DEF holds
  <2> QED  BY <1>1, Zenon DEF capability, holds
<1>3. ~holds
  <2>1. holds \in BOOLEAN
    BY DEF GrantUnqualified
  <2> HIDE DEF holds
  <2> QED  BY <1>2, <2>1, NoCode
<1>4. \A grant \in e.grants : grant \in Vouched(e, c).grants
  BY <1>3 DEF GrantUnqualified
<1> QED  BY <1>1, <1>4

\* Material with one field replaced is material.
LEMMA MaterialExcept ==
    ASSUME NEW m, IsMaterial(m)
    PROVE  /\ \A p \in Parts : IsMaterial([m EXCEPT !.used[p] = @ + 1])
           /\ \A f : IsMaterial([m EXCEPT !.flaws = f])
           /\ \A l \in Seq(Objects) : IsMaterial([m EXCEPT !.capture = l])
<1> DEFINE u == m.used  v == m.flaws  s == m.secrets  c == m.capture
<1>1. m = [used |-> u, flaws |-> v, secrets |-> s, capture |-> c] /\ u \in [Parts -> Nat]
  BY DEF IsMaterial
<1>5. c \in Seq(Objects)
  BY DEF IsMaterial
<1> HIDE DEF u, v, s, c
<1>2. ASSUME NEW p \in Parts PROVE IsMaterial([m EXCEPT !.used[p] = @ + 1])
  <2>1. [m EXCEPT !.used[p] = @ + 1]
            = [used |-> [u EXCEPT ![p] = @ + 1], flaws |-> v, secrets |-> s, capture |-> c]
    BY <1>1
  <2>2. [u EXCEPT ![p] = @ + 1] \in [Parts -> Nat]
    BY <1>1
  <2> QED  BY <1>5, <2>1, <2>2 DEF IsMaterial
<1>3. ASSUME NEW f PROVE IsMaterial([m EXCEPT !.flaws = f])
  <2>1. [m EXCEPT !.flaws = f] = [used |-> u, flaws |-> f, secrets |-> s, capture |-> c]
    BY <1>1
  <2> QED  BY <1>1, <1>5, <2>1 DEF IsMaterial
<1>4. ASSUME NEW l \in Seq(Objects) PROVE IsMaterial([m EXCEPT !.capture = l])
  <2>1. [m EXCEPT !.capture = l] = [used |-> u, flaws |-> v, secrets |-> s, capture |-> l]
    BY <1>1
  <2> QED  BY <1>1, <2>1 DEF IsMaterial
<1> QED  BY <1>2, <1>3, <1>4

\* Before submission nothing has been captured, started or admitted.
LEMMA AttemptInit == Init => AttemptInv
BY MaterialsTyped, EnvelopesTyped DEF Init, AttemptInv, Started, Admitted

\* Each step keeps the invariant.
LEMMA AttemptStep == AttemptInv /\ [Next]_vars => AttemptInv'
<1> SUFFICES ASSUME AttemptInv, [Next]_vars PROVE AttemptInv'
  OBVIOUS
<1> USE DEF AttemptInv, Started, Admitted
<1>1. CASE Admit
  <2>1. CASE codes' = {}
    <3>1. route(env, ctx) = {} /\ env.grants \subseteq Vouched(env, ctx).grants
      BY <1>1, <2>1, CleanRoute DEF Admit
    <3>2. env' = env /\ admittedBy' = ctx /\ IsFiniteSet(DOMAIN ctx.records)
      BY <1>1, RecordsAreFinite DEF Admit
    <3>3. Evidence'
      BY <3>1, <3>2 DEF Evidence
    <3> QED  BY <1>1, <2>1, <3>3 DEF Admit, outside
  <2>2. CASE codes' # {}
    BY <1>1, <2>2 DEF Admit, outside
  <2> QED  BY <2>1, <2>2
<1>2. CASE Capture
  <2>2. <<>> \in Seq(Objects)
    OBVIOUS
  <2>1. IsMaterial(captured')
    BY <1>2, <2>2, MaterialExcept DEF Capture
  <2> QED  BY <1>2, <2>1 DEF Capture, outside, Evidence
<1>3. CASE Walk
  <2>2. phase = "capturing" /\ IsMaterial(captured)
    BY <1>3 DEF Walk
  <2>1. captured' = captured \/ \E l \in Seq(Objects) : captured' = [captured EXCEPT !.capture = l]
    <3> DEFINE n == Len(captured.capture) + 1
               l == Append(captured.capture, mat.capture[n])
    <3>1. \/ captured' = captured
          \/ n \in DOMAIN mat.capture /\ captured' = [captured EXCEPT !.capture = l]
      BY <1>3, Zenon DEF Walk
    <3>2. captured.capture \in Seq(Objects) /\ mat.capture \in Seq(Objects)
      BY <2>2, Zenon DEF IsMaterial
    <3>3. n \in DOMAIN mat.capture => l \in Seq(Objects)
      <4> HIDE DEF n
      <4> QED  BY <3>2, ElementOfSeq, LenProperties, AppendProperties
    <3> QED  BY <3>1, <3>3, Zenon
  <2>3. IsMaterial(captured')
    BY <2>1, <2>2, MaterialExcept
  <2> QED  BY <1>3, <2>3 DEF Walk, outside, Evidence
<1>4. CASE Launch
  <2>1. CASE codes' = {}
    BY <1>4, <2>1 DEF Launch, outside, Evidence
  <2>2. CASE codes' # {}
    BY <1>4, <2>2 DEF Launch, outside
  <2> QED  BY <2>1, <2>2
<1>5. CASE MaterialChanges
  <2>1. \/ \E p \in Parts : mat' = [mat EXCEPT !.used[p] = @ + 1]
        \/ \E f : mat' = [mat EXCEPT !.flaws = f]
        \/ \E l \in Seq(Objects) : mat' = [mat EXCEPT !.capture = l]
    BY <1>5, ListingsTyped, Zenon DEF MaterialChanges
  <2>2. IsMaterial(mat')
    <3>1. IsMaterial(mat)
      OBVIOUS
    <3>2. CASE \E p \in Parts : mat' = [mat EXCEPT !.used[p] = @ + 1]
      <4>1. PICK p \in Parts : mat' = [mat EXCEPT !.used[p] = @ + 1]
        BY <3>2, Zenon
      <4>2. IsMaterial([mat EXCEPT !.used[p] = @ + 1])
        BY <3>1, MaterialExcept, Zenon
      <4> QED  BY <4>1, <4>2, Zenon
    <3>3. CASE \E f : mat' = [mat EXCEPT !.flaws = f]
      <4>1. PICK f : mat' = [mat EXCEPT !.flaws = f]
        BY <3>3, Zenon
      <4>2. IsMaterial([mat EXCEPT !.flaws = f])
        BY <3>1, MaterialExcept, Zenon
      <4> QED  BY <4>1, <4>2, Zenon
    <3>4. CASE \E l \in Seq(Objects) : mat' = [mat EXCEPT !.capture = l]
      <4>1. PICK l \in Seq(Objects) : mat' = [mat EXCEPT !.capture = l]
        BY <3>4, Zenon
      <4>2. IsMaterial([mat EXCEPT !.capture = l])
        BY <3>1, MaterialExcept, Zenon
      <4> QED  BY <4>1, <4>2, Zenon
    <3> QED  BY <2>1, <3>2, <3>3, <3>4, Zenon
  <2> QED  BY <1>5, <2>2 DEF MaterialChanges, Evidence
<1>6. CASE ContextChanges
  BY <1>6 DEF ContextChanges, Evidence
<1>7. CASE StartWorker
  BY <1>7 DEF StartWorker, outside, Evidence
<1>8. CASE HelperFails
  BY <1>8 DEF HelperFails, outside, Evidence
<1>9. CASE Complete
  BY <1>9 DEF Complete, outside, Evidence
<1>10. CASE Cancel
  BY <1>10 DEF Cancel, outside, Evidence
<1>11. CASE Expire
  BY <1>11 DEF Expire, Running, outside, Evidence
<1>12. CASE Tick
  BY <1>12 DEF Tick, outside, Evidence
<1>13. CASE UNCHANGED vars
  BY <1>13 DEF vars, outside, Evidence
<1> QED
  BY <1>1, <1>2, <1>3, <1>4, <1>5, <1>6, <1>7, <1>8, <1>9, <1>10, <1>11, <1>12, <1>13 DEF Next

\* A refusal, at admission or at the recheck, has started no process of the chain.
THEOREM RefusedIsZeroLaunch == Spec => []RefusedMeansZeroLaunch
<1>1. AttemptInv => RefusedMeansZeroLaunch
  BY DEF AttemptInv, Started, RefusedMeansZeroLaunch
<1> QED  BY AttemptInit, AttemptStep, <1>1, PTL DEF Spec

\* The worker's parts and tree are those the envelope binds, however often the
\* material changed before, during and after the capture.
THEOREM WorkerGetsWhatWasBound == Spec => []WorkerRunsWhatWasBound
<1>1. ASSUME AttemptInv PROVE WorkerRunsWhatWasBound
  <2> SUFFICES ASSUME workers > 0
               PROVE  ran = [used |-> env.bound, tree |-> env.tree] /\ captured.flaws = {}
    BY DEF WorkerRunsWhatWasBound
  <2>1. Started
    BY <1>1 DEF AttemptInv
  <2>2. /\ captured.used = env.bound
        /\ captured.flaws = {}
        /\ r2_capture_manifest(captured.capture) = env.tree
    BY <1>1, <2>1, CleanMaterial DEF AttemptInv
  <2> QED  BY <1>1, <2>2 DEF AttemptInv, Delivered
<1> QED  BY AttemptInit, AttemptStep, <1>1, PTL DEF Spec

\* Nobody is handed anything before the worker starts, and the chain starts once.
SealedInv ==
    /\ phase \in {"submitted", "queued", "capturing", "captured", "chain"} => ran = Nothing
    /\ Started => chain = 1

LEMMA SealedInit == Init => SealedInv /\ Launches!Init
BY DEF Init, SealedInv, Started, Launches!Init

\* Each step of the attempt is one of the sealed launch's, or none.
LEMMA SealedStep ==
    AttemptInv /\ AttemptInv' /\ SealedInv /\ [Next]_vars
        => SealedInv' /\ [Launches!Next]_Launches!vars
<1> SUFFICES ASSUME AttemptInv, AttemptInv', SealedInv, [Next]_vars
             PROVE  SealedInv' /\ [Launches!Next]_Launches!vars
  OBVIOUS
<1> USE DEF SealedInv, Started, Launches!Next, Launches!vars
<1>1. CASE Admit
  <2>1. CASE codes' = {}
    BY <1>1, <2>1 DEF Admit
  <2>2. CASE codes' # {}
    BY <1>1, <2>2 DEF Admit, AttemptInv, Launches!Refuse
  <2> QED  BY <2>1, <2>2
<1>2. CASE Launch
  <2>1. CASE codes' = {}
    BY <1>2, <2>1 DEF Launch, AttemptInv, Launches!Start
  <2>2. CASE codes' # {}
    BY <1>2, <2>2 DEF Launch, AttemptInv, Launches!Refuse
  <2> QED  BY <2>1, <2>2
<1>3. CASE StartWorker
  <2>1. ran' = [used |-> env.bound, tree |-> env.tree]
    <3>1. captured.used = env.bound /\ r2_capture_manifest(captured.capture) = env.tree
      BY <1>3, CleanMaterial DEF StartWorker, AttemptInv
    <3> QED  BY <1>3, <3>1 DEF StartWorker, Delivered
  <2> QED  BY <1>3, <2>1 DEF StartWorker, Launches!HandOver
<1>4. CASE HelperFails
  BY <1>4 DEF HelperFails, Launches!Finish
<1>5. CASE Complete
  BY <1>5 DEF Complete, Launches!Finish
<1>6. CASE Expire
  BY <1>6 DEF Expire, Running, Launches!Finish
<1>7. CASE Capture \/ Walk
  BY <1>7 DEF Capture, Walk
<1>8. CASE MaterialChanges \/ ContextChanges
  BY <1>8, Zenon DEF MaterialChanges, ContextChanges
<1>9. CASE Cancel \/ Tick
  BY <1>9 DEF Cancel, Tick
<1>10. CASE UNCHANGED vars
  BY <1>10 DEF vars, outside
<1> QED
  BY <1>1, <1>2, <1>3, <1>4, <1>5, <1>6, <1>7, <1>8, <1>9, <1>10 DEF Next

\* The attempt refines the sealed launch: refused with nothing started, or started
\* once, with what the envelope binds.
THEOREM AttemptIsSealedLaunch == Spec => ImplementsSealedLaunch
BY AttemptInit, AttemptStep, SealedInit, SealedStep, PTL
   DEF Spec, ImplementsSealedLaunch, Launches!Spec

\* Whoever was launched had one qualification record for its route at admission,
\* and that record alone covers its grants.
THEOREM OneRecordVouched == Spec => []OneRecordVouches
<1>1. ASSUME AttemptInv PROVE OneRecordVouches
  <2> SUFFICES ASSUME chain > 0
               PROVE  \E i \in DOMAIN admittedBy.records :
                          /\ admittedBy.records[i].key = r2_route_key(env)
                          /\ env.grants \subseteq admittedBy.records[i].grants
                          /\ \A j \in DOMAIN admittedBy.records \ {i} :
                                 admittedBy.records[j].key # r2_route_key(env)
    BY DEF OneRecordVouches
  <2> DEFINE matching == Matching(env, admittedBy)
  <2>1. Evidence
    BY <1>1 DEF AttemptInv, Started, Admitted
  <2>2. Cardinality(matching) = 1 /\ IsFiniteSet(matching)
    <3>1. ~(~env.qualified \/ Cardinality(matching) # 1)
      BY <2>1, NoCode DEF Evidence, route
    <3>2. matching \subseteq DOMAIN admittedBy.records
      BY DEF Matching
    <3> QED  BY <2>1, <3>1, <3>2, FS_Subset DEF Evidence
  <2>3. PICK i : matching = {i}
    BY <2>2, FS_Singleton
  <2>4. Vouched(env, admittedBy) = admittedBy.records[i]
    BY <2>1, <2>3 DEF Evidence, Vouched
  <2> QED  BY <2>1, <2>3, <2>4 DEF Evidence, Matching
<1> QED  BY AttemptInit, AttemptStep, <1>1, PTL DEF Spec

-----------------------------------------------------------------------------
(* The loop over a listing.  FoldLeft recurs over the sets of indices; what  *)
(* is needed of it is one turn after the other.                              *)

\* Induction from 0, with the claim given as the set it holds on.
LEMMA Climb ==
    ASSUME NEW b \in Nat, NEW N, 0 \in N,
           \A n \in 0..b : n \in N /\ n < b => n + 1 \in N
    PROVE  b \in N
<1> DEFINE Miss == {n \in Nat : n \in 0..b /\ n \notin N}
<1>1. SUFFICES ASSUME Miss # {} PROVE FALSE
  OBVIOUS
<1>2. PICK m \in Miss : \A n \in Miss : m <= n
  BY <1>1, Least
<1>3. m \in Nat /\ m \in 0..b /\ m \notin N /\ m # 0
  BY <1>2
<1>4. m - 1 \in 0..b /\ m - 1 \in Nat /\ m - 1 < b /\ (m - 1) + 1 = m
  BY <1>3
<1>5. m - 1 \notin Miss
  BY <1>2, <1>3, <1>4
<1>6. m - 1 \in N
  BY <1>4, <1>5
<1>7. m \in N
  BY <1>4, <1>6
<1> QED  BY <1>3, <1>7

\* The index taken first.
Greatest(s) == CHOOSE x \in s : \A y \in s : x >= y

\* The recursion of the loop, over the indices in D.
Folded(q, base, D, f) ==
    f = [s \in SUBSET D |-> IF s = {} THEN base
                            ELSE Represent(f[s \ {Greatest(s)}], q[Greatest(s)])]

\* Among the first n + 1 indices, n + 1 is taken first.
LEMMA GreatestIsNext ==
    ASSUME NEW n \in Nat, NEW s, s \subseteq 1..(n + 1), n + 1 \in s
    PROVE  Greatest(s) = n + 1
<1>1. \A y \in s : n + 1 >= y
  OBVIOUS
<1>2. \A x \in s : (\A y \in s : x >= y) => x = n + 1
  <2> TAKE x \in s
  <2>1. x \in Int /\ x <= n + 1
    OBVIOUS
  <2> QED  BY <2>1
<1>3. \E x \in s : \A y \in s : x >= y
  BY <1>1
<1> QED  BY <1>2, <1>3, Zenon DEF Greatest

\* There is such a function, over any number of turns.
LEMMA FoldedExists ==
    ASSUME NEW n \in Nat, NEW q, NEW base
    PROVE  \E f : Folded(q, base, 1..n, f)
<1> DEFINE N == {k \in Nat : \E f : Folded(q, base, 1..k, f)}
<1>1. 0 \in N
  <2> DEFINE f == [s \in SUBSET (1..0) |-> base]
  <2>1. \A s \in SUBSET (1..0) : s = {}
    OBVIOUS
  <2>2. Folded(q, base, 1..0, f)
    BY <2>1 DEF Folded
  <2> HIDE DEF f
  <2> QED  BY <2>2
<1>2. ASSUME NEW k \in 0..n, k \in N, k < n PROVE k + 1 \in N
  <2>1. PICK f : Folded(q, base, 1..k, f)
    BY <1>2
  <2> DEFINE g == [s \in SUBSET (1..(k + 1)) |->
                      IF k + 1 \in s THEN Represent(f[s \ {k + 1}], q[k + 1]) ELSE f[s]]
             R(s) == IF s = {} THEN base
                     ELSE Represent(g[s \ {Greatest(s)}], q[Greatest(s)])
  <2>2. k \in Nat
    BY <1>2
  <2>3. \A s \in SUBSET (1..k) : s \in SUBSET (1..(k + 1)) /\ k + 1 \notin s /\ g[s] = f[s]
    <3> TAKE s \in SUBSET (1..k)
    <3>1. s \in SUBSET (1..(k + 1)) /\ k + 1 \notin s
      BY <2>2
    <3> QED  BY <3>1
  <2>4. \A s \in SUBSET (1..k) : f[s] = IF s = {} THEN base
                                        ELSE Represent(f[s \ {Greatest(s)}], q[Greatest(s)])
    BY <2>1, Zenon DEF Folded
  <2>5. ASSUME NEW s \in SUBSET (1..(k + 1)), k + 1 \in s PROVE g[s] = R(s)
    <3>1. Greatest(s) = k + 1 /\ s # {}
      BY <2>2, <2>5, GreatestIsNext
    <3>2. s \ {k + 1} \in SUBSET (1..k)
      BY <2>2
    <3>3. g[s \ {k + 1}] = f[s \ {k + 1}]
      BY <2>3, <3>2
    <3>4. g[s] = Represent(f[s \ {k + 1}], q[k + 1])
      BY <2>5
    <3> HIDE DEF g
    <3> QED  BY <3>1, <3>3, <3>4
  <2>6. ASSUME NEW s \in SUBSET (1..(k + 1)), k + 1 \notin s PROVE g[s] = R(s)
    <3>1. s \in SUBSET (1..k)
      <4>1. \A x \in s : x \in 1..(k + 1) /\ x # k + 1
        BY <2>6
      <4>2. \A x \in 1..(k + 1) : x # k + 1 => x \in 1..k
        BY <2>2
      <4> QED  BY <4>1, <4>2
    <3>4. s \ {Greatest(s)} \in SUBSET (1..k)
      BY <3>1
    <3>2. g[s] = f[s] /\ g[s \ {Greatest(s)}] = f[s \ {Greatest(s)}]
      BY <2>3, <3>1, <3>4
    <3> HIDE DEF g
    <3> QED  BY <2>4, <3>1, <3>2
  <2>7. g = [s \in SUBSET (1..(k + 1)) |-> R(s)]
    <3>1. g = [s \in SUBSET (1..(k + 1)) |-> g[s]]
      OBVIOUS
    <3>2. \A s \in SUBSET (1..(k + 1)) : g[s] = R(s)
      BY <2>5, <2>6
    <3> HIDE DEF g, R
    <3> QED  BY <3>1, <3>2, Zenon
  <2>8. Folded(q, base, 1..(k + 1), g)
    <3> HIDE DEF g
    <3> QED  BY <2>7, Zenon DEF Folded
  <2>9. k + 1 \in Nat
    BY <2>2
  <2> HIDE DEF g
  <2> QED  BY <2>8, <2>9
<1> HIDE DEF N
<1>3. n \in N
  BY <1>1, <1>2, Climb
<1> QED  BY <1>3 DEF N

\* The accumulator at the end of the loop.
Looped(base, q) == FoldLeft(Represent, base, q)

\* What the loop leaves, turn by turn.
LEMMA Turns ==
    ASSUME NEW n \in Nat, NEW q, DOMAIN q = 1..n, NEW base
    PROVE  \E h : /\ Looped(base, q) = h[n]
                  /\ h[0] = base
                  /\ \A i \in 1..n : h[i] = Represent(h[i - 1], q[i])
<1> DEFINE f == CHOOSE g : Folded(q, base, 1..n, g)
           h == [i \in 0..n |-> f[1..i]]
<1>1. Looped(base, q) = f[1..n]
  BY Zenon DEF Looped, FoldLeft, MapThenFoldSet, Max, Folded, Greatest
<1>2. Folded(q, base, 1..n, f)
  BY FoldedExists
<1> HIDE DEF f
<1>3. \A s \in SUBSET (1..n) : f[s] = IF s = {} THEN base
                                      ELSE Represent(f[s \ {Greatest(s)}], q[Greatest(s)])
  BY <1>2, Zenon DEF Folded
<1>4. h[0] = base /\ h[n] = f[1..n]
  <2>1. 1..0 = {} /\ 1..0 \in SUBSET (1..n) /\ 0 \in 0..n /\ n \in 0..n
    OBVIOUS
  <2>2. h[0] = f[1..0] /\ h[n] = f[1..n]
    BY <2>1
  <2> QED  BY <1>3, <2>1, <2>2
<1>5. ASSUME NEW i \in 1..n PROVE h[i] = Represent(h[i - 1], q[i])
  <2>1. i \in 0..n /\ i - 1 \in 0..n /\ i - 1 \in Nat /\ (i - 1) + 1 = i
    OBVIOUS
  <2>2. 1..i \in SUBSET (1..n) /\ i \in 1..i /\ 1..i # {} /\ (1..i) \ {i} = 1..(i - 1)
    <3>1. i \in Nat /\ i >= 1 /\ i <= n /\ n \in Nat
      OBVIOUS
    <3> HIDE DEF h
    <3>2. 1..i \in SUBSET (1..n)
      BY <3>1
    <3>3. i \in 1..i /\ 1..i # {}
      BY <3>1
    <3>4. (1..i) \ {i} = 1..(i - 1)
      BY <3>1
    <3> QED  BY <3>2, <3>3, <3>4
  <2>3. Greatest(1..i) = i
    BY <2>1, <2>2, GreatestIsNext
  <2>4. h[i] = f[1..i] /\ h[i - 1] = f[1..(i - 1)]
    BY <2>1
  <2> QED  BY <1>3, <2>2, <2>3, <2>4
<1> HIDE DEF h
<1> QED  BY <1>1, <1>4, <1>5
-----------------------------------------------------------------------------
(* What the loop knows after i objects of the listing q.                     *)

HasForm(entry) ==
    /\ r2_relpath_ok(entry.path)
    /\ entry.type \in {"dir", "file", "symlink"}
    /\ entry.type = "file" => entry.mode # NoMode

\* The objects among the first i that are not the root .git's.
Seen(q, i) == {j \in 1..i : ~InGit(q[j].path)}

\* All of them have a form and a path of their own.
Sound(q, i) ==
    /\ \A j \in Seen(q, i) : HasForm(q[j])
    /\ \A j, k \in Seen(q, i) : q[j].path = q[k].path => j = k

\* The accumulator, as long as the listing is sound, tells of exactly what was seen.
Tells(q, i, acc) ==
    /\ acc = [bound |-> TRUE, kinds |-> acc.kinds, entries |-> acc.entries]
    /\ DOMAIN acc.kinds = {q[j].path : j \in Seen(q, i)}
    /\ \A j \in Seen(q, i) : acc.kinds[q[j].path] = q[j].type
    /\ acc.entries = {<<q[j].path, Kind(q[j]), q[j].content>> :
                      j \in {k \in Seen(q, i) : q[k].type # "dir"}}

Told(q, i, acc) ==
    /\ Sound(q, i) => Tells(q, i, acc)
    /\ ~Sound(q, i) => acc.bound = FALSE

\* The next object is seen too, unless it is the root .git's.
LEMMA SeenNext ==
    ASSUME NEW q, NEW i \in Nat
    PROVE  /\ InGit(q[i + 1].path) => Seen(q, i + 1) = Seen(q, i)
           /\ ~InGit(q[i + 1].path) => Seen(q, i + 1) = Seen(q, i) \union {i + 1}
           /\ Seen(q, i) \subseteq Seen(q, i + 1)
           /\ i + 1 \notin Seen(q, i)
<1>1. \A j : j \in 1..(i + 1) <=> j \in 1..i \/ j = i + 1
  OBVIOUS
<1>2. i + 1 \notin 1..i
  OBVIOUS
<1> QED  BY <1>1, <1>2, Zenon DEF Seen

\* An object that is refused is one that makes the listing unsound, and no other is.
LEMMA RefusedIsUnsound ==
    ASSUME NEW q, NEW i \in Nat, NEW acc, Sound(q, i), Tells(q, i, acc),
           ~InGit(q[i + 1].path)
    PROVE  Refused(acc, q[i + 1]) <=> ~Sound(q, i + 1)
<1> DEFINE e == q[i + 1]
<1>1. Seen(q, i + 1) = Seen(q, i) \union {i + 1} /\ i + 1 \notin Seen(q, i)
  BY SeenNext
<1>2. Refused(acc, e) <=> ~HasForm(e) \/ e.path \in DOMAIN acc.kinds
  BY DEF Refused, HasForm
<1>3. e.path \in DOMAIN acc.kinds <=> \E j \in Seen(q, i) : q[j].path = e.path
  BY DEF Tells
<1>4. Sound(q, i + 1) <=> HasForm(e) /\ ~\E j \in Seen(q, i) : q[j].path = e.path
  BY <1>1, Zenon DEF Sound
<1> QED  BY <1>2, <1>3, <1>4

\* One turn of the loop, from what it told to what it tells.
LEMMA OneMoreObject ==
    ASSUME NEW q, NEW i \in Nat, NEW acc, Told(q, i, acc)
    PROVE  Told(q, i + 1, Represent(acc, q[i + 1]))
<1> DEFINE e == q[i + 1]
           next == Represent(acc, e)
<1>1. CASE ~Sound(q, i)
  <2>1. ~Sound(q, i + 1)
    <3>1. Seen(q, i) \subseteq Seen(q, i + 1)
      BY SeenNext
    <3> QED  BY <1>1, <3>1, Zenon DEF Sound
  <2>2. next = acc /\ acc.bound = FALSE
    BY <1>1 DEF Told, Represent
  <2> QED  BY <2>1, <2>2 DEF Told
<1>2. CASE Sound(q, i) /\ InGit(e.path)
  <2>1. Seen(q, i + 1) = Seen(q, i)
    BY <1>2, SeenNext
  <2>2. Sound(q, i + 1)
    BY <1>2, <2>1, Zenon DEF Sound
  <2>3. next = acc
    BY <1>2 DEF Represent
  <2>4. Tells(q, i, acc)
    BY <1>2 DEF Told
  <2>5. Tells(q, i + 1, acc)
    BY <2>1, <2>4, Zenon DEF Tells
  <2> QED  BY <2>2, <2>3, <2>5 DEF Told
<1>3. CASE Sound(q, i) /\ ~InGit(e.path) /\ Refused(acc, e)
  <2>1. Tells(q, i, acc)
    BY <1>3 DEF Told
  <2>2. ~Sound(q, i + 1)
    BY <1>3, <2>1, RefusedIsUnsound
  <2>3. next.bound = FALSE
    <3>1. acc = [bound |-> TRUE, kinds |-> acc.kinds, entries |-> acc.entries]
      BY <2>1 DEF Tells
    <3>2. next = [acc EXCEPT !.bound = FALSE]
      BY <1>3, <3>1 DEF Represent
    <3> QED  BY <3>1, <3>2
  <2> QED  BY <2>2, <2>3 DEF Told
<1>4. CASE Sound(q, i) /\ ~InGit(e.path) /\ ~Refused(acc, e)
  <2>1. Tells(q, i, acc)
    BY <1>4 DEF Told
  <2>2. Sound(q, i + 1)
    BY <1>4, <2>1, RefusedIsUnsound
  <2>3. Seen(q, i + 1) = Seen(q, i) \union {i + 1} /\ i + 1 \notin Seen(q, i)
    BY <1>4, SeenNext
  <2> DEFINE kinds == [path \in DOMAIN acc.kinds \union {e.path} |->
                          IF path = e.path THEN e.type ELSE acc.kinds[path]]
             entries == IF e.type = "dir" THEN acc.entries
                        ELSE acc.entries \union {<<e.path, Kind(e), e.content>>}
  <2>4. next = [bound |-> TRUE, kinds |-> kinds, entries |-> entries]
    <3>1. acc = [bound |-> TRUE, kinds |-> acc.kinds, entries |-> acc.entries]
      BY <2>1 DEF Tells
    <3>2. next = [acc EXCEPT !.kinds = kinds, !.entries = entries]
      BY <1>4, <3>1 DEF Represent
    <3> DEFINE b == acc.kinds  c == acc.entries
    <3>3. acc = [bound |-> TRUE, kinds |-> b, entries |-> c]
      BY <3>1
    <3> HIDE DEF next, kinds, entries, b, c
    <3> QED  BY <3>2, <3>3
  <2>5. DOMAIN kinds = {q[j].path : j \in Seen(q, i + 1)}
    <3>1. DOMAIN acc.kinds = {q[j].path : j \in Seen(q, i)}
      BY <2>1 DEF Tells
    <3>2. DOMAIN kinds = DOMAIN acc.kinds \union {e.path}
      OBVIOUS
    <3> QED  BY <2>3, <3>1, <3>2
  <2>6. ASSUME NEW j \in Seen(q, i + 1) PROVE kinds[q[j].path] = q[j].type
    <3>1. CASE j = i + 1
      BY <3>1
    <3>2. CASE j \in Seen(q, i)
      <4>1. q[j].path \in DOMAIN acc.kinds /\ acc.kinds[q[j].path] = q[j].type
        BY <2>1, <3>2 DEF Tells
      <4>2. q[j].path # e.path
        <5>1. e.path \notin DOMAIN acc.kinds
          BY <1>4 DEF Refused
        <5> QED  BY <4>1, <5>1
      <4> QED  BY <4>1, <4>2
    <3> QED  BY <2>3, <3>1, <3>2
  <2>7. entries = {<<q[j].path, Kind(q[j]), q[j].content>> :
                   j \in {k \in Seen(q, i + 1) : q[k].type # "dir"}}
    <3>1. acc.entries = {<<q[j].path, Kind(q[j]), q[j].content>> :
                         j \in {k \in Seen(q, i) : q[k].type # "dir"}}
      BY <2>1 DEF Tells
    <3>2. CASE e.type = "dir"
      <4>1. {k \in Seen(q, i + 1) : q[k].type # "dir"} = {k \in Seen(q, i) : q[k].type # "dir"}
        BY <2>3, <3>2
      <4> QED  BY <3>1, <3>2, <4>1
    <3>3. CASE e.type # "dir"
      <4>1. {k \in Seen(q, i + 1) : q[k].type # "dir"}
                = {k \in Seen(q, i) : q[k].type # "dir"} \union {i + 1}
        BY <2>3, <3>3
      <4> QED  BY <3>1, <3>3, <4>1
    <3> QED  BY <3>2, <3>3
  <2>8. Tells(q, i + 1, next)
    <3>1. next.kinds = kinds /\ next.entries = entries
      BY <2>4
    <3> HIDE DEF next, kinds, entries
    <3> QED  BY <2>4, <2>5, <2>6, <2>7, <3>1 DEF Tells
  <2> QED  BY <2>2, <2>8 DEF Told
<1> QED  BY <1>1, <1>2, <1>3, <1>4
\* The directories above a path are its strict prefixes.
LEMMA PrefixIsDirectory ==
    ASSUME NEW s \in Seq(STRING), NEW t \in Seq(STRING), s # <<>>
    PROVE  IsStrictPrefix(s, t) <=> \E n \in 1..(Len(t) - 1) : s = SubSeq(t, 1, n)
<1>1. /\ Len(s) \in Nat /\ Len(t) \in Nat /\ Len(s) # 0
      /\ SubSeq(s, 1, Len(s)) = s /\ SubSeq(t, 1, Len(t)) = t
  BY LenProperties, EmptySeq, SubSeqFull
<1>2. ASSUME IsStrictPrefix(s, t) PROVE Len(s) \in 1..(Len(t) - 1) /\ s = SubSeq(t, 1, Len(s))
  <2>1. Len(s) <= Len(t) /\ s = SubSeq(t, 1, Len(s)) /\ s # t
    BY <1>1, <1>2, Zenon DEF IsStrictPrefix, IsPrefix
  <2>2. Len(s) # Len(t)
    BY <1>1, <2>1
  <2>3. \A a, b \in Nat : a # 0 /\ a <= b /\ a # b => a \in 1..(b - 1)
    OBVIOUS
  <2> QED  BY <1>1, <2>1, <2>2, <2>3, Zenon
<1>3. ASSUME NEW n \in 1..(Len(t) - 1), s = SubSeq(t, 1, n) PROVE IsStrictPrefix(s, t)
  <2>1. \A i \in 1..n : t[i] \in STRING
    BY <1>1, ElementOfSeq
  <2>2. Len(s) = n
    BY <1>1, <1>3, <2>1, SubSeqProperties
  <2>4. \A b \in Nat : \A a \in 1..(b - 1) : a <= b /\ a # b
    OBVIOUS
  <2>3. Len(s) <= Len(t) /\ Len(s) # Len(t)
    BY <1>1, <2>2, <2>4, Zenon
  <2> QED  BY <1>1, <1>3, <2>2, <2>3, Zenon DEF IsStrictPrefix, IsPrefix
<1> QED  BY <1>2, <1>3, Zenon

\* The accumulator at the end of the loop.
LEMMA CaptureTold ==
    ASSUME NEW q \in Seq(Objects)
    PROVE  Told(q, Len(q), Looped([bound |-> TRUE, kinds |-> <<>>, entries |-> {}], q))
<1> DEFINE none == [bound |-> TRUE, kinds |-> <<>>, entries |-> {}]
           n == Len(q)
<1>1. n \in Nat /\ DOMAIN q = 1..n
  BY LenProperties
<1> HIDE DEF n, none
<1>2. PICK h : /\ Looped(none, q) = h[n]
               /\ h[0] = none
               /\ \A i \in 1..n : h[i] = Represent(h[i - 1], q[i])
  BY <1>1, Turns
<1> DEFINE N == {i \in 0..n : Told(q, i, h[i])}
<1>3. 0 \in N
  <2>1. Seen(q, 0) = {}
    BY DEF Seen
  <2>2. Told(q, 0, none)
    BY <2>1 DEF Told, Sound, Tells, none
  <2> QED  BY <1>1, <1>2, <2>2
<1>4. ASSUME NEW i \in 0..n, i \in N, i < n PROVE i + 1 \in N
  <2>1. i \in Nat /\ i + 1 \in 1..n /\ i + 1 \in 0..n /\ (i + 1) - 1 = i
    BY <1>1, <1>4
  <2>2. Told(q, i + 1, Represent(h[i], q[i + 1]))
    BY <1>4, <2>1, OneMoreObject
  <2>3. h[i + 1] = Represent(h[i], q[i + 1])
    BY <1>2, <2>1
  <2> QED  BY <2>1, <2>2, <2>3
<1> HIDE DEF N
<1>5. n \in N
  BY <1>1, <1>3, <1>4, Climb
<1>6. Told(q, n, h[n])
  BY <1>5 DEF N
<1> QED  BY <1>2, <1>6 DEF n, none

\* What is listed outside the root .git, and that no path is listed twice.
Listed(q) == {q[i] : i \in Outside(q)}
PathsApart(q) == \A j, k \in Outside(q) : q[j].path = q[k].path => j = k

\* That there are as many paths as objects says that no path is listed twice.
LEMMA ManyPaths ==
    ASSUME NEW q \in Seq(Objects)
    PROVE  Cardinality({object.path : object \in Listed(q)}) = Cardinality(Outside(q))
               <=> PathsApart(q)
<1> DEFINE S == Outside(q)
           T == {object.path : object \in Listed(q)}
           f == [i \in S |-> q[i].path]
<1>1. IsFiniteSet(S)
  <2>1. S \subseteq 1..Len(q) /\ Len(q) \in Int
    BY LenProperties DEF Outside
  <2>2. IsFiniteSet(1..Len(q))
    BY <2>1, FS_Interval
  <2> HIDE DEF S
  <2> QED  BY <2>1, <2>2, FS_Subset
<1>2. f \in Surjection(S, T)
  <2>1. f \in [S -> T]
    BY DEF Listed
  <2>2. \A t \in T : \E s \in S : f[s] = t
    BY DEF Listed
  <2> QED  BY <2>1, <2>2, Zenon DEF Surjection
<1>3. f \in Injection(S, T) <=> PathsApart(q)
  <2>1. f \in [S -> T]
    BY DEF Listed
  <2>2. \A i \in S : f[i] = q[i].path
    OBVIOUS
  <2>3. DOMAIN f = S
    OBVIOUS
  <2>4. IsInjective(f) <=> PathsApart(q)
    <3> HIDE DEF f
    <3> QED  BY <2>2, <2>3, Zenon DEF IsInjective, PathsApart
  <2> HIDE DEF f
  <2> QED  BY <2>1, <2>4, Zenon DEF Injection
<1> HIDE DEF f, S, T
<1>4. Cardinality(T) = Cardinality(S) <=> f \in Injection(S, T)
  BY <1>1, <1>2, FS_Surjection
<1> QED  BY <1>3, <1>4 DEF S, T

\* What IsTree says of a listing, without counting.
LEMMA TreeMeans ==
    ASSUME NEW q \in Seq(Objects)
    PROVE  IsTree(q) <=>
               /\ \A object \in Listed(q) : HasForm(object)
               /\ PathsApart(q)
               /\ DirectoriesOf(Listed(q)) \intersect {leaf.path : leaf \in Leaves(Listed(q))} = {}
<1>1. IsTree(q) <=>
         /\ \A object \in Listed(q) : HasForm(object)
         /\ Cardinality({object.path : object \in Listed(q)}) = Cardinality(Outside(q))
         /\ DirectoriesOf(Listed(q)) \intersect {leaf.path : leaf \in Leaves(Listed(q))} = {}
  BY Zenon DEF IsTree, HasForm, Listed
<1> QED  BY <1>1, ManyPaths

\* In a listing that is sound, a path under one that is no directory is one that is
\* needed as a directory and is none.
LEMMA UnderFile ==
    ASSUME NEW q \in Seq(Objects), NEW acc, Sound(q, Len(q)), Tells(q, Len(q), acc)
    PROVE  NonDirectoryAncestor(acc.kinds)
               <=> DirectoriesOf(Listed(q)) \intersect {leaf.path : leaf \in Leaves(Listed(q))} # {}
<1> DEFINE n == Len(q)
           O == Outside(q)
<1>1. O = Seen(q, n) /\ \A i \in O : q[i] \in Objects
  BY LenProperties, ElementOfSeq DEF Outside, Seen
<1>2. \A i \in O : q[i].path \in Seq(STRING) /\ q[i].path # <<>>
  <2>1. \A i \in O : HasForm(q[i])
    BY <1>1 DEF Sound
  <2> QED  BY <1>1, <2>1 DEF Objects, HasForm, r2_relpath_ok
<1>3. \A i, j \in O : q[i].path = q[j].path => i = j
  BY <1>1 DEF Sound
<1>4. DOMAIN acc.kinds = {q[i].path : i \in O} /\ \A i \in O : acc.kinds[q[i].path] = q[i].type
  BY <1>1 DEF Tells
<1> HIDE DEF n, O
<1>5. NonDirectoryAncestor(acc.kinds)
          <=> \E i, j \in O : IsStrictPrefix(q[j].path, q[i].path) /\ q[j].type # "dir"
  <2>1. ASSUME NonDirectoryAncestor(acc.kinds)
        PROVE  \E i, j \in O : IsStrictPrefix(q[j].path, q[i].path) /\ q[j].type # "dir"
    <3>1. PICK path \in DOMAIN acc.kinds, above \in DOMAIN acc.kinds :
              IsStrictPrefix(above, path) /\ acc.kinds[above] # "dir"
      BY <2>1, Zenon DEF NonDirectoryAncestor
    <3>2. PICK i \in O : path = q[i].path
      BY <1>4
    <3>3. PICK j \in O : above = q[j].path
      BY <1>4
    <3> QED  BY <1>4, <3>1, <3>2, <3>3
  <2>2. ASSUME NEW i \in O, NEW j \in O, IsStrictPrefix(q[j].path, q[i].path), q[j].type # "dir"
        PROVE  NonDirectoryAncestor(acc.kinds)
    <3>1. q[i].path \in DOMAIN acc.kinds /\ q[j].path \in DOMAIN acc.kinds
          /\ acc.kinds[q[j].path] # "dir"
      BY <1>4, <2>2
    <3> QED  BY <2>2, <3>1, Zenon DEF NonDirectoryAncestor
  <2> QED  BY <2>1, <2>2, Zenon
<1>6. \A i, j \in O : IsStrictPrefix(q[j].path, q[i].path)
          <=> \E m \in 1..(Len(q[i].path) - 1) : q[j].path = SubSeq(q[i].path, 1, m)
  <2> TAKE i, j \in O
  <2>1. q[i].path \in Seq(STRING) /\ q[j].path \in Seq(STRING) /\ q[j].path # <<>>
    BY <1>2
  <2> HIDE DEF O
  <2> QED  BY <2>1, PrefixIsDirectory, Zenon
<1>7. ASSUME NEW i \in O, NEW j \in O, IsStrictPrefix(q[j].path, q[i].path), q[j].type # "dir"
      PROVE  q[j].path \in DirectoriesOf(Listed(q)) \intersect {leaf.path : leaf \in Leaves(Listed(q))}
  <2>1. q[i] \in Listed(q) /\ q[j] \in Listed(q)
    BY DEF Listed, O
  <2>2. PICK m \in 1..(Len(q[i].path) - 1) : q[j].path = SubSeq(q[i].path, 1, m)
    BY <1>6, <1>7, Zenon
  <2>3. q[j].path \in {SubSeq(q[i].path, 1, k) : k \in 1..(Len(q[i].path) - 1)}
    BY <2>2, Zenon
  <2>4. q[j].path \in DirectoriesOf(Listed(q))
    BY <2>1, <2>3, Zenon DEF DirectoriesOf
  <2>5. q[j].path \in {leaf.path : leaf \in Leaves(Listed(q))}
    BY <1>7, <2>1, Zenon DEF Leaves
  <2> QED  BY <2>4, <2>5
<1>8. ASSUME NEW path \in DirectoriesOf(Listed(q)), path \in {leaf.path : leaf \in Leaves(Listed(q))}
      PROVE  \E i, j \in O : IsStrictPrefix(q[j].path, q[i].path) /\ q[j].type # "dir"
  <2>1. PICK j \in O : path = q[j].path /\ q[j].type # "dir"
    BY <1>8, Zenon DEF Leaves, Listed, O
  <2>2. \/ path \in {object.path : object \in {o \in Listed(q) : o.type = "dir"}}
        \/ \E object \in Listed(q) : path \in {SubSeq(object.path, 1, k) : k \in 1..(Len(object.path) - 1)}
    BY <1>8, Zenon DEF DirectoriesOf
  <2>3. CASE path \in {object.path : object \in {o \in Listed(q) : o.type = "dir"}}
    <3>1. PICK i \in O : path = q[i].path /\ q[i].type = "dir"
      BY <2>3, Zenon DEF Listed, O
    <3>2. i = j
      BY <1>3, <2>1, <3>1
    <3> QED  BY <2>1, <3>1, <3>2
  <2>4. ASSUME NEW object \in Listed(q),
               path \in {SubSeq(object.path, 1, k) : k \in 1..(Len(object.path) - 1)}
        PROVE  \E i, k \in O : IsStrictPrefix(q[k].path, q[i].path) /\ q[k].type # "dir"
    <3>1. PICK i \in O : object = q[i]
      BY Zenon DEF Listed, O
    <3>2. \E m \in 1..(Len(q[i].path) - 1) : q[j].path = SubSeq(q[i].path, 1, m)
      BY <2>1, <2>4, <3>1, Zenon
    <3>3. IsStrictPrefix(q[j].path, q[i].path)
      BY <1>6, <3>2, Zenon
    <3> QED  BY <2>1, <3>3, Zenon
  <2> QED  BY <2>2, <2>3, <2>4, Zenon
<1> QED  BY <1>5, <1>7, <1>8, Zenon

\* What is captured of a listing is the manifest of the tree it is, if it is one.
LEMMA CaptureIsManifest ==
    ASSUME NEW q \in Seq(Objects)
    PROVE  r2_capture_manifest(q) = TreeManifest(q)
<1> DEFINE acc == Looped([bound |-> TRUE, kinds |-> <<>>, entries |-> {}], q)
           n == Len(q)
<1>1. Told(q, n, acc)
  BY CaptureTold
<1>2. r2_capture_manifest(q) = IF acc.bound /\ ~NonDirectoryAncestor(acc.kinds)
                               THEN [bound |-> TRUE, entries |-> acc.entries] ELSE Unbindable
  BY Zenon DEF r2_capture_manifest, Looped
<1>3. Outside(q) = Seen(q, n)
  BY LenProperties DEF Outside, Seen
<1> HIDE DEF acc
<1>4. IsTree(q) <=> /\ \A object \in Listed(q) : HasForm(object)
                    /\ PathsApart(q)
                    /\ DirectoriesOf(Listed(q)) \intersect {leaf.path : leaf \in Leaves(Listed(q))} = {}
  BY TreeMeans
<1>5. (\A object \in Listed(q) : HasForm(object)) /\ PathsApart(q) <=> Sound(q, n)
  BY <1>3, Zenon DEF Listed, PathsApart, Sound
<1>6. CASE ~Sound(q, n)
  <2>1. ~IsTree(q) /\ acc.bound = FALSE
    BY <1>1, <1>4, <1>5, <1>6 DEF Told
  <2> QED  BY <1>2, <2>1 DEF TreeManifest
<1>7. CASE Sound(q, n)
  <2>1. Tells(q, n, acc)
    BY <1>1, <1>7 DEF Told
  <2>2. acc.bound = TRUE
    <3> DEFINE b == acc.kinds  c == acc.entries
    <3>1. acc = [bound |-> TRUE, kinds |-> b, entries |-> c]
      BY <2>1, Zenon DEF Tells
    <3> HIDE DEF b, c
    <3> QED  BY <3>1
  <2>3. NonDirectoryAncestor(acc.kinds) <=> ~IsTree(q)
    BY <1>4, <1>5, <1>7, <2>1, UnderFile
  <2>4. acc.entries = {<<leaf.path, Kind(leaf), leaf.content>> : leaf \in Leaves(Listed(q))}
    <3>1. Leaves(Listed(q)) = {q[k] : k \in {i \in Seen(q, n) : q[i].type # "dir"}}
      BY <1>3 DEF Leaves, Listed
    <3>2. acc.entries = {<<q[j].path, Kind(q[j]), q[j].content>> :
                         j \in {k \in Seen(q, n) : q[k].type # "dir"}}
      BY <2>1 DEF Tells
    <3> QED  BY <3>1, <3>2
  <2>5. TreeManifest(q) = IF IsTree(q) THEN [bound |-> TRUE, entries |-> acc.entries] ELSE Unbindable
    BY <2>4, Zenon DEF TreeManifest, Listed
  <2> QED  BY <1>2, <2>2, <2>3, <2>5
<1> QED  BY <1>6, <1>7
\* Reordered, a listing is the same tree.
LEMMA SameTree ==
    ASSUME NEW q \in Seq(Objects), NEW r \in Reorderings(q)
    PROVE  r \in Seq(Objects) /\ TreeManifest(r) = TreeManifest(q)
<1> DEFINE D == DOMAIN q
<1>1. PICK p \in Bijection(D, D) : r = [i \in D |-> q[p[i]]]
  BY DEF Reorderings
<1>2. /\ p \in [D -> D]
      /\ \A i, k \in D : p[i] = p[k] => i = k
      /\ \A j \in D : \E i \in D : p[i] = j
  BY <1>1, Zenon DEF Bijection, Injection, Surjection, IsInjective
<1>3. D = 1..Len(q) /\ Len(q) \in Nat /\ \A j \in D : q[j] \in Objects
  BY LenProperties, ElementOfSeq
<1> HIDE DEF D
<1>4. DOMAIN r = D /\ \A i \in D : p[i] \in D /\ r[i] = q[p[i]]
  BY <1>1, <1>2
<1>5. r \in Seq(Objects)
  <2>1. r \in [1..Len(q) -> Objects]
    BY <1>1, <1>2, <1>3
  <2> QED  BY <1>3, <2>1, SeqDef
<1>6. \A i \in D : i \in Outside(r) <=> p[i] \in Outside(q)
  BY <1>4 DEF Outside, D
<1>7. Outside(r) \subseteq D /\ Outside(q) \subseteq D
  BY <1>4 DEF Outside, D
<1>8. Listed(r) = Listed(q)
  <2>1. ASSUME NEW i \in Outside(r) PROVE r[i] \in Listed(q)
    BY <1>4, <1>6, <1>7 DEF Listed
  <2>2. ASSUME NEW j \in Outside(q) PROVE q[j] \in Listed(r)
    <3>1. PICK i \in D : p[i] = j
      BY <1>2, <1>7
    <3> QED  BY <1>4, <1>6, <3>1 DEF Listed
  <2> QED  BY <2>1, <2>2 DEF Listed
<1>9. PathsApart(r) <=> PathsApart(q)
  <2>1. ASSUME PathsApart(q) PROVE PathsApart(r)
    <3> SUFFICES ASSUME NEW i \in Outside(r), NEW k \in Outside(r), r[i].path = r[k].path
                 PROVE  i = k
      BY DEF PathsApart
    <3>1. i \in D /\ k \in D /\ p[i] \in Outside(q) /\ p[k] \in Outside(q)
      BY <1>6, <1>7
    <3>2. r[i] = q[p[i]] /\ r[k] = q[p[k]]
      BY <1>4, <3>1
    <3>3. p[i] = p[k]
      BY <2>1, <3>1, <3>2 DEF PathsApart
    <3> QED  BY <1>2, <3>1, <3>3
  <2>2. ASSUME PathsApart(r) PROVE PathsApart(q)
    <3> SUFFICES ASSUME NEW j \in Outside(q), NEW k \in Outside(q), q[j].path = q[k].path
                 PROVE  j = k
      BY DEF PathsApart
    <3>1. PICK i \in D : p[i] = j
      BY <1>2, <1>7
    <3>2. PICK l \in D : p[l] = k
      BY <1>2, <1>7
    <3>3. i \in Outside(r) /\ l \in Outside(r) /\ r[i] = q[j] /\ r[l] = q[k]
      BY <1>4, <1>6, <3>1, <3>2
    <3>4. i = l
      BY <2>2, <3>3 DEF PathsApart
    <3> QED  BY <3>1, <3>2, <3>4
  <2> QED  BY <2>1, <2>2
<1>10. IsTree(r) <=> IsTree(q)
  BY <1>5, <1>8, <1>9, TreeMeans
<1>11. ASSUME NEW s
       PROVE  TreeManifest(s) = IF IsTree(s)
                                THEN [bound |-> TRUE,
                                      entries |-> {<<leaf.path, Kind(leaf), leaf.content>> :
                                                   leaf \in Leaves(Listed(s))}]
                                ELSE Unbindable
  BY Zenon DEF TreeManifest, Listed
<1>12. TreeManifest(r) = TreeManifest(q)
  BY <1>8, <1>10, <1>11, Zenon
<1> QED  BY <1>5, <1>12

\* A captured tree has one entry for a path.
LEMMA OneEntry ==
    ASSUME NEW q \in Seq(Objects), r2_capture_manifest(q).bound,
           NEW e \in r2_capture_manifest(q).entries, NEW f \in r2_capture_manifest(q).entries,
           e[1] = f[1]
    PROVE  e = f
<1> DEFINE entries == {<<leaf.path, Kind(leaf), leaf.content>> : leaf \in Leaves(Listed(q))}
<1>1. r2_capture_manifest(q) = IF IsTree(q) THEN [bound |-> TRUE, entries |-> entries] ELSE Unbindable
  BY CaptureIsManifest, Zenon DEF TreeManifest, Listed
<1>2. IsTree(q)
  BY <1>1 DEF Unbindable
<1>3. PathsApart(q) /\ e \in entries /\ f \in entries
  <2> HIDE DEF entries
  <2> QED  BY <1>1, <1>2, TreeMeans
<1>4. PICK i \in Outside(q) : e = <<q[i].path, Kind(q[i]), q[i].content>>
  BY <1>3, Zenon DEF Leaves, Listed
<1>5. PICK j \in Outside(q) : f = <<q[j].path, Kind(q[j]), q[j].content>>
  BY <1>3, Zenon DEF Leaves, Listed
<1>6. i = j
  BY <1>3, <1>4, <1>5 DEF PathsApart
<1> QED  BY <1>4, <1>5, <1>6

\* A capture before submission is the manifest of a tree, in whatever order the
\* workspace is listed, or is refused when no tree is listed.
THEOREM TreeIsCaptured == Spec => []CaptureIsATree
<1>1. ASSUME AttemptInv PROVE CaptureIsATree
  <2>1. mat.capture \in Seq(Objects)
    BY <1>1, Zenon DEF AttemptInv, IsMaterial
  <2>2. \A r \in Reorderings(mat.capture) : r2_capture_manifest(r) = TreeManifest(mat.capture)
    BY <2>1, SameTree, CaptureIsManifest
  <2> QED  BY <2>2 DEF CaptureIsATree
<1> QED  BY AttemptInit, AttemptStep, <1>1, PTL DEF Spec

\* What is taken from the workspace is the bytes of the one file the worker's tree has
\* at that path, for any workspace, read in any order while it changes.
THEOREM SourcesAreFiles == Spec => []SourcesAreTreeFiles
<1>1. ASSUME AttemptInv PROVE SourcesAreTreeFiles
  <2> SUFFICES ASSUME workers > 0, NEW p \in DOMAIN env.sources
               PROVE  LET here == {e \in ran.tree.entries : e[1] = env.sources[p]}
                      IN  \E e \in here : here = {e} /\ e[2] # "symlink" /\ e[3] = ran.used[p]
    BY DEF SourcesAreTreeFiles
  <2> DEFINE tree == r2_capture_manifest(captured.capture)
             here == {e \in ran.tree.entries : e[1] = env.sources[p]}
  <2>1. Started /\ ran = Delivered(captured) /\ IsMaterial(captured)
    BY <1>1 DEF AttemptInv
  <2>2. captured.used = env.bound /\ tree.bound /\ Unjoined(env, tree) = {}
    BY <1>1, <2>1, CleanMaterial DEF AttemptInv
  <2>3. ran.tree = tree /\ ran.used = env.bound
    BY <2>1, <2>2 DEF Delivered
  <2>4. captured.capture \in Seq(Objects)
    BY <2>1, Zenon DEF IsMaterial
  <2>5. tree_joins(tree, env.sources[p], env.bound[p])
    <3> HIDE DEF tree
    <3> QED  BY <2>2, Zenon DEF Unjoined
  <2>6. PICK kind \in {"file", "executable_file"} :
            <<env.sources[p], kind, env.bound[p]>> \in tree.entries
    <3> HIDE DEF tree
    <3> QED  BY <2>2, <2>5, Zenon DEF tree_joins
  <2> DEFINE entry == <<env.sources[p], kind, env.bound[p]>>
  <2>7. \A e \in tree.entries : e[1] = entry[1] => e = entry
    BY <2>2, <2>4, <2>6, OneEntry
  <2>8. entry[1] = env.sources[p] /\ entry[2] = kind /\ entry[3] = env.bound[p]
    OBVIOUS
  <2> HIDE DEF tree, entry
  <2>9. entry \in here /\ here = {entry}
    BY <2>3, <2>6, <2>7, <2>8 DEF entry
  <2> QED  BY <2>3, <2>8, <2>9
<1> QED  BY AttemptInit, AttemptStep, <1>1, PTL DEF Spec

-----------------------------------------------------------------------------
(* The journal.  All the harness writes is read by the checker, so what it   *)
(* makes of the journal is what it makes of the lines one by one.            *)

\* The lines the harness writes.
StateLines == {Journal!StateBody(s, w) : s \in {"queued", "running", "cancelling"}, w \in Nat}
FinishLines == {Journal!TerminalBody("finished", w, TRUE, FALSE) : w \in Nat}
RefusalLine == Journal!TerminalBody("refused", 0, FALSE, TRUE)
Lines == StateLines \union FinishLines \union {RefusalLine}

\* Joining sequences of one element each gives the sequence of the elements.
LEMMA FlattenSingletons ==
    ASSUME NEW S, NEW q \in Seq(S), q # <<>>
    PROVE  Journal!FlattenSeq([i \in DOMAIN q |-> <<q[i]>>]) = q
<1> DEFINE s == [i \in DOMAIN q |-> <<q[i]>>]
           n == Len(q)
           Joined(f) == f = [i \in 1..n |-> IF i = 1 THEN s[i] ELSE f[i - 1] \o s[i]]
           h == CHOOSE f : Joined(f)
<1>1. /\ n \in Nat /\ n >= 1 /\ DOMAIN q = 1..n
      /\ \A i \in 1..n : q[i] \in S
  BY LenProperties, EmptySeq, ElementOfSeq
<1>2. Len(s) = n /\ \A i \in 1..n : s[i] = <<q[i]>>
  BY <1>1
<1>3. Journal!FlattenSeq(s) = h[n]
  <2> HIDE DEF s, n
  <2>1. Len(s) # 0 /\ Len(s) = n
    BY <1>1, <1>2
  <2> QED  BY <2>1, Zenon DEF Journal!FlattenSeq
<1> HIDE DEF s, n
<1>4. /\ SubSeq(q, 1, 1) = <<q[1]>>
      /\ \A i \in 2..n : SubSeq(q, 1, i) = SubSeq(q, 1, i - 1) \o <<q[i]>>
  <2>1. ASSUME NEW i \in 1..n PROVE SubSeq(q, 1, i) \in Seq(S) /\ Len(SubSeq(q, 1, i)) = i
                                    /\ \A j \in 1..i : SubSeq(q, 1, i)[j] = q[j]
    <3>1. \A j \in 1..i : q[j] \in S
      BY <1>1
    <3> QED  BY <1>1, <3>1, SubSeqProperties
  <2>2. \A i \in 1..n : <<q[i]>> \in Seq(S) /\ Len(<<q[i]>>) = 1 /\ <<q[i]>>[1] = q[i]
    BY <1>1
  <2>3. SubSeq(q, 1, 1) = <<q[1]>>
    <3> DEFINE t == SubSeq(q, 1, 1)
               e == <<q[1]>>
    <3>1. 1 \in 1..n
      BY <1>1
    <3>2. t \in Seq(S) /\ Len(t) = 1 /\ t[1] = q[1] /\ e \in Seq(S) /\ Len(e) = 1 /\ e[1] = q[1]
      BY <2>1, <2>2, <3>1
    <3> HIDE DEF t, e
    <3>3. \A i \in 1..Len(t) : t[i] = e[i]
      BY <3>2
    <3>4. t = e
      BY <3>2, <3>3, SeqEqual
    <3> QED  BY <3>4 DEF t, e
  <2>4. ASSUME NEW i \in 2..n PROVE SubSeq(q, 1, i) = SubSeq(q, 1, i - 1) \o <<q[i]>>
    <3> DEFINE t == SubSeq(q, 1, i - 1)
               e == <<q[i]>>
    <3>1. i \in 1..n /\ i - 1 \in 1..n /\ i \in Nat
      BY <1>1, <2>4
    <3>2. t \in Seq(S) /\ Len(t) = i - 1 /\ e \in Seq(S) /\ Len(e) = 1 /\ e[1] = q[i]
          /\ \A j \in 1..(i - 1) : t[j] = q[j]
      BY <2>1, <2>2, <3>1
    <3> HIDE DEF t, e
    <3>3. t \o e \in Seq(S) /\ Len(t \o e) = Len(t) + Len(e)
          /\ \A j \in 1..(Len(t) + Len(e)) :
                 (t \o e)[j] = IF j <= Len(t) THEN t[j] ELSE e[j - Len(t)]
      BY <3>2, ConcatProperties
    <3>4. \A j \in 1..i : (t \o e)[j] = q[j]
      <4> TAKE j \in 1..i
      <4>1. j \in 1..(Len(t) + Len(e)) /\ (j = i \/ j \in 1..(i - 1)) /\ i - 1 \in Nat
        BY <3>1, <3>2
      <4>2. CASE j = i
        <5>1. ~(j <= Len(t)) /\ j - Len(t) = 1
          BY <3>1, <3>2, <4>2
        <5>2. (t \o e)[j] = e[j - Len(t)]
          BY <3>3, <4>1, <5>1
        <5> QED  BY <3>2, <4>2, <5>1, <5>2
      <4>3. CASE j \in 1..(i - 1)
        <5>1. j <= Len(t)
          BY <3>1, <3>2, <4>3
        <5> QED  BY <3>2, <3>3, <4>1, <4>3, <5>1
      <4> QED  BY <4>1, <4>2, <4>3
    <3>5. Len(t) + Len(e) = i
      BY <3>1, <3>2
    <3>6. SubSeq(q, 1, i) = t \o e
      BY <2>1, <3>1, <3>3, <3>4, <3>5, SeqEqual
    <3> QED  BY <3>6 DEF t, e
  <2> QED  BY <2>3, <2>4
<1>5. Joined([i \in 1..n |-> SubSeq(q, 1, i)])
  <2> DEFINE f == [i \in 1..n |-> SubSeq(q, 1, i)]
  <2>1. ASSUME NEW i \in 1..n PROVE f[i] = IF i = 1 THEN s[i] ELSE f[i - 1] \o s[i]
    <3>1. CASE i = 1
      BY <1>1, <1>2, <1>4, <3>1
    <3>2. CASE i # 1
      <4>1. i \in 2..n /\ i - 1 \in 1..n
        BY <1>1, <3>2
      <4>2. f[i] = SubSeq(q, 1, i) /\ f[i - 1] = SubSeq(q, 1, i - 1) /\ s[i] = <<q[i]>>
        BY <1>2, <4>1
      <4> QED  BY <1>4, <3>2, <4>1, <4>2
    <3> QED  BY <3>1, <3>2
  <2>2. f = [i \in 1..n |-> f[i]]
    OBVIOUS
  <2>3. Joined(f)
    <3> HIDE DEF f
    <3> QED  BY <2>1, <2>2, Zenon
  <2> QED  BY <2>3
<1>6. Joined(h)
  BY <1>5
<1> HIDE DEF h
<1>7. \A i \in 1..n : h[i] = IF i = 1 THEN s[i] ELSE h[i - 1] \o s[i]
  BY <1>6, Zenon
<1>8. ASSUME NEW i \in 1..n, \A j \in 1..n : j < i => h[j] = SubSeq(q, 1, j)
      PROVE  h[i] = SubSeq(q, 1, i)
  <2>1. CASE i = 1
    BY <1>1, <1>2, <1>4, <1>7, <2>1
  <2>2. CASE i # 1
    <3>1. i \in 2..n /\ i - 1 \in 1..n /\ i - 1 < i
      BY <1>1, <2>2
    <3>2. h[i] = h[i - 1] \o s[i] /\ h[i - 1] = SubSeq(q, 1, i - 1) /\ s[i] = <<q[i]>>
      BY <1>2, <1>7, <1>8, <2>2, <3>1
    <3> QED  BY <1>4, <3>1, <3>2
  <2> QED  BY <2>1, <2>2
<1>9. h[n] = SubSeq(q, 1, n)
  <2> DEFINE Miss == {i \in 1..n : h[i] # SubSeq(q, 1, i)}
  <2>1. SUFFICES ASSUME Miss # {} PROVE FALSE
    BY <1>1
  <2>2. Miss \subseteq Nat
    BY <1>1
  <2>3. PICK i \in Miss : \A j \in Miss : i <= j
    <3> HIDE DEF Miss
    <3> QED  BY <2>1, <2>2, Least
  <2>4. \A j \in 1..n : j < i => h[j] = SubSeq(q, 1, j)
    BY <1>1, <2>3
  <2> QED  BY <1>8, <2>3, <2>4
<1>10. SubSeq(q, 1, n) = q
  BY SubSeqFull DEF n
<1> QED  BY <1>3, <1>9, <1>10 DEF s

\* One segment is joined to itself.
LEMMA FlattenOne == ASSUME NEW q PROVE Journal!FlattenSeq(<<q>>) = q
<1> DEFINE h == CHOOSE f : f = [i \in 1..Len(<<q>>) |->
                               IF i = 1 THEN <<q>>[i] ELSE f[i - 1] \o <<q>>[i]]
<1>1. Len(<<q>>) = 1 /\ <<q>>[1] = q /\ Len(<<q>>) # 0
  OBVIOUS
<1>2. Journal!FlattenSeq(<<q>>) = h[Len(<<q>>)]
  BY <1>1, Zenon DEF Journal!FlattenSeq
<1>3. \E f : f = [i \in 1..Len(<<q>>) |-> IF i = 1 THEN <<q>>[i] ELSE f[i - 1] \o <<q>>[i]]
  <2>1. [i \in 1..1 |-> q] = [i \in 1..Len(<<q>>) |->
            IF i = 1 THEN <<q>>[i] ELSE [j \in 1..1 |-> q][i - 1] \o <<q>>[i]]
    BY <1>1
  <2> QED  BY <2>1
<1>4. h = [i \in 1..Len(<<q>>) |-> IF i = 1 THEN <<q>>[i] ELSE h[i - 1] \o <<q>>[i]]
  BY <1>3
<1> HIDE DEF h
<1>5. h[1] = q
  BY <1>1, <1>4
<1> QED  BY <1>1, <1>2, <1>5

\* Of an empty journal nothing is read.
LEMMA NothingIsRead == DOMAIN Journal!StateBodies(<<<<>>>>) = {}
<1> DEFINE none == [i \in DOMAIN <<>> |->
                      IF <<>>[i].body_kind \in {"state", "terminal"} THEN <<<<>>[i]>> ELSE <<>>]
<1>1. Journal!StateBodies(<<<<>>>>) = Journal!Stateful(<<>>)
  BY FlattenOne DEF Journal!StateBodies
<1>2. Journal!Stateful(<<>>) = Journal!FlattenSeq(none)
  BY Zenon DEF Journal!Stateful
<1>3. DOMAIN <<>> = {}
  BY EmptySeq, LenProperties
<1>4. none \in [1..0 -> {}]
  BY <1>3
<1> HIDE DEF none
<1>5. none \in Seq({}) /\ Len(none) = 0 /\ DOMAIN none = {}
  <2>1. none \in Seq({})
    BY <1>4, SeqDef
  <2>2. DOMAIN none = 1..Len(none) /\ Len(none) \in Nat /\ DOMAIN none = 1..0
    BY <1>4, <2>1, LenProperties
  <2> QED  BY <2>1, <2>2
<1>6. Journal!FlattenSeq(none) = none
  BY <1>5, Zenon DEF Journal!FlattenSeq
<1> QED  BY <1>1, <1>2, <1>5, <1>6

\* What the checker reads of the journal is the journal.
LEMMA AllIsRead ==
    ASSUME NEW q \in Seq(Lines), q # <<>>
    PROVE  Journal!StateBodies(<<q>>) = q
<1>1. Journal!FlattenSeq(<<q>>) = q
  BY FlattenOne
<1>2. [i \in DOMAIN q |-> IF q[i].body_kind \in {"state", "terminal"} THEN <<q[i]>> ELSE <<>>]
          = [i \in DOMAIN q |-> <<q[i]>>]
  <2>1. DOMAIN q = 1..Len(q) /\ \A i \in 1..Len(q) : q[i] \in Lines
    BY LenProperties, ElementOfSeq
  <2>2. \A line \in Lines : line.body_kind \in {"state", "terminal"}
    BY DEF Lines, StateLines, FinishLines, RefusalLine, Journal!StateBody, Journal!TerminalBody
  <2> QED  BY <2>1, <2>2
<1>3. Journal!StateBodies(<<q>>) = Journal!Stateful(q)
  BY <1>1 DEF Journal!StateBodies
<1>4. Journal!Stateful(q) = Journal!FlattenSeq([i \in DOMAIN q |-> <<q[i]>>])
  BY <1>2, Zenon DEF Journal!Stateful
<1> QED  BY <1>3, <1>4, FlattenSingletons
\* The line i of the journal q gets no code.
Passes(q, i) ==
    LET p == Journal!Previous(q, i)
    IN  ~Journal!AfterLaunch(q[i], p) /\ ~Journal!InvalidTransition(q[i], p)
            /\ ~Journal!Unaccounted(q[i])

LastState(q) == IF q = <<>> THEN "none" ELSE q[Len(q)].state

\* A line that may follow the last one.
Fits(q, line) ==
    /\ ~Journal!AfterLaunch(line, LastState(q))
    /\ ~Journal!InvalidTransition(line, LastState(q))
    /\ ~Journal!Unaccounted(line)

\* The journal so far passes, and its last state is the one of the phase.
JournalInv ==
    /\ journal \in Seq(Lines)
    /\ \A i \in 1..Len(journal) : Passes(journal, i)
    /\ phase = "submitted" => LastState(journal) = "none"
    /\ phase \in {"queued", "capturing", "captured"} => LastState(journal) = "queued"
    /\ phase \in {"chain", "working"} => LastState(journal) = "running"
    /\ phase = "cancelling" => LastState(journal) = "cancelling"

\* A line that fits leaves the lines before it as they were.
LEMMA OneMoreLine ==
    ASSUME NEW q \in Seq(Lines), \A i \in 1..Len(q) : Passes(q, i),
           NEW line \in Lines, Fits(q, line)
    PROVE  /\ Append(q, line) \in Seq(Lines)
           /\ \A i \in 1..Len(Append(q, line)) : Passes(Append(q, line), i)
           /\ LastState(Append(q, line)) = line.state
<1> DEFINE r == Append(q, line)
           n == Len(q)
<1>1. /\ r \in Seq(Lines) /\ r # <<>> /\ Len(r) = n + 1 /\ n \in Nat
      /\ \A i \in 1..n : r[i] = q[i]
      /\ r[n + 1] = line
  BY AppendProperties, LenProperties
<1> HIDE DEF r
<1>2. LastState(r) = line.state
  BY <1>1 DEF LastState
<1>3. ASSUME NEW i \in 1..n PROVE Passes(r, i)
  <2>1. r[i] = q[i]
    BY <1>1
  <2>2. Journal!Previous(r, i) = Journal!Previous(q, i)
    <3>1. i # 1 => i - 1 \in 1..n
      BY <1>1
    <3>2. i # 1 => r[i - 1] = q[i - 1]
      BY <1>1, <3>1
    <3> QED  BY <3>2 DEF Journal!Previous
  <2> QED  BY <2>1, <2>2 DEF Passes
<1>4. Passes(r, n + 1)
  <2>1. Journal!Previous(r, n + 1) = LastState(q)
    <3>1. CASE q = <<>>
      <4>1. n = 0
        BY <3>1, EmptySeq
      <4> QED  BY <3>1, <4>1 DEF Journal!Previous, LastState
    <3>2. CASE q # <<>>
      <4>1. n # 0 /\ n + 1 # 1 /\ (n + 1) - 1 = n /\ n \in 1..n
        BY <1>1, <3>2, EmptySeq
      <4>2. r[n] = q[n]
        BY <1>1, <4>1
      <4> QED  BY <3>2, <4>1, <4>2 DEF Journal!Previous, LastState
    <3> QED  BY <3>1, <3>2
  <2> QED  BY <1>1, <2>1 DEF Passes, Fits
<1>5. \A i \in 1..Len(r) : i \in 1..n \/ i = n + 1
  BY <1>1
<1> QED  BY <1>1, <1>2, <1>3, <1>4, <1>5 DEF r

\* Which line fits after which.
LEMMA StateFits ==
    ASSUME NEW q, NEW w \in Nat, NEW s,
           \/ s = "queued" /\ LastState(q) = "none"
           \/ s = "running" /\ LastState(q) = "queued"
           \/ s = "cancelling" /\ LastState(q) = "running"
    PROVE  /\ Journal!StateBody(s, w) \in Lines
           /\ Journal!StateBody(s, w).state = s
           /\ Fits(q, Journal!StateBody(s, w))
<1> DEFINE line == Journal!StateBody(s, w)
<1>1. line \in Lines
  <2>1. s \in {"queued", "running", "cancelling"}
    OBVIOUS
  <2>2. line \in StateLines
    BY <2>1 DEF StateLines
  <2> QED  BY <2>2 DEF Lines
<1>2. line.state = s /\ line.body_kind = "state"
  BY DEF Journal!StateBody
<1> HIDE DEF line
<1>3. /\ s \in Journal!Lifecycle[LastState(q)] \/ LastState(q) = "none"
      /\ s # "refused"
  BY DEF Journal!Lifecycle
<1>4. Fits(q, line)
  BY <1>2, <1>3 DEF Fits, Journal!AfterLaunch, Journal!InvalidTransition, Journal!Unaccounted
<1> QED  BY <1>1, <1>2, <1>4 DEF line

\* A refusal may come first or after the queue.
LEMMA RefusalFits ==
    ASSUME NEW q, LastState(q) \in {"none", "queued"}
    PROVE  RefusalLine \in Lines /\ Fits(q, RefusalLine)
BY DEF Lines, RefusalLine, Fits, Journal!TerminalBody, Journal!AfterLaunch, Journal!InvalidTransition,
       Journal!Unaccounted, Journal!Lifecycle

\* A finish may come after a running or a cancelling state.
LEMMA FinishFits ==
    ASSUME NEW q, NEW w \in Nat, LastState(q) \in {"running", "cancelling"}
    PROVE  LET line == Journal!TerminalBody("finished", w, TRUE, FALSE)
           IN  line \in Lines /\ Fits(q, line)
<1> DEFINE line == Journal!TerminalBody("finished", w, TRUE, FALSE)
<1>1. line \in Lines
  <2>1. line \in FinishLines
    BY DEF FinishLines
  <2> QED  BY <2>1 DEF Lines
<1>2. line.state = "finished" /\ line.termination = TRUE
  BY DEF Journal!TerminalBody
<1> HIDE DEF line
<1>3. "finished" \in Journal!Lifecycle[LastState(q)]
  BY DEF Journal!Lifecycle
<1>4. Fits(q, line)
  BY <1>2, <1>3 DEF Fits, Journal!AfterLaunch, Journal!InvalidTransition, Journal!Unaccounted
<1> QED  BY <1>1, <1>4 DEF line

\* Before submission nothing has been journalled.
LEMMA JournalInit == Init => JournalInv
<1> SUFFICES ASSUME Init PROVE JournalInv
  OBVIOUS
<1>1. journal = <<>> /\ phase = "submitted"
  BY DEF Init
<1>2. journal \in Seq(Lines) /\ Len(journal) = 0
  BY <1>1, EmptySeq
<1> QED  BY <1>1, <1>2 DEF JournalInv, LastState

\* Each step writes a line that fits, or none.
LEMMA JournalStep == AttemptInv /\ JournalInv /\ [Next]_vars => JournalInv'
<1> SUFFICES ASSUME AttemptInv, JournalInv, [Next]_vars PROVE JournalInv'
  OBVIOUS
<1>1. journal \in Seq(Lines) /\ (\A i \in 1..Len(journal) : Passes(journal, i)) /\ workers \in Nat
  BY DEF JournalInv, AttemptInv
<1>2. ASSUME journal' = journal,
             \/ phase' = phase
             \/ phase' \in {"capturing", "captured"} /\ phase \in {"queued", "capturing"}
             \/ phase' = "working" /\ phase = "chain"
      PROVE  JournalInv'
  BY <1>2 DEF JournalInv
<1>3. ASSUME NEW s, NEW w \in Nat, journal' = State(s, w),
             \/ s = "queued" /\ LastState(journal) = "none" /\ phase' = "queued"
             \/ s = "running" /\ LastState(journal) = "queued" /\ phase' = "chain"
             \/ s = "cancelling" /\ LastState(journal) = "running" /\ phase' = "cancelling"
      PROVE  JournalInv'
  <2> DEFINE line == Journal!StateBody(s, w)
  <2>1. line \in Lines /\ line.state = s /\ Fits(journal, line) /\ journal' = Append(journal, line)
    BY <1>3, StateFits DEF State
  <2> HIDE DEF line
  <2>2. /\ journal' \in Seq(Lines) /\ (\A i \in 1..Len(journal') : Passes(journal', i))
        /\ LastState(journal') = s
    BY <1>1, <2>1, OneMoreLine
  <2> QED  BY <1>3, <2>2 DEF JournalInv
<1>4. ASSUME journal' = Refusal, LastState(journal) \in {"none", "queued"}, phase' = "refused"
      PROVE  JournalInv'
  <2>1. RefusalLine \in Lines /\ Fits(journal, RefusalLine)
    BY <1>4, RefusalFits
  <2>2. journal' = Append(journal, RefusalLine)
    BY <1>4 DEF Refusal, RefusalLine
  <2>3. journal' \in Seq(Lines) /\ (\A i \in 1..Len(journal') : Passes(journal', i))
    BY <1>1, <2>1, <2>2, OneMoreLine
  <2> QED  BY <1>4, <2>3 DEF JournalInv
<1>5. ASSUME journal' = Finish, LastState(journal) \in {"running", "cancelling"}, phase' = "finished"
      PROVE  JournalInv'
  <2> DEFINE line == Journal!TerminalBody("finished", workers, TRUE, FALSE)
  <2>1. line \in Lines /\ Fits(journal, line)
    <3>1. workers \in Nat /\ LastState(journal) \in {"running", "cancelling"}
      BY <1>1, <1>5
    <3> QED  BY <3>1, FinishFits
  <2>2. journal' = Append(journal, line)
    BY <1>5 DEF Finish
  <2> HIDE DEF line
  <2>3. journal' \in Seq(Lines) /\ (\A i \in 1..Len(journal') : Passes(journal', i))
    BY <1>1, <2>1, <2>2, OneMoreLine
  <2> QED  BY <1>5, <2>3 DEF JournalInv
<1>6. CASE Admit
  <2>1. LastState(journal) = "none"
    BY <1>6 DEF Admit, JournalInv
  <2>2. \/ journal' = State("queued", 0) /\ phase' = "queued"
        \/ journal' = Refusal /\ phase' = "refused"
    BY <1>6 DEF Admit
  <2> QED  BY <1>3, <1>4, <2>1, <2>2
<1>7. CASE Launch
  <2>1. LastState(journal) = "queued"
    BY <1>7 DEF Launch, JournalInv
  <2>2. \/ journal' = State("running", 0) /\ phase' = "chain"
        \/ journal' = Refusal /\ phase' = "refused"
    BY <1>7 DEF Launch
  <2> QED  BY <1>3, <1>4, <2>1, <2>2
<1>8. CASE Cancel
  <2>1. LastState(journal) = "running"
    BY <1>8 DEF Cancel, JournalInv
  <2>2. journal' = State("cancelling", workers) /\ phase' = "cancelling"
    BY <1>8 DEF Cancel
  <2> QED  BY <1>1, <1>3, <2>1, <2>2
<1>9. CASE HelperFails \/ Complete \/ Expire
  <2>1. LastState(journal) \in {"running", "cancelling"}
    BY <1>9 DEF HelperFails, Complete, Expire, Running, JournalInv
  <2>2. journal' = Finish /\ phase' = "finished"
    BY <1>9 DEF HelperFails, Complete, Expire
  <2> QED  BY <1>5, <2>1, <2>2
<1>10. ASSUME Capture \/ Walk \/ StartWorker PROVE JournalInv'
  <2>1. journal' = journal
    BY <1>10, Zenon DEF Capture, Walk, StartWorker
  <2>2. \/ phase' \in {"capturing", "captured"} /\ phase \in {"queued", "capturing"}
        \/ phase' = "working" /\ phase = "chain"
    <3>1. CASE Capture
      BY <3>1 DEF Capture
    <3>2. CASE Walk
      <4>1. phase = "capturing" /\ (phase' = phase \/ phase' = "captured")
        BY <3>2, Zenon DEF Walk
      <4> QED  BY <4>1
    <3>3. CASE StartWorker
      BY <3>3 DEF StartWorker
    <3> QED  BY <1>10, <3>1, <3>2, <3>3
  <2> QED  BY <1>2, <2>1, <2>2
<1>11. ASSUME MaterialChanges \/ ContextChanges \/ Tick \/ UNCHANGED vars PROVE JournalInv'
  <2>1. journal' = journal /\ phase' = phase
    BY <1>11, Zenon DEF MaterialChanges, ContextChanges, Tick, vars
  <2> QED  BY <1>2, <2>1
<1> QED
  BY <1>6, <1>7, <1>8, <1>9, <1>10, <1>11 DEF Next

\* The journal the harness writes gets neither code, whatever is submitted and
\* however the attempt is cancelled, fails or expires.
THEOREM JournalStaysAccepted == Spec => []JournalIsAccepted
<1>1. ASSUME JournalInv PROVE JournalIsAccepted
  <2>1. CASE journal = <<>>
    BY <2>1, NothingIsRead DEF JournalIsAccepted, Journal!JournalCodes
  <2>2. CASE journal # <<>>
    <3>1. /\ Journal!StateBodies(<<journal>>) = journal
          /\ DOMAIN journal = 1..Len(journal)
      BY <1>1, <2>2, AllIsRead, LenProperties DEF JournalInv
    <3>2. \A i \in DOMAIN journal : Passes(journal, i)
      BY <1>1, <3>1 DEF JournalInv
    <3> QED  BY <3>1, <3>2 DEF JournalIsAccepted, Journal!JournalCodes, Passes
  <2> QED  BY <2>1, <2>2
<1>2. AttemptInv /\ JournalInv /\ [Next]_vars => (AttemptInv /\ JournalInv)'
  BY AttemptStep, JournalStep
<1> QED  BY AttemptInit, JournalInit, <1>1, <1>2, PTL DEF Spec
=============================================================================
