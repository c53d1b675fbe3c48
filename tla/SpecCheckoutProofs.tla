-------------------------- MODULE SpecCheckoutProofs --------------------------
(***************************************************************************)
(* Proofs about the two scripts that hold this repository and a checkout   *)
(* of the spec repository to one another while that checkout moves: the    *)
(* generator of authority vectors with its gates, for any set of vector    *)
(* ids, whatever the serializers give, and any number of edits and         *)
(* interrupted runs; and the harness that runs the spec's producer of      *)
(* projection indexes, for vectors with any number of manifests and        *)
(* sidecars, whatever the file system's order.                             *)
(***************************************************************************)
EXTENDS VectorGenerator, ProjectionsIndex, FiniteSetTheorems, WellFoundedInduction, TLAPS

\* Vector generator.


\* What a run that loaded this canon, and read these digests, writes.
Planned(outputs, canon) ==
    /\ Registry \in DOMAIN outputs /\ DOMAIN outputs \subseteq Paths
    /\ canon # Absent =>
           \A id \in Ids \intersect DOMAIN outputs :
               /\ outputs[id].pin = canon.bytes[id]
               /\ outputs[id].over = <<canon.prefix, canon.bytes[id]>>

\* Inductive invariant: what is still to be written is what the canon confirms; and
\* in a run nobody disturbed the canon it loaded is the one that is there still, and
\* it is what --check would want, the files written so far included.
GeneratorInv ==
    /\ plan \subseteq Ids
    /\ DOMAIN disk = Paths
    /\ \/ job = Idle /\ (settled => Check)
       \/ /\ job = [phase |-> "built", canon |-> job.canon, outputs |-> job.outputs]
          /\ Planned(job.outputs, job.canon)
          /\ settled => /\ ~Diverges(checkout) /\ job.canon = checkout
                        /\ job.outputs = Outputs(checkout, Absent)
       \/ /\ job = [phase |-> "writing", canon |-> job.canon, outputs |-> job.outputs,
                    todo |-> job.todo]
          /\ Planned(job.outputs, job.canon)
          /\ job.todo # {} /\ job.todo \subseteq DOMAIN job.outputs
          /\ settled => /\ ~Diverges(checkout) /\ job.canon = checkout
                        /\ job.outputs = Outputs(checkout, checkout)
                        /\ \A p \in DOMAIN job.outputs :
                               p \in job.todo \/ disk[p] = job.outputs[p]

\* What a run has to write, file by file.
LEMMA OutputsByFile ==
    ASSUME NEW canon, NEW source, plan \subseteq Ids
    PROVE  LET outputs == Outputs(canon, source)
           IN  /\ DOMAIN outputs = {Registry} \union plan
                                       \union (IF canon = Absent THEN {} ELSE {Provenance})
               /\ DOMAIN outputs \subseteq Paths
               /\ outputs[Registry] = [keys |-> keys]
               /\ canon # Absent => outputs[Provenance] = [source |-> source]
               /\ \A id \in plan : outputs[id] = Vector(id, canon)
<1>1. /\ Registry # Provenance
      /\ \A id \in plan : id # Registry /\ id # Provenance
  BY PathsDiffer
<1> QED  BY <1>1 DEF Outputs, Paths

\* The digests of the provenance are all that differs with the time they are read.
LEMMA DigestsReadLater ==
    ASSUME NEW canon, NEW source, NEW now, plan \subseteq Ids
    PROVE  LET outputs == Outputs(canon, source)
           IN  Outputs(canon, now) =
                   IF Provenance \in DOMAIN outputs
                   THEN [outputs EXCEPT ![Provenance] = [source |-> now]]
                   ELSE outputs
<1> DEFINE D == {Registry} \union plan \union (IF canon = Absent THEN {} ELSE {Provenance})
           before == Outputs(canon, source)
           after == Outputs(canon, now)
<1>1. /\ DOMAIN before = D /\ DOMAIN after = D
      /\ before = [p \in D |-> before[p]] /\ after = [p \in D |-> after[p]]
  BY DEF Outputs
<1>2. /\ Registry # Provenance
      /\ \A id \in plan : id # Registry /\ id # Provenance
  BY PathsDiffer
<1>3. \A p \in D : p # Provenance => after[p] = before[p]
  BY <1>2 DEF Outputs
<1>4. Provenance \in D => after[Provenance] = [source |-> now]
  BY <1>2 DEF Outputs
<1> HIDE DEF before, after, D
<1>5. after = IF Provenance \in D THEN [before EXCEPT ![Provenance] = [source |-> now]]
              ELSE before
  BY <1>1, <1>3, <1>4
<1> QED  BY <1>1, <1>5 DEF before, after

\* Without a divergence the port's preimages are the canon's, and its pins too.
LEMMA NothingDiverges ==
    ASSUME NEW canon, NEW source, plan \subseteq Ids, ~Diverges(canon)
    PROVE  Planned(Outputs(canon, source), canon)
<1> DEFINE outputs == Outputs(canon, source)
<1>1. /\ DOMAIN outputs = {Registry} \union plan
                              \union (IF canon = Absent THEN {} ELSE {Provenance})
      /\ DOMAIN outputs \subseteq Paths
      /\ \A id \in plan : outputs[id] = Vector(id, canon)
  BY OutputsByFile
<1>2. \A id \in Ids \intersect DOMAIN outputs : id \in plan
  BY <1>1, PathsDiffer
<1> HIDE DEF outputs
<1>3. ASSUME canon # Absent, NEW id \in plan
      PROVE  /\ outputs[id].pin = canon.bytes[id]
             /\ outputs[id].over = <<canon.prefix, canon.bytes[id]>>
  <2>1. canon.prefix = port.prefix /\ canon.bytes[id] = port.bytes[id]
    BY <1>3 DEF Diverges
  <2> QED  BY <1>1, <1>3, <2>1 DEF Vector, Preimage, pin_canon_bytes
<1>4. Planned(outputs, canon)
  BY <1>1, <1>2, <1>3 DEF Planned
<1> QED  BY <1>4 DEF outputs

\* The next file is one of those to be written.
LEMMA NextIsToBeWritten ==
    ASSUME NEW todo, todo # {}, todo \subseteq Paths
    PROVE  NextFile(todo) \in todo
<1> DEFINE ids == todo \intersect Ids
<1>1. ASSUME ids # {} PROVE Min(ids) \in ids
  <2>1. ids \subseteq Nat
    BY IdsAreNat
  <2>2. PICK m \in ids : \A n \in ids : ~(<<n, m>> \in OpToRel(<, Nat))
    BY <1>1, <2>1, NatLessThanWellFounded, WFMin
  <2>3. \A n \in ids : ~(n < m) /\ n \in Nat /\ m \in Nat
    BY <2>1, <2>2 DEF OpToRel
  <2>4. \A n \in ids : m <= n
    BY <2>3
  <2> HIDE DEF ids
  <2> QED  BY <2>4, Zenon DEF Min
<1>2. ids = {} /\ Registry \notin todo => Provenance \in todo
  BY DEF Paths
<1> QED  BY <1>1, <1>2 DEF NextFile

\* A tree generated beside its canon.
LEMMA GeneratorInit == Init => GeneratorInv
<1> SUFFICES ASSUME Init PROVE GeneratorInv
  OBVIOUS
<1>1. plan \subseteq Ids /\ job = Idle /\ settled = FALSE
  BY DEF Init
<1>2. DOMAIN disk = Paths
  BY DEF Init, Fresh
<1> QED  BY <1>1, <1>2 DEF GeneratorInv

\* The phases are told apart.
LEMMA Phases ==
    /\ Idle.phase = "idle"
    /\ \A c, o : [phase |-> "built", canon |-> c, outputs |-> o].phase = "built"
    /\ \A c, o, t : [phase |-> "writing", canon |-> c, outputs |-> o, todo |-> t].phase = "writing"
BY DEF Idle

\* A run begins: nothing diverges.
LEMMA GenerateStep ==
    ASSUME GeneratorInv, Generate
    PROVE  GeneratorInv'
<1> DEFINE outputs == Outputs(checkout, Absent)
<1>1. /\ ~Diverges(checkout)
      /\ job' = [phase |-> "built", canon |-> checkout, outputs |-> outputs]
      /\ plan' = plan /\ disk' = disk /\ checkout' = checkout /\ port' = port /\ keys' = keys
  BY DEF Generate, people
<1>2. Planned(outputs, checkout)
  BY <1>1, NothingDiverges DEF GeneratorInv
<1>3. Outputs(checkout, Absent)' = outputs /\ ~Diverges(checkout)'
  BY <1>1 DEF Outputs, Vector, Preimage, pin_canon_bytes, Diverges
<1> HIDE DEF outputs
<1>4. job'.canon = checkout /\ job'.outputs = outputs
  BY <1>1
<1>5. Planned(job'.outputs, job'.canon)
  BY <1>2, <1>4
<1> QED  BY <1>1, <1>3, <1>4, <1>5 DEF GeneratorInv, Planned

\* The provenance is read, and the files are to be written.
LEMMA BuildProvenanceStep ==
    ASSUME GeneratorInv, BuildProvenance
    PROVE  GeneratorInv'
<1> DEFINE read == IF Provenance \in DOMAIN job.outputs
                   THEN [job.outputs EXCEPT ![Provenance] = [source |-> checkout]]
                   ELSE job.outputs
<1>1. /\ job.phase = "built"
      /\ job' = [phase |-> "writing", canon |-> job.canon, outputs |-> read,
                 todo |-> DOMAIN read]
      /\ plan' = plan /\ disk' = disk /\ checkout' = checkout /\ port' = port
      /\ keys' = keys /\ settled' = settled
  BY DEF BuildProvenance, people
<1>2. /\ Planned(job.outputs, job.canon)
      /\ settled => /\ ~Diverges(checkout) /\ job.canon = checkout
                    /\ job.outputs = Outputs(checkout, Absent)
      /\ plan \subseteq Ids
  BY <1>1, Phases DEF GeneratorInv
<1>3. DOMAIN read = DOMAIN job.outputs
      /\ \A p \in DOMAIN read : p # Provenance => read[p] = job.outputs[p]
  OBVIOUS
<1>4. Planned(read, job.canon)
  <2>1. \A id \in Ids : id # Provenance
    BY PathsDiffer
  <2> HIDE DEF read
  <2> QED  BY <1>2, <1>3, <2>1 DEF Planned
<1>5. DOMAIN read # {}
  <2> HIDE DEF read
  <2> QED  BY <1>2, <1>3 DEF Planned
<1>6. settled => read = Outputs(checkout, checkout)
  BY <1>2, DigestsReadLater
<1>7. Outputs(checkout, checkout)' = Outputs(checkout, checkout)
      /\ (Diverges(checkout)' <=> Diverges(checkout))
  BY <1>1 DEF Outputs, Vector, Preimage, pin_canon_bytes, Diverges
<1> HIDE DEF read
<1>8. job'.canon = job.canon /\ job'.outputs = read /\ job'.todo = DOMAIN read
  BY <1>1
<1> QED  BY <1>1, <1>2, <1>4, <1>5, <1>6, <1>7, <1>8 DEF GeneratorInv, Planned

\* A file is written; with the last one --check is green if nobody interfered.
LEMMA WriteFileStep ==
    ASSUME GeneratorInv, WriteFile
    PROVE  GeneratorInv'
<1> DEFINE p == NextFile(job.todo)
<1>1. /\ job.phase = "writing"
      /\ disk' = [disk EXCEPT ![p] = job.outputs[p]]
      /\ job' = IF job.todo = {p} THEN Idle ELSE [job EXCEPT !.todo = @ \ {p}]
      /\ plan' = plan /\ checkout' = checkout /\ port' = port
      /\ keys' = keys /\ settled' = settled
  BY DEF WriteFile, people
<1>2. /\ job = [phase |-> "writing", canon |-> job.canon, outputs |-> job.outputs,
                todo |-> job.todo]
      /\ Planned(job.outputs, job.canon)
      /\ job.todo # {} /\ job.todo \subseteq DOMAIN job.outputs
      /\ settled => /\ ~Diverges(checkout) /\ job.canon = checkout
                    /\ job.outputs = Outputs(checkout, checkout)
                    /\ \A q \in DOMAIN job.outputs :
                           q \in job.todo \/ disk[q] = job.outputs[q]
      /\ DOMAIN disk = Paths /\ plan \subseteq Ids
  BY <1>1, Phases DEF GeneratorInv
<1>3. p \in job.todo /\ p \in Paths
  <2>1. job.todo \subseteq Paths
    BY <1>2 DEF Planned
  <2> QED  BY <1>2, <2>1, NextIsToBeWritten
<1> HIDE DEF p
<1>4. /\ DOMAIN disk' = Paths /\ disk'[p] = job.outputs[p]
      /\ \A q \in Paths : q # p => disk'[q] = disk[q]
  BY <1>1, <1>2, <1>3
<1>5. settled => \A q \in DOMAIN job.outputs :
                     q \in job.todo \ {p} \/ disk'[q] = job.outputs[q]
  <2>1. DOMAIN job.outputs \subseteq Paths
    BY <1>2 DEF Planned
  <2> QED  BY <1>2, <1>4, <2>1
<1>6. Outputs(checkout, checkout)' = Outputs(checkout, checkout)
      /\ (Diverges(checkout)' <=> Diverges(checkout))
  BY <1>1 DEF Outputs, Vector, Preimage, pin_canon_bytes, Diverges
<1>7. CASE job.todo = {p}
  <2>1. job' = Idle
    BY <1>1, <1>7
  <2>2. settled' => Check'
    <3>1. settled => \A q \in DOMAIN job.outputs : disk'[q] = job.outputs[q]
      BY <1>5, <1>7
    <3> QED  BY <1>1, <1>2, <1>6, <3>1 DEF Check
  <2> QED  BY <1>1, <1>2, <1>4, <2>1, <2>2 DEF GeneratorInv
<1>8. CASE job.todo # {p}
  <2> DEFINE c == job.canon
             o == job.outputs
             t == job.todo
  <2>1. job' = [job EXCEPT !.todo = job.todo \ {p}]
    BY <1>1, <1>8
  <2> HIDE DEF c, o, t
  <2>2. job = [phase |-> "writing", canon |-> c, outputs |-> o, todo |-> t]
    BY <1>2 DEF c, o, t
  <2>3. job' = [phase |-> "writing", canon |-> c, outputs |-> o, todo |-> t \ {p}]
    BY <2>1, <2>2
  <2>4. job'.canon = c /\ job'.outputs = o /\ job'.todo = t \ {p}
    BY <2>3
  <2>5. t \ {p} # {} /\ t \ {p} \subseteq DOMAIN o
    BY <1>2, <1>3, <1>8 DEF t, o
  <2>6. Planned(job'.outputs, job'.canon)
    BY <1>2, <2>4 DEF o, c
  <2>7. settled' => /\ ~Diverges(checkout)' /\ job'.canon = checkout'
                    /\ job'.outputs = Outputs(checkout, checkout)'
                    /\ \A q \in DOMAIN job'.outputs :
                           q \in job'.todo \/ disk'[q] = job'.outputs[q]
    BY <1>1, <1>2, <1>5, <1>6, <2>4 DEF c, o, t
  <2> QED  BY <1>1, <1>2, <1>4, <2>3, <2>4, <2>5, <2>6, <2>7 DEF GeneratorInv, Planned
<1> QED  BY <1>7, <1>8

\* People edit, a vector is edited by hand, or a run is interrupted.
LEMMA DisturbanceStep ==
    ASSUME GeneratorInv, Edit \/ HandEdit \/ Interrupt
    PROVE  GeneratorInv'
<1>1. settled' = FALSE /\ (job' = job \/ job' = Idle)
  BY DEF Edit, HandEdit, Interrupt
<1>2. plan' \subseteq Ids
  BY DEF GeneratorInv, Edit, HandEdit, Interrupt, people
<1>3. DOMAIN disk' = Paths
  BY DEF GeneratorInv, Edit, HandEdit, Interrupt
<1>4. CASE job' = Idle
  BY <1>1, <1>2, <1>3, <1>4 DEF GeneratorInv
<1>5. CASE job' = job
  BY <1>1, <1>2, <1>3, <1>5 DEF GeneratorInv, Planned
<1> QED  BY <1>1, <1>4, <1>5

\* Every step keeps the invariant.
LEMMA GeneratorStep == GeneratorInv /\ [Next]_vars => GeneratorInv'
<1>1. GeneratorInv /\ UNCHANGED vars => GeneratorInv'
  <2> SUFFICES ASSUME GeneratorInv, UNCHANGED vars PROVE GeneratorInv'
    OBVIOUS
  <2>1. /\ plan' = plan /\ disk' = disk /\ checkout' = checkout /\ port' = port
        /\ keys' = keys /\ job' = job /\ settled' = settled
    BY DEF vars, people
  <2>2. /\ Outputs(checkout, checkout)' = Outputs(checkout, checkout)
        /\ Outputs(checkout, Absent)' = Outputs(checkout, Absent)
        /\ Diverges(checkout)' <=> Diverges(checkout)
    BY <2>1 DEF Outputs, Vector, Preimage, pin_canon_bytes, Diverges
  <2>3. Check' <=> Check
    BY <2>1, <2>2 DEF Check
  <2> QED  BY <2>1, <2>2, <2>3 DEF GeneratorInv, Planned
<1> QED  BY <1>1, GenerateStep, BuildProvenanceStep, WriteFileStep, DisturbanceStep DEF Next

\* In every behaviour the generator's invariant holds.
LEMMA GeneratorSafe == Spec => []GeneratorInv
BY GeneratorInit, GeneratorStep, PTL DEF Spec

\* What a green --check says of the other gates: of the provenance beside a checkout,
\* and over a plan that names every vector there is of parity and the suite.
LEMMA CheckSpeaks == GeneratorInv => GreenCheckMeansGreenGates
<1> SUFFICES ASSUME GeneratorInv, Check
             PROVE  /\ checkout # Absent => NamesPinnedCanon
                    /\ Shipped \subseteq plan /\ port.prefix = V2 => Parity /\ Suite
  BY DEF GreenCheckMeansGreenGates
<1> DEFINE outputs == Outputs(checkout, checkout)
<1>1. ~Diverges(checkout) /\ \A p \in DOMAIN outputs : disk[p] = outputs[p]
  BY DEF Check
<1>2. /\ Registry \in DOMAIN outputs /\ outputs[Registry] = [keys |-> keys]
      /\ checkout # Absent => /\ Provenance \in DOMAIN outputs
                              /\ outputs[Provenance] = [source |-> checkout]
      /\ \A id \in plan : id \in DOMAIN outputs /\ outputs[id] = Vector(id, checkout)
  <2>1. plan \subseteq Ids
    BY DEF GeneratorInv
  <2> QED  BY <2>1, OutputsByFile
<1> HIDE DEF outputs
<1>3. disk[Registry].keys = keys
  BY <1>1, <1>2
<1>4. ASSUME NEW id \in plan
      PROVE  /\ disk[id].signer = keys /\ disk[id].over = Preimage(id)
             /\ disk[id].pin = pin_canon_bytes(id, checkout)
             /\ checkout # Absent => checkout.bytes[id] = port.bytes[id]
  <2>1. disk[id] = Vector(id, checkout)
    BY <1>1, <1>2
  <2>2. checkout # Absent => checkout.bytes[id] = port.bytes[id]
    BY <1>1 DEF Diverges
  <2> QED  BY <2>1, <2>2 DEF Vector
<1>5. checkout # Absent => checkout.prefix = port.prefix
  BY <1>1 DEF Diverges
<1>6. ASSUME checkout # Absent PROVE NamesPinnedCanon
  <2>1. disk[Provenance].source = checkout
    BY <1>1, <1>2, <1>6
  <2> QED  BY <1>4, <1>5, <1>6, <2>1 DEF NamesPinnedCanon, pin_canon_bytes
<1>7. ASSUME Shipped \subseteq plan, port.prefix = V2 PROVE Parity /\ Suite
  <2>1. Suite
    BY <1>3, <1>4, <1>7 DEF Suite
  <2>2. Parity
    BY <1>4, <1>5, <1>7 DEF Parity, pin_canon_bytes
  <2> QED  BY <2>1, <2>2
<1> QED  BY <1>6, <1>7

\* GreenCheckMeansGreenGates: a green --check speaks for the provenance, and over a
\* plan that names every vector there is for the parity gate and the suite.
THEOREM CheckCoversGates == Spec => []GreenCheckMeansGreenGates
BY CheckSpeaks, GeneratorSafe, PTL

\* WholeRunIsGreen: a run that was neither interrupted nor disturbed leaves a tree
\* --check finds green, for any plan, whatever was on disk before; parity and the
\* suite are green with it where no vector is left that the plan does not have and
\* the port's prefix is the literal one.
THEOREM WholeRunsAreGreen == Spec => []WholeRunIsGreen
<1>1. GeneratorInv => WholeRunIsGreen
  <2> SUFFICES ASSUME GeneratorInv, settled, job = Idle
               PROVE  /\ Check
                      /\ Shipped \subseteq plan /\ port.prefix = V2 => Parity /\ Suite
    BY DEF WholeRunIsGreen
  <2>1. Check
    BY Phases DEF GeneratorInv
  <2> QED  BY <2>1, CheckSpeaks DEF GreenCheckMeansGreenGates
<1> QED  BY <1>1, GeneratorSafe, PTL

\* What a run leaves in a file is what it computed for it, out of the canon it loaded;
\* the provenance names that canon if nobody changed anything since.
LEMMA WritesConfirmed ==
    ASSUME GeneratorInv, [Next]_vars, job' # job, job.canon # Absent,
           NEW p \in Paths, Leaves(p)
    PROVE  /\ p \in Ids => /\ disk'[p].pin = job.canon.bytes[p]
                           /\ disk'[p].over = <<job.canon.prefix, job.canon.bytes[p]>>
           /\ settled /\ p = Provenance => disk'[p] = [source |-> job.canon]
<1>0. job.phase = "writing" /\ disk'[p] # disk[p] /\ disk'[p] # Torn
  BY DEF Leaves
<1>1. /\ Planned(job.outputs, job.canon) /\ DOMAIN disk = Paths
      /\ job.todo # {} /\ job.todo \subseteq DOMAIN job.outputs
      /\ settled => job.canon = checkout /\ job.outputs = Outputs(checkout, checkout)
      /\ plan \subseteq Ids
  BY <1>0, Phases DEF GeneratorInv
<1> DEFINE next == NextFile(job.todo)
<1>2. next \in job.todo /\ next \in Paths
  BY <1>1, NextIsToBeWritten DEF Planned
<1>3. WriteFile
  <2>1. ~Interrupt
    <3>1. ASSUME disk' = [disk EXCEPT ![next] = Torn] PROVE FALSE
      <4> HIDE DEF next
      <4> QED  BY <1>0, <1>1, <1>2, <3>1
    <3> QED  BY <1>0, <3>1 DEF Interrupt
  <2> QED  BY <1>0, <2>1, Phases
           DEF Next, Edit, HandEdit, Generate, BuildProvenance, vars
<1>4. disk' = [disk EXCEPT ![next] = job.outputs[next]]
  BY <1>3 DEF WriteFile
<1> HIDE DEF next
<1>5. p = next /\ disk'[p] = job.outputs[p]
  BY <1>0, <1>1, <1>2, <1>4
<1>6. p \in DOMAIN job.outputs
  BY <1>1, <1>2, <1>5
<1>7. ASSUME settled, p = Provenance PROVE disk'[p] = [source |-> job.canon]
  <2>1. Outputs(checkout, checkout)[Provenance] = [source |-> checkout]
    BY <1>1, <1>7, OutputsByFile
  <2> QED  BY <1>1, <1>5, <1>7, <2>1
<1> QED  BY <1>1, <1>5, <1>6, <1>7 DEF Planned

\* WritesWhatCanonConfirms: beside a canon a run writes no vector the canon it loaded
\* does not confirm, edits and interruptions or not; and its provenance names that
\* canon if nobody changed anything since the run began.
THEOREM CanonConfirmsWrites == Spec => WritesWhatCanonConfirms
<1>1. GeneratorInv /\ [Next]_vars =>
      [job.phase = "writing" /\ job' # job /\ job.canon # Absent =>
          /\ \A id \in Ids : Leaves(id) =>
                 /\ disk'[id].pin = job.canon.bytes[id]
                 /\ disk'[id].over = <<job.canon.prefix, job.canon.bytes[id]>>
          /\ settled /\ Leaves(Provenance) => disk'[Provenance] = [source |-> job.canon]]_vars
  <2>1. Provenance \in Paths /\ Ids \subseteq Paths
    BY DEF Paths
  <2> QED  BY <2>1, WritesConfirmed
<1> QED  BY <1>1, GeneratorSafe, PTL DEF Spec, WritesWhatCanonConfirms

-------------------------------------------------------------------------------
\* Projections harness: a stable sort, what an entry is made of, and the merge as a
\* function of the set of manifests.


\* A nonempty set of naturals has a least element.
LEMMA Least ==
    ASSUME NEW S, S \subseteq Nat, S # {}
    PROVE  \E m \in S : \A n \in S : m <= n
<1>1. PICK m \in S : \A n \in S : ~(<<n, m>> \in OpToRel(<, Nat))
  BY NatLessThanWellFounded, WFMin
<1>2. \A n \in S : ~(n < m) /\ n \in Nat /\ m \in Nat
  BY <1>1 DEF OpToRel
<1> QED  BY <1>2

Triples == Int \X Int \X Int

\* Keys are compared by their first difference.
LEMMA LessIsLexical ==
    ASSUME NEW a \in Triples, NEW b \in Triples
    PROVE  Less(a, b) <=>
               \/ a[1] < b[1]
               \/ a[1] = b[1] /\ a[2] < b[2]
               \/ a[1] = b[1] /\ a[2] = b[2] /\ a[3] < b[3]
<1>1. DOMAIN a = {1, 2, 3} /\ DOMAIN b = {1, 2, 3}
  BY DEF Triples
<1>2. 1..(1 - 1) = {} /\ 1..(2 - 1) = {1} /\ 1..(3 - 1) = {1, 2}
  OBVIOUS
<1>3. Less(a, b) <=> \/ a[1] < b[1] /\ \A j \in 1..(1 - 1) : a[j] = b[j]
                     \/ a[2] < b[2] /\ \A j \in 1..(2 - 1) : a[j] = b[j]
                     \/ a[3] < b[3] /\ \A j \in 1..(3 - 1) : a[j] = b[j]
  BY <1>1 DEF Less
<1> QED  BY <1>2, <1>3

\* The order of the positions is a strict and total one.
LEMMA BeforeIsTotal ==
    ASSUME NEW n \in Nat, NEW ks, DOMAIN ks = 1..n, \A i \in 1..n : ks[i] \in Triples,
           NEW i \in 1..n, NEW j \in 1..n
    PROVE  /\ ~Before(ks, i, i)
           /\ i # j => Before(ks, i, j) \/ Before(ks, j, i)
           /\ \A k \in 1..n :
                  Before(ks, k, i) /\ Before(ks, i, j) => Before(ks, k, j)
<1> DEFINE First(a, b) == \/ a[1] < b[1]
                          \/ a[1] = b[1] /\ a[2] < b[2]
                          \/ a[1] = b[1] /\ a[2] = b[2] /\ a[3] < b[3]
<1>1. \A p, q \in 1..n :
          Before(ks, p, q) <=> (First(ks[p], ks[q]) \/ (ks[p] = ks[q] /\ p < q))
  BY LessIsLexical DEF Before
<1>2. \A a, b \in Triples : a = b \/ First(a, b) \/ First(b, a)
  <2>1. \A a, b \in Triples : a[1] = b[1] /\ a[2] = b[2] /\ a[3] = b[3] => a = b
    BY DEF Triples
  <2>2. \A a \in Triples : a[1] \in Int /\ a[2] \in Int /\ a[3] \in Int
    BY DEF Triples
  <2> QED  BY <2>1, <2>2
<1>3. \A a \in Triples : ~First(a, a)
  BY DEF Triples
<1>4. \A a, b, c \in Triples : First(a, b) /\ First(b, c) => First(a, c)
  BY DEF Triples
<1> HIDE DEF First
<1>5. ~Before(ks, i, i)
  BY <1>1, <1>3
<1>6. i # j => Before(ks, i, j) \/ Before(ks, j, i)
  BY <1>1, <1>2
<1>7. \A k \in 1..n : Before(ks, k, i) /\ Before(ks, i, j) => Before(ks, k, j)
  BY <1>1, <1>4
<1> QED  BY <1>5, <1>6, <1>7

\* Each number below n is the rank of one position.
LEMMA RanksArePlaces ==
    ASSUME NEW n \in Nat, NEW ks, DOMAIN ks = 1..n, \A i \in 1..n : ks[i] \in Triples
    PROVE  /\ \A i \in 1..n : Rank(ks, i) \in Nat /\ Rank(ks, i) + 1 \in 1..n
           /\ \A i, j \in 1..n : Rank(ks, i) = Rank(ks, j) => i = j
           /\ \A k \in 1..n : \E i \in 1..n : Rank(ks, i) = k - 1
<1> DEFINE earlier(i) == {j \in 1..n : Before(ks, j, i)}
<1>1. \A i \in 1..n : Rank(ks, i) = Cardinality(earlier(i))
  BY DEF Rank
<1>2. IsFiniteSet(1..n) /\ Cardinality(1..n) = n
  BY FS_Interval
<1>3. \A i \in 1..n : IsFiniteSet(earlier(i)) /\ Cardinality(earlier(i)) \in Nat
  BY <1>2, FS_Subset, FS_CardinalityType
<1>4. ASSUME NEW i \in 1..n, NEW T \in SUBSET (1..n), earlier(i) \subseteq T, i \in T
      PROVE  Cardinality(earlier(i)) + 1 <= Cardinality(T)
  <2>1. i \notin earlier(i)
    BY BeforeIsTotal
  <2>2. IsFiniteSet(T)
    BY <1>2, FS_Subset
  <2>3. /\ Cardinality(earlier(i) \union {i}) = Cardinality(earlier(i)) + 1
    BY <1>3, <2>1, FS_AddElement
  <2>4. earlier(i) \union {i} \in SUBSET T
    BY <1>4
  <2>5. Cardinality(earlier(i) \union {i}) <= Cardinality(T)
    BY <2>2, <2>4, FS_Subset
  <2> QED  BY <2>3, <2>5
<1>13. \A i, j \in 1..n : j \in earlier(i) <=> Before(ks, j, i)
  OBVIOUS
<1>12. \A i \in 1..n : earlier(i) \in SUBSET (1..n)
  OBVIOUS
<1> HIDE DEF earlier
<1>5. ASSUME NEW i \in 1..n PROVE Rank(ks, i) + 1 \in 1..n
  <2>1. Cardinality(earlier(i)) + 1 <= n
    <3>1. 1..n \in SUBSET (1..n) /\ earlier(i) \subseteq 1..n
      BY <1>12
    <3> QED  BY <1>2, <1>4, <3>1
  <2> QED  BY <1>1, <1>3, <2>1
<1>6. ASSUME NEW i \in 1..n, NEW j \in 1..n, Before(ks, i, j)
      PROVE  Rank(ks, i) < Rank(ks, j)
  <2>1. earlier(i) \subseteq earlier(j) /\ i \in earlier(j)
    BY <1>6, <1>13, <1>12, BeforeIsTotal
  <2>2. Cardinality(earlier(i)) + 1 <= Cardinality(earlier(j))
    BY <1>4, <1>12, <2>1
  <2> QED  BY <1>1, <1>3, <2>2
<1>7. \A i, j \in 1..n : Rank(ks, i) = Rank(ks, j) => i = j
  <2>1. SUFFICES ASSUME NEW i \in 1..n, NEW j \in 1..n, i # j
                 PROVE  Rank(ks, i) # Rank(ks, j)
    OBVIOUS
  <2>2. Before(ks, i, j) \/ Before(ks, j, i)
    BY <2>1, BeforeIsTotal
  <2>3. Rank(ks, i) \in Nat /\ Rank(ks, j) \in Nat
    BY <1>1, <1>3
  <2> QED  BY <1>6, <2>2, <2>3
<1>8. \A i \in 1..n : Rank(ks, i) \in Nat
  BY <1>1, <1>3
<1> DEFINE place == [i \in 1..n |-> Rank(ks, i) + 1]
<1>9. place \in Injection(1..n, 1..n)
  <2>1. place \in [1..n -> 1..n]
    BY <1>5
  <2>2. \A i, j \in 1..n : place[i] = place[j] => i = j
    BY <1>7, <1>8
  <2> QED  BY <2>1, <2>2 DEF Injection, IsInjective
<1>10. place \in Surjection(1..n, 1..n)
  BY <1>2, <1>9, FS_Injection
<1>11. ASSUME NEW k \in 1..n PROVE \E i \in 1..n : Rank(ks, i) = k - 1
  <2>1. PICK i \in 1..n : place[i] = k
    BY <1>10 DEF Surjection
  <2> QED  BY <1>8, <2>1
<1> HIDE DEF place
<1> QED  BY <1>5, <1>7, <1>8, <1>11

\* Entries, n of them, beside their keys.
Keyed(n, entries, ks) ==
    /\ n \in Nat
    /\ DOMAIN entries = 1..n
    /\ DOMAIN ks = 1..n /\ \A i \in 1..n : ks[i] \in Triples

\* What is k-th in the sorted entries has rank k - 1, and nothing else has.
LEMMA SortedByRank ==
    ASSUME NEW n, NEW entries, NEW ks, Keyed(n, entries, ks)
    PROVE  /\ DOMAIN Sorted(entries, ks) = 1..n
           /\ \A i \in 1..n : /\ Rank(ks, i) + 1 \in 1..n
                              /\ Sorted(entries, ks)[Rank(ks, i) + 1] = entries[i]
           /\ \A k \in 1..n : \E i \in 1..n : Rank(ks, i) + 1 = k
<1> USE DEF Keyed
<1> DEFINE at(k) == CHOOSE i \in 1..n : Rank(ks, i) = k - 1
<1>1. Sorted(entries, ks) = [k \in 1..n |-> entries[at(k)]]
  BY DEF Sorted
<1>2. /\ \A i \in 1..n : Rank(ks, i) \in Nat /\ Rank(ks, i) + 1 \in 1..n
      /\ \A i, j \in 1..n : Rank(ks, i) = Rank(ks, j) => i = j
      /\ \A k \in 1..n : \E i \in 1..n : Rank(ks, i) = k - 1
  BY RanksArePlaces
<1>3. \A k \in 1..n : at(k) \in 1..n /\ Rank(ks, at(k)) = k - 1
  BY <1>2
<1> HIDE DEF at
<1>4. ASSUME NEW i \in 1..n PROVE at(Rank(ks, i) + 1) = i
  <2>1. PICK k \in 1..n : k = Rank(ks, i) + 1
    BY <1>2
  <2>2. at(k) \in 1..n /\ Rank(ks, at(k)) = k - 1
    BY <1>3
  <2>3. Rank(ks, i) = k - 1
    BY <1>2, <2>1
  <2> QED  BY <1>2, <2>1, <2>2, <2>3
<1>5. ASSUME NEW k \in 1..n PROVE \E i \in 1..n : Rank(ks, i) + 1 = k
  <2>1. PICK i \in 1..n : Rank(ks, i) = k - 1
    BY <1>2
  <2> QED  BY <2>1
<1> QED  BY <1>1, <1>2, <1>4, <1>5

\* Entries whose keys are all different are sorted into the same sequence however
\* they are listed.
LEMMA SortedIsPure ==
    ASSUME NEW n, NEW entries, NEW ks, Keyed(n, entries, ks),
           \A i, j \in 1..n : ks[i] = ks[j] => i = j,
           NEW entries2, NEW ks2, Keyed(n, entries2, ks2),
           NEW pi \in Bijection(1..n, 1..n),
           \A i \in 1..n : entries2[i] = entries[pi[i]] /\ ks2[i] = ks[pi[i]]
    PROVE  Sorted(entries2, ks2) = Sorted(entries, ks)
<1> DEFINE earlier(q, i) == {j \in 1..n : Before(q, j, i)}
<1>1. /\ pi \in [1..n -> 1..n]
      /\ \A i, j \in 1..n : pi[i] = pi[j] => i = j
      /\ \A t \in 1..n : \E i \in 1..n : pi[i] = t
  BY DEF Bijection, Injection, Surjection, IsInjective
<1>2. n \in Nat /\ DOMAIN entries = 1..n /\ DOMAIN entries2 = 1..n /\ DOMAIN ks = 1..n
      /\ DOMAIN ks2 = 1..n
  BY DEF Keyed
<1>3. ASSUME NEW i \in 1..n, NEW j \in 1..n
      PROVE  Before(ks2, i, j) <=> Before(ks, pi[i], pi[j])
  <2>1. ks2[i] = ks[pi[i]] /\ ks2[j] = ks[pi[j]] /\ pi[i] \in 1..n /\ pi[j] \in 1..n
    BY <1>1, <1>2
  <2>2. ks[pi[i]] = ks[pi[j]] => i = j /\ pi[i] = pi[j]
    BY <1>1, <2>1
  <2>3. ~(i < i) /\ ~(pi[i] < pi[i])
    BY <2>1
  <2> QED  BY <2>1, <2>2, <2>3 DEF Before
<1>4. ASSUME NEW i \in 1..n PROVE Rank(ks2, i) = Rank(ks, pi[i])
  <2> DEFINE S == earlier(ks2, i)
             T == earlier(ks, pi[i])
             f == [j \in S |-> pi[j]]
  <2>1. \A j \in 1..n : j \in S <=> pi[j] \in T
    BY <1>1, <1>3
  <2>2. f \in [S -> T]
    BY <2>1
  <2>3. \A a, b \in S : f[a] = f[b] => a = b
    BY <1>1
  <2>4. ASSUME NEW t \in T PROVE \E a \in S : f[a] = t
    <3>1. PICK a \in 1..n : pi[a] = t
      BY <1>1, <1>2
    <3> QED  BY <2>1, <3>1
  <2>5. IsFiniteSet(S)
    <3>1. S \in SUBSET (1..n) /\ IsFiniteSet(1..n)
      BY <1>2, FS_Interval
    <3> QED  BY <3>1, FS_Subset
  <2>6. Rank(ks2, i) = Cardinality(S) /\ Rank(ks, pi[i]) = Cardinality(T)
    BY <1>2 DEF Rank
  <2> HIDE DEF S, T, f
  <2>7. f \in Bijection(S, T)
    BY <2>2, <2>3, <2>4 DEF Bijection, Injection, Surjection, IsInjective
  <2> QED  BY <2>5, <2>6, <2>7, FS_Bijection DEF ExistsBijection
<1>5. /\ DOMAIN Sorted(entries, ks) = 1..n
      /\ \A i \in 1..n : /\ Rank(ks, i) + 1 \in 1..n
                         /\ Sorted(entries, ks)[Rank(ks, i) + 1] = entries[i]
      /\ \A k \in 1..n : \E i \in 1..n : Rank(ks, i) + 1 = k
  BY SortedByRank
<1>6. /\ DOMAIN Sorted(entries2, ks2) = 1..n
      /\ \A i \in 1..n : /\ Rank(ks2, i) + 1 \in 1..n
                         /\ Sorted(entries2, ks2)[Rank(ks2, i) + 1] = entries2[i]
      /\ \A k \in 1..n : \E i \in 1..n : Rank(ks2, i) + 1 = k
  BY SortedByRank
<1>7. ASSUME NEW k \in 1..n PROVE Sorted(entries2, ks2)[k] = Sorted(entries, ks)[k]
  <2>1. PICK i \in 1..n : Rank(ks2, i) + 1 = k
    BY <1>6, Zenon
  <2>2. Sorted(entries2, ks2)[k] = entries2[i]
    BY <1>6, <2>1, Zenon
  <2>3. Rank(ks, pi[i]) + 1 = k /\ pi[i] \in 1..n
    BY <1>1, <1>4, <2>1
  <2>4. Sorted(entries, ks)[k] = entries[pi[i]]
    BY <1>5, <2>3, Zenon
  <2> QED  BY <2>2, <2>4
<1>8. /\ Sorted(entries2, ks2) = [k \in 1..n |-> Sorted(entries2, ks2)[k]]
      /\ Sorted(entries, ks) = [k \in 1..n |-> Sorted(entries, ks)[k]]
  BY <1>2 DEF Sorted
<1> QED  BY <1>7, <1>8

\* f lists the members of S, each of them once.
Lists(n, f, S) ==
    /\ S = {f[i] : i \in 1..n}
    /\ \A i, j \in 1..n : f[i] = f[j] => i = j

\* A sequence of a finite set's elements lists what another one lists, elsewhere.
LEMMA ListingIsReordering ==
    ASSUME NEW n \in Nat, NEW f, NEW S, Lists(n, f, S), NEW listing \in SetToSeqs(S)
    PROVE  /\ DOMAIN listing = 1..n
           /\ \E pi \in Bijection(1..n, 1..n) : listing = [i \in 1..n |-> f[pi[i]]]
<1> DEFINE g == [i \in 1..n |-> f[i]]
           pi == [k \in 1..n |-> CHOOSE i \in 1..n : f[i] = listing[k]]
<1>0. S = {f[i] : i \in 1..n} /\ \A i, j \in 1..n : f[i] = f[j] => i = j
  BY DEF Lists
<1>1. IsFiniteSet(1..n) /\ Cardinality(1..n) = n
  BY FS_Interval
<1>2. g \in Bijection(1..n, S)
  BY <1>0 DEF Bijection, Injection, Surjection, IsInjective
<1>3. Cardinality(S) = n
  BY <1>1, <1>2, FS_Bijection DEF ExistsBijection
<1>4. /\ listing \in [1..n -> S]
      /\ \A i, j \in 1..n : i # j => listing[i] # listing[j]
  BY <1>3 DEF SetToSeqs
<1>5. ASSUME NEW k \in 1..n PROVE pi[k] \in 1..n /\ f[pi[k]] = listing[k]
  <2>1. listing[k] \in {f[i] : i \in 1..n}
    BY <1>0, <1>4
  <2>2. \E i \in 1..n : f[i] = listing[k]
    BY <2>1
  <2> QED  BY <2>2, Zenon
<1>6. pi \in [1..n -> 1..n]
  BY <1>5
<1> HIDE DEF pi
<1>7. pi \in Injection(1..n, 1..n)
  <2>1. ASSUME NEW i \in 1..n, NEW j \in 1..n, pi[i] = pi[j] PROVE i = j
    <3>1. f[pi[i]] = listing[i] /\ f[pi[j]] = listing[j]
      BY <1>5
    <3>2. listing[i] = listing[j]
      BY <2>1, <3>1
    <3> QED  BY <1>4, <3>2
  <2> QED  BY <1>6, <2>1, Zenon DEF Injection, IsInjective
<1>8. pi \in Surjection(1..n, 1..n)
  BY <1>1, <1>7, FS_Injection
<1>9. listing = [i \in 1..n |-> f[pi[i]]]
  BY <1>4, <1>5
<1> QED  BY <1>4, <1>7, <1>8, <1>9 DEF Bijection

-------------------------------------------------------------------------------
KindOf(m) == CHOOSE k \in DOMAIN Kinds : Kinds[k] = m.kind

Merged(m, sidecars) == Entry(m, SidecarOf(sidecars, m.manifest_path))

\* Nothing but refresh fields comes from a sidecar.
LEMMA RefreshIsOfASidecar ==
    ASSUME NEW sidecars, NEW path
    PROVE  DOMAIN SidecarOf(sidecars, path) \subseteq RefreshFields
<1>1. DOMAIN <<>> = {}
  OBVIOUS
<1> QED  BY <1>1 DEF SidecarOf, RefreshOf, Restrict

\* An entry says what its manifest says, and has its manifest's key.
LEMMA EntryOfManifest ==
    ASSUME NEW m, NEW refresh, DOMAIN refresh \subseteq RefreshFields
    PROVE  /\ \A f \in Copied : Entry(m, refresh)[f] = m[f]
           /\ RefreshFields \intersect DOMAIN Entry(m, refresh) = DOMAIN refresh
           /\ \A f \in DOMAIN refresh : Entry(m, refresh)[f] = refresh[f]
           /\ Key(Entry(m, refresh)) = <<m.target, KindOf(m), m.predicate>>
<1> DEFINE e == Entry(m, refresh)
<1>1. Copied \intersect RefreshFields = {} /\ KindFields(m) \intersect RefreshFields = {}
  BY DEF Copied, RefreshFields, KindFields
<1>2. /\ DOMAIN e = Copied \union KindFields(m) \union DOMAIN refresh
      /\ \A f \in DOMAIN e : e[f] = IF f \in DOMAIN refresh THEN refresh[f] ELSE m[f]
  BY DEF Entry
<1> HIDE DEF e
<1>3. \A f \in Copied : e[f] = m[f]
  BY <1>1, <1>2
<1>4. RefreshFields \intersect DOMAIN e = DOMAIN refresh
  BY <1>1, <1>2
<1>5. e.target = m.target /\ e.kind = m.kind /\ e.predicate = m.predicate
  BY <1>3 DEF Copied
<1>6. Key(e) = <<m.target, KindOf(m), m.predicate>>
  BY <1>5 DEF Key, KindOf
<1>7. \A f \in DOMAIN refresh : e[f] = refresh[f]
  BY <1>2
<1> QED  BY <1>3, <1>4, <1>6, <1>7 DEF e

LEMMA MergedEntry ==
    ASSUME NEW m, NEW sidecars
    PROVE  LET e == Merged(m, sidecars)
               refresh == SidecarOf(sidecars, m.manifest_path)
           IN  /\ \A f \in Copied : e[f] = m[f]
               /\ RefreshFields \intersect DOMAIN e = DOMAIN refresh
               /\ \A f \in DOMAIN refresh : e[f] = refresh[f]
               /\ Key(e) = <<m.target, KindOf(m), m.predicate>>
BY RefreshIsOfASidecar, EntryOfManifest DEF Merged

\* A kind has one place in the order.
LEMMA KindsApart ==
    ASSUME NEW m, NEW n, m.kind \in Range(Kinds), n.kind \in Range(Kinds)
    PROVE  KindOf(m) \in Int /\ (KindOf(m) = KindOf(n) => m.kind = n.kind)
<1>1. DOMAIN Kinds = 1..3
  BY DEF Kinds
<1>2. (\E k \in DOMAIN Kinds : Kinds[k] = m.kind) /\ (\E k \in DOMAIN Kinds : Kinds[k] = n.kind)
  BY DEF Range
<1>3. /\ KindOf(m) \in DOMAIN Kinds /\ Kinds[KindOf(m)] = m.kind
      /\ KindOf(n) \in DOMAIN Kinds /\ Kinds[KindOf(n)] = n.kind
  BY <1>2, Zenon DEF KindOf
<1> QED  BY <1>1, <1>3

\* Manifests that merge are listed by position; their keys are triples.
LEMMA VectorShape ==
    ASSUME NEW v, IsVector(v)
    PROVE  \E n \in Nat :
               /\ DOMAIN v.manifests = 1..n /\ n = Len(v.manifests)
               /\ v.manifests = [i \in 1..n |-> v.manifests[i]]
               /\ Range(v.manifests) = {v.manifests[i] : i \in 1..n}
               /\ \A i \in 1..n :
                      LET m == v.manifests[i]
                      IN  /\ Key(Merged(m, v.sidecars)) = <<m.target, KindOf(m), m.predicate>>
                          /\ Key(Merged(m, v.sidecars)) \in Triples
<1> DEFINE q == v.manifests
<1>1. PICK n \in Nat : q \in [1..n -> Range(q)]
  BY DEF IsVector
<1>2. DOMAIN q = 1..n /\ n = Len(q) /\ q = [i \in 1..n |-> q[i]]
  BY <1>1
<1>3. ASSUME NEW i \in 1..n
      PROVE  LET m == q[i]
             IN  /\ Key(Merged(m, v.sidecars)) = <<m.target, KindOf(m), m.predicate>>
                 /\ Key(Merged(m, v.sidecars)) \in Triples
  <2> DEFINE m == q[i]
  <2>1. m \in Range(q)
    BY <1>1
  <2>2. m.target \in Int /\ m.predicate \in Int /\ m.kind \in Range(Kinds)
    BY <2>1 DEF IsVector
  <2> HIDE DEF m
  <2>3. KindOf(m) \in Int
    BY <2>2, KindsApart
  <2>4. Key(Merged(m, v.sidecars)) = <<m.target, KindOf(m), m.predicate>>
    BY MergedEntry
  <2>5. <<m.target, KindOf(m), m.predicate>> \in Triples
    BY <2>2, <2>3 DEF Triples
  <2> QED  BY <2>4, <2>5 DEF m
<1>4. Range(q) = {q[i] : i \in 1..n}
  BY <1>2 DEF Range
<1> QED  BY <1>2, <1>3, <1>4

LEMMA MaxOfOne ==
    ASSUME NEW i \in Int
    PROVE  Max({i}) = i
BY DEF Max

\* When no two manifests need one file, each has its own, beside its refresh state.
LEMMA FixtureHasAll ==
    ASSUME IsVector(vector), Apart(OneFile), NEW n \in Nat,
           DOMAIN vector.manifests = 1..n,
           Range(vector.manifests) = {vector.manifests[i] : i \in 1..n}
    PROVE  LET fixture == build_fixture(vector)
               m == vector.manifests
           IN  /\ DOMAIN fixture = {Place(m[i]) : i \in 1..n}
               /\ \A i, j \in 1..n : Place(m[i]) = Place(m[j]) => i = j
               /\ \A i \in 1..n :
                      /\ fixture[Place(m[i])].manifest = m[i]
                      /\ fixture[Place(m[i])].refresh
                             = SidecarOf(vector.sidecars, m[i].manifest_path)
<1> DEFINE m == vector.manifests
           fixture == build_fixture(vector)
           refresh(i) == SidecarOf(vector.sidecars, m[i].manifest_path)
           at(p) == {i \in DOMAIN m : Place(m[i]) = p}
           refreshed(p) == {i \in at(p) : refresh(i) # <<>>}
<1>1. ASSUME NEW i \in 1..n, NEW j \in 1..n, Place(m[i]) = Place(m[j]) PROVE i = j
  <2>1. OneFile(m[i], m[j])
    BY <1>1 DEF Place, OneFile
  <2> QED  BY <2>1 DEF Apart
<1>2. fixture = [p \in {Place(m[i]) : i \in 1..n} |->
                    [manifest |-> m[Max(at(p))],
                     refresh |-> IF refreshed(p) = {} THEN <<>> ELSE refresh(Max(refreshed(p)))]]
  <2>1. {Place(x) : x \in Range(m)} = {Place(m[i]) : i \in 1..n}
    OBVIOUS
  <2>2. fixture = [p \in {Place(x) : x \in Range(m)} |->
                    [manifest |-> m[Max(at(p))],
                     refresh |-> IF refreshed(p) = {} THEN <<>> ELSE refresh(Max(refreshed(p)))]]
    BY Zenon DEF build_fixture
  <2> QED  BY <2>1, <2>2, Zenon
<1>3. ASSUME NEW i \in 1..n
      PROVE  /\ fixture[Place(m[i])].manifest = m[i]
             /\ fixture[Place(m[i])].refresh = refresh(i)
  <2> DEFINE p == Place(m[i])
  <2>1. at(p) = {i}
    BY <1>1
  <2>2. refreshed(p) = IF refresh(i) # <<>> THEN {i} ELSE {}
    BY <2>1
  <2>3. /\ fixture[p].manifest = m[Max(at(p))]
        /\ fixture[p].refresh = IF refreshed(p) = {} THEN <<>> ELSE refresh(Max(refreshed(p)))
    <3> HIDE DEF fixture, at, refreshed, refresh
    <3> QED  BY <1>2
  <2>4. Max({i}) = i
    BY MaxOfOne
  <2>5. fixture[p].manifest = m[i]
    BY <2>1, <2>3, <2>4, Zenon
  <2>6. fixture[p].refresh = refresh(i)
    <3>1. CASE refresh(i) = <<>>
      <4>1. refreshed(p) = {}
        BY <2>2, <3>1
      <4> HIDE DEF fixture, refreshed, refresh, p
      <4> QED  BY <2>3, <3>1, <4>1
    <3>2. CASE refresh(i) # <<>>
      <4>1. refreshed(p) = {i}
        BY <2>2, <3>2
      <4> HIDE DEF fixture, refreshed, refresh, p
      <4> QED  BY <2>3, <2>4, <3>2, <4>1
    <3> QED  BY <3>1, <3>2
  <2> HIDE DEF fixture, refresh
  <2> QED  BY <2>5, <2>6
<1>4. DOMAIN fixture = {Place(m[i]) : i \in 1..n}
  <2> HIDE DEF fixture, at, refreshed, refresh
  <2> QED  BY <1>2
<1> HIDE DEF refresh
<1> QED  BY <1>1, <1>3, <1>4 DEF refresh

\* The merge of a vector's manifests is that of any listing of them.
LEMMA MergeIsPure ==
    ASSUME IsVector(vector), Apart(OneKey), NEW n \in Nat,
           DOMAIN vector.manifests = 1..n,
           NEW pi \in Bijection(1..n, 1..n),
           NEW listing, listing = [i \in 1..n |-> vector.manifests[pi[i]]]
    PROVE  build_projections_index(listing, vector.sidecars)
               = build_projections_index(vector.manifests, vector.sidecars)
<1> DEFINE m == vector.manifests
           entries == [i \in 1..n |-> Merged(m[i], vector.sidecars)]
           ks == [i \in 1..n |-> Key(Merged(m[i], vector.sidecars))]
<1>1. /\ \A i \in 1..n : /\ ks[i] = <<m[i].target, KindOf(m[i]), m[i].predicate>>
                         /\ ks[i] \in Triples
                         /\ m[i].kind \in Range(Kinds)
  <2>1. \A i \in 1..n : m[i].kind \in Range(Kinds)
    <3>1. \A i \in 1..n : m[i] \in Range(m)
      BY DEF Range
    <3> QED  BY <3>1 DEF IsVector
  <2>2. PICK k \in Nat :
            /\ DOMAIN m = 1..k
            /\ \A i \in 1..k :
                   /\ Key(Merged(m[i], vector.sidecars))
                          = <<m[i].target, KindOf(m[i]), m[i].predicate>>
                   /\ Key(Merged(m[i], vector.sidecars)) \in Triples
    BY VectorShape, Zenon
  <2> QED  BY <2>1, <2>2
<1>2. ASSUME NEW i \in 1..n, NEW j \in 1..n, ks[i] = ks[j] PROVE i = j
  <2>1. /\ m[i].target = m[j].target /\ KindOf(m[i]) = KindOf(m[j])
        /\ m[i].predicate = m[j].predicate
    <3> HIDE DEF ks
    <3> QED  BY <1>1, <1>2
  <2>2. m[i].kind = m[j].kind
    BY <1>1, <2>1, KindsApart
  <2> QED  BY <2>1, <2>2 DEF Apart, OneKey
<1>3. /\ \A i \in 1..n : pi[i] \in 1..n
  BY DEF Bijection, Injection
<1>4. Sorted([i \in 1..n |-> entries[pi[i]]], [i \in 1..n |-> ks[pi[i]]])
          = Sorted(entries, ks)
  <2> DEFINE entries2 == [i \in 1..n |-> entries[pi[i]]]
             ks2 == [i \in 1..n |-> ks[pi[i]]]
  <2>1. Keyed(n, entries, ks)
    <3>1. DOMAIN entries = 1..n /\ DOMAIN ks = 1..n
      OBVIOUS
    <3> HIDE DEF entries, ks
    <3> QED  BY <1>1, <3>1 DEF Keyed
  <2> HIDE DEF entries, ks
  <2>2. \A i, j \in 1..n : ks[i] = ks[j] => i = j
    BY <1>2
  <2>3. /\ DOMAIN entries2 = 1..n /\ DOMAIN ks2 = 1..n
        /\ \A i \in 1..n : entries2[i] = entries[pi[i]] /\ ks2[i] = ks[pi[i]]
    OBVIOUS
  <2> HIDE DEF entries2, ks2
  <2>4. Keyed(n, entries2, ks2)
    BY <1>1, <1>3, <2>3 DEF Keyed
  <2>5. Sorted(entries2, ks2) = Sorted(entries, ks)
    BY <2>1, <2>2, <2>3, <2>4, SortedIsPure
  <2> QED  BY <2>5 DEF entries2, ks2
<1>5. build_projections_index(m, vector.sidecars) = Sorted(entries, ks)
  BY Zenon DEF build_projections_index, Merged
<1>6. build_projections_index(listing, vector.sidecars)
          = Sorted([i \in 1..n |-> entries[pi[i]]], [i \in 1..n |-> ks[pi[i]]])
  <2>1. DOMAIN listing = 1..n
    OBVIOUS
  <2>2. build_projections_index(listing, vector.sidecars)
            = Sorted([i \in 1..n |-> Merged(listing[i], vector.sidecars)],
                     [i \in 1..n |-> Key(Merged(listing[i], vector.sidecars))])
    BY <2>1, Zenon DEF build_projections_index, Merged
  <2>3. \A i \in 1..n : /\ Merged(listing[i], vector.sidecars) = entries[pi[i]]
                        /\ Key(Merged(listing[i], vector.sidecars)) = ks[pi[i]]
    BY <1>3
  <2> HIDE DEF entries, ks
  <2>4. /\ [i \in 1..n |-> Merged(listing[i], vector.sidecars)] = [i \in 1..n |-> entries[pi[i]]]
        /\ [i \in 1..n |-> Key(Merged(listing[i], vector.sidecars))] = [i \in 1..n |-> ks[pi[i]]]
    BY <2>3
  <2> QED  BY <2>2, <2>4, Zenon
<1> QED  BY <1>4, <1>5, <1>6

\* A faithful producer's index of the fixture is the merge of the manifests, in
\* whatever order the files are listed.
LEMMA FaithfulIsMerge ==
    ASSUME IsVector(vector), Apart(OneKey), Apart(OneFile),
           NEW order \in SetToSeqs(DOMAIN build_fixture(vector))
    PROVE  Driven("faithful", build_fixture(vector), order)
               = Written(build_projections_index(vector.manifests, vector.sidecars))
<1> DEFINE m == vector.manifests
           fixture == build_fixture(vector)
<1>1. PICK n \in Nat : /\ DOMAIN m = 1..n
                       /\ Range(m) = {m[i] : i \in 1..n}
  BY VectorShape, Zenon
<1>2. /\ DOMAIN fixture = {Place(m[i]) : i \in 1..n}
      /\ \A i, j \in 1..n : Place(m[i]) = Place(m[j]) => i = j
      /\ \A i \in 1..n :
             /\ fixture[Place(m[i])].manifest = m[i]
             /\ fixture[Place(m[i])].refresh = SidecarOf(vector.sidecars, m[i].manifest_path)
  BY <1>1, FixtureHasAll, Zenon
<1> DEFINE f == [i \in 1..n |-> Place(m[i])]
<1>3. DOMAIN order = 1..n /\ \E pi \in Bijection(1..n, 1..n) : order = [i \in 1..n |-> f[pi[i]]]
  <2>1. Lists(n, f, DOMAIN fixture)
    BY <1>2 DEF Lists
  <2> HIDE DEF f
  <2> QED  BY <2>1, ListingIsReordering
<1>4. PICK pi \in Bijection(1..n, 1..n) : order = [i \in 1..n |-> f[pi[i]]]
  BY <1>3, Zenon
<1>5. \A i \in 1..n : pi[i] \in 1..n
  BY DEF Bijection, Injection
<1> DEFINE listing == [i \in 1..n |-> m[pi[i]]]
<1>6. ASSUME NEW i \in 1..n
      PROVE  Entry(fixture[order[i]].manifest, fixture[order[i]].refresh)
                 = Merged(listing[i], vector.sidecars)
  <2>1. order[i] = Place(m[pi[i]]) /\ listing[i] = m[pi[i]]
    BY <1>4, <1>5
  <2>2. /\ fixture[order[i]].manifest = listing[i]
        /\ fixture[order[i]].refresh = SidecarOf(vector.sidecars, listing[i].manifest_path)
    BY <1>2, <1>5, <2>1
  <2> QED  BY <2>2 DEF Merged
<1>7. Driven("faithful", fixture, order)
          = Written(Sorted([i \in 1..n |-> Merged(listing[i], vector.sidecars)],
                           [i \in 1..n |-> Key(Merged(listing[i], vector.sidecars))]))
  <2> DEFINE entry(i) == Entry(fixture[order[i]].manifest, fixture[order[i]].refresh)
  <2>1. Driven("faithful", fixture, order)
            = Written(Sorted([i \in 1..n |-> entry(i)], [i \in 1..n |-> Key(entry(i))]))
    <3> HIDE DEF fixture
    <3> QED  BY <1>3 DEF Driven
  <2> HIDE DEF fixture, listing
  <2>2. /\ [i \in 1..n |-> entry(i)] = [i \in 1..n |-> Merged(listing[i], vector.sidecars)]
        /\ [i \in 1..n |-> Key(entry(i))]
               = [i \in 1..n |-> Key(Merged(listing[i], vector.sidecars))]
    BY <1>6
  <2> QED  BY <2>1, <2>2, Zenon
<1>8. build_projections_index(listing, vector.sidecars)
          = Sorted([i \in 1..n |-> Merged(listing[i], vector.sidecars)],
                   [i \in 1..n |-> Key(Merged(listing[i], vector.sidecars))])
  <2>1. DOMAIN listing = 1..n
    OBVIOUS
  <2> HIDE DEF listing
  <2> QED  BY <2>1, Zenon DEF build_projections_index, Merged
<1>9. build_projections_index(listing, vector.sidecars)
          = build_projections_index(m, vector.sidecars)
  BY <1>1, MergeIsPure, Zenon
<1> QED  BY <1>7, <1>8, <1>9, Zenon

-------------------------------------------------------------------------------
\* Inductive invariant: what is judged is what the driver makes of the fixture, and
\* the report says what the judgement was.
HarnessInv ==
    /\ vector \in Vectors
    /\ phase \in {"locating", "running", "judging", "done"}
    /\ phase # "done" => status = "none"
    /\ phase = "judging" \/ status \in {"pass", "fail"} =>
           \E order \in SetToSeqs(DOMAIN build_fixture(vector)) :
               index = Driven(driver, build_fixture(vector), order)
    /\ status \in {"pass", "fail"} => status = Verdict(index, Valid(driver, index))

LEMMA HarnessInvInit == HarnessInit => HarnessInv
BY DEF HarnessInit, HarnessInv

LEMMA HarnessInvStep == HarnessInv /\ [HarnessNext]_harnessVars => HarnessInv'
<1> SUFFICES ASSUME HarnessInv, [HarnessNext]_harnessVars PROVE HarnessInv'
  OBVIOUS
<1>1. CASE MoveSpec
  BY <1>1, Zenon DEF MoveSpec, HarnessInv, outside, Verdict
<1>2. CASE Locate
  BY <1>2 DEF Locate, HarnessInv, outside
<1>3. CASE TryNext
  BY <1>3, Zenon DEF TryNext, HarnessInv, outside, Verdict
<1>4. CASE Skip
  BY <1>4 DEF Skip, HarnessInv, outside
<1>5. CASE run_driver
  BY <1>5 DEF run_driver, HarnessInv, outside
<1>6. CASE Judge
  BY <1>6 DEF Judge, HarnessInv, outside, Verdict
<1>7. CASE UNCHANGED harnessVars
  BY <1>7, Zenon DEF harnessVars, HarnessInv, Verdict
<1> QED  BY <1>1, <1>2, <1>3, <1>4, <1>5, <1>6, <1>7 DEF HarnessNext

LEMMA HarnessSafe == HarnessSpec => []HarnessInv
BY HarnessInvInit, HarnessInvStep, PTL DEF HarnessSpec

\* When both tests pass, the index is the merge.
LEMMA GreenIsMerge ==
    ASSUME HarnessInv, status = "pass", ReferenceTest
    PROVE  /\ IsVector(vector)
           /\ index.entries = build_projections_index(vector.manifests, vector.sidecars)
<1>1. index.entries = vector.expected
  BY DEF HarnessInv, Verdict
<1> QED  BY <1>1, VectorsTyped DEF HarnessInv, ReferenceTest

\* GreenMeansPure: a green comparison vouches for every order the manifests could
\* have been listed in, of any vector.
THEOREM IndexIsOfTheSet == HarnessSpec => []GreenMeansPure
<1>1. HarnessInv => GreenMeansPure
  <2> SUFFICES ASSUME HarnessInv, status = "pass", ReferenceTest, Apart(OneKey),
                      NEW listing \in SetToSeqs(Range(vector.manifests))
               PROVE  index.entries = build_projections_index(listing, vector.sidecars)
    BY DEF GreenMeansPure
  <2> DEFINE m == vector.manifests
  <2>1. /\ IsVector(vector)
        /\ index.entries = build_projections_index(m, vector.sidecars)
    BY GreenIsMerge
  <2>2. PICK n \in Nat : DOMAIN m = 1..n /\ Range(m) = {m[i] : i \in 1..n}
    BY <2>1, VectorShape, Zenon
  <2>3. \A i, j \in 1..n : m[i] = m[j] => i = j
    BY <2>2 DEF Apart, OneKey
  <2>4. \E pi \in Bijection(1..n, 1..n) : listing = [i \in 1..n |-> m[pi[i]]]
    <3>1. Lists(n, m, Range(m))
      BY <2>2, <2>3 DEF Lists
    <3> HIDE DEF m
    <3>2. listing \in SetToSeqs(Range(m))
      BY DEF m
    <3> QED  BY <3>1, <3>2, ListingIsReordering
  <2>5. build_projections_index(listing, vector.sidecars)
            = build_projections_index(m, vector.sidecars)
    BY <2>1, <2>2, <2>4, MergeIsPure, Zenon
  <2> QED  BY <2>1, <2>5
<1> QED  BY <1>1, HarnessSafe, PTL

\* NoFalseAlarm: a producer that merges as the suites do passes, in whatever order
\* the file system lists the fixture.
THEOREM FaithfulIsNotBlamed == HarnessSpec => []NoFalseAlarm
<1>1. HarnessInv => NoFalseAlarm
  <2> SUFFICES ASSUME HarnessInv, driver = "faithful", ReferenceTest,
                      Apart(OneKey), Apart(OneFile), status = "fail"
               PROVE  FALSE
    BY DEF NoFalseAlarm
  <2>1. IsVector(vector)
    BY VectorsTyped DEF HarnessInv
  <2>2. PICK order \in SetToSeqs(DOMAIN build_fixture(vector)) :
            index = Driven("faithful", build_fixture(vector), order)
    BY DEF HarnessInv
  <2>3. index = Written(vector.expected)
    BY <2>1, <2>2, FaithfulIsMerge DEF ReferenceTest
  <2>4. index.written /\ index.entries = vector.expected
    BY <2>3 DEF Written
  <2>5. Verdict(index, Valid(driver, index)) = "pass"
    BY <2>4 DEF Verdict, Valid
  <2> QED  BY <2>5 DEF HarnessInv
<1> QED  BY <1>1, HarnessSafe, PTL

\* A finite nonempty set of integers has a greatest element.
LEMMA HasGreatest ==
    ASSUME NEW S, S \subseteq Int, IsFiniteSet(S), S # {}
    PROVE  Max(S) \in S
<1> DEFINE above(x) == {y \in S : ~(x >= y)}
<1>1. PICK x \in S : \A y \in S : Cardinality(above(x)) <= Cardinality(above(y))
  <2> DEFINE sizes == {Cardinality(above(x)) : x \in S}
  <2>1. \A x \in S : IsFiniteSet(above(x))
    BY FS_Subset
  <2>2. \A x \in S : Cardinality(above(x)) \in Nat
    BY <2>1, FS_CardinalityType
  <2>3. sizes \subseteq Nat /\ sizes # {}
    BY <2>2
  <2>4. PICK size \in sizes : \A k \in sizes : size <= k
    BY <2>3, Least
  <2> QED  BY <2>4
<1>2. SUFFICES ASSUME NEW y \in above(x) PROVE FALSE
  BY Zenon DEF Max
<1>3. x \in Int /\ y \in Int /\ x < y
  OBVIOUS
<1>4. above(y) \in SUBSET above(x) /\ y \notin above(y) /\ y \in above(x)
  <2>1. \A z \in above(y) : z \in Int /\ z \in above(x)
    BY <1>3
  <2>2. y \notin above(y)
    BY <1>3
  <2> QED  BY <2>1, <2>2
<1>5. IsFiniteSet(above(x)) /\ IsFiniteSet(above(y))
  BY FS_Subset
<1>6. Cardinality(above(y)) <= Cardinality(above(x))
      /\ Cardinality(above(y)) # Cardinality(above(x))
  BY <1>4, <1>5, FS_Subset
<1>7. Cardinality(above(x)) <= Cardinality(above(y))
  BY <1>1
<1>8. Cardinality(above(x)) \in Nat /\ Cardinality(above(y)) \in Nat
  BY <1>5, FS_CardinalityType
<1> HIDE DEF above
<1> QED  BY <1>6, <1>7, <1>8

\* The refresh state of a manifest is its last sidecar's, and none without one.
LEMMA RefreshIsOwn ==
    ASSUME NEW sidecars, sidecars \in Seq(Range(sidecars)), NEW path
    PROVE  LET own == {s \in Range(sidecars) : s.manifest_path = path}
               refresh == SidecarOf(sidecars, path)
           IN  /\ own = {} => DOMAIN refresh = {}
               /\ own # {} => \E s \in own : /\ DOMAIN refresh = RefreshFields \intersect DOMAIN s
                                             /\ \A f \in DOMAIN refresh : refresh[f] = s[f]
<1> DEFINE own == {s \in Range(sidecars) : s.manifest_path = path}
           its == {i \in DOMAIN sidecars : sidecars[i].manifest_path = path}
           refresh == SidecarOf(sidecars, path)
<1>1. refresh = RefreshOf(sidecars, its)
  BY DEF SidecarOf
<1>2. its = {} <=> own = {}
  BY DEF Range
<1>3. CASE own = {}
  <2>1. refresh = <<>>
    BY <1>1, <1>2, <1>3 DEF RefreshOf
  <2> QED  BY <1>3, <2>1
<1>4. CASE own # {}
  <2>1. Max(its) \in its
    <3>1. PICK n \in Nat : its \subseteq 1..n
      OBVIOUS
    <3>2. IsFiniteSet(its)
      BY <3>1, FS_Interval, FS_Subset
    <3>3. its \subseteq Int
      BY <3>1
    <3> HIDE DEF its
    <3> QED  BY <1>2, <1>4, <3>1, <3>2, <3>3, HasGreatest
  <2> DEFINE s == sidecars[Max(its)]
  <2>2. s \in own
    BY <2>1 DEF Range
  <2>3. refresh = Restrict(s, RefreshFields \intersect DOMAIN s)
    BY <1>1, <1>2, <1>4 DEF RefreshOf
  <2>4. /\ DOMAIN refresh = RefreshFields \intersect DOMAIN s
        /\ \A f \in DOMAIN refresh : refresh[f] = s[f]
    <3> HIDE DEF refresh, s
    <3> QED  BY <2>3 DEF Restrict
  <2> QED  BY <1>4, <2>2, <2>4
<1> QED  BY <1>3, <1>4

\* GreenMeansComplete: every manifest is in the index, as itself, beside the refresh
\* state of its own sidecar.
THEOREM NobodyIsMissing == HarnessSpec => []GreenMeansComplete
<1>1. HarnessInv => GreenMeansComplete
  <2> SUFFICES ASSUME HarnessInv, status = "pass", ReferenceTest
               PROVE  /\ Len(index.entries) = Len(vector.manifests)
                      /\ \A m \in Range(vector.manifests) : \E e \in Range(index.entries) :
                             LET refresh == RefreshFields \intersect DOMAIN e
                                 own == {s \in Range(vector.sidecars) :
                                             s.manifest_path = m.manifest_path}
                             IN  /\ \A f \in Copied : e[f] = m[f]
                                 /\ own = {} => refresh = {}
                                 /\ own # {} => \E s \in own :
                                        /\ refresh = RefreshFields \intersect DOMAIN s
                                        /\ \A f \in refresh : e[f] = s[f]
    BY Zenon DEF GreenMeansComplete
  <2> DEFINE q == vector.manifests
             entries(n) == [i \in 1..n |-> Merged(q[i], vector.sidecars)]
             ks(n) == [i \in 1..n |-> Key(Merged(q[i], vector.sidecars))]
  <2>1. /\ IsVector(vector)
        /\ index.entries = build_projections_index(q, vector.sidecars)
    BY GreenIsMerge
  <2>2. PICK n \in Nat :
            /\ DOMAIN q = 1..n /\ n = Len(q)
            /\ Range(q) = {q[i] : i \in 1..n}
            /\ \A i \in 1..n : Key(Merged(q[i], vector.sidecars)) \in Triples
    BY <2>1, VectorShape, Zenon
  <2>3. index.entries = Sorted(entries(n), ks(n))
    BY <2>1, <2>2, Zenon DEF build_projections_index, Merged
  <2>4. Keyed(n, entries(n), ks(n))
    BY <2>2 DEF Keyed
  <2>5. \A i \in 1..n : entries(n)[i] = Merged(q[i], vector.sidecars)
    OBVIOUS
  <2> HIDE DEF entries, ks
  <2>6. /\ DOMAIN index.entries = 1..n
        /\ \A i \in 1..n : \E k \in 1..n : index.entries[k] = entries(n)[i]
    <3>1. /\ DOMAIN Sorted(entries(n), ks(n)) = 1..n
          /\ \A i \in 1..n : /\ Rank(ks(n), i) + 1 \in 1..n
                             /\ Sorted(entries(n), ks(n))[Rank(ks(n), i) + 1] = entries(n)[i]
      BY <2>4, SortedByRank
    <3> QED  BY <2>3, <3>1
  <2>7. Len(index.entries) = Len(q)
    <3>1. index.entries = [k \in 1..n |-> index.entries[k]]
      BY <2>3, <2>6 DEF Sorted
    <3> QED  BY <2>2, <2>6, <3>1
  <2>8. ASSUME NEW m \in Range(q)
        PROVE  LET own == {s \in Range(vector.sidecars) : s.manifest_path = m.manifest_path}
               IN  \E e \in Range(index.entries) :
                       /\ \A f \in Copied : e[f] = m[f]
                       /\ own = {} => RefreshFields \intersect DOMAIN e = {}
                       /\ own # {} => \E s \in own :
                              /\ RefreshFields \intersect DOMAIN e = RefreshFields \intersect DOMAIN s
                              /\ \A f \in RefreshFields \intersect DOMAIN e : e[f] = s[f]
    <3> DEFINE own == {s \in Range(vector.sidecars) : s.manifest_path = m.manifest_path}
               refresh == SidecarOf(vector.sidecars, m.manifest_path)
               e == Merged(m, vector.sidecars)
    <3>1. PICK i \in 1..n : m = q[i]
      BY <2>2
    <3>2. e \in Range(index.entries)
      BY <2>5, <2>6, <3>1 DEF Range
    <3>4. /\ own = {} => DOMAIN refresh = {}
          /\ own # {} => \E s \in own : /\ DOMAIN refresh = RefreshFields \intersect DOMAIN s
                                        /\ \A f \in DOMAIN refresh : refresh[f] = s[f]
      BY <2>1, RefreshIsOwn DEF IsVector
    <3>5. /\ \A f \in Copied : e[f] = m[f]
          /\ RefreshFields \intersect DOMAIN e = DOMAIN refresh
          /\ \A f \in DOMAIN refresh : e[f] = refresh[f]
      BY MergedEntry, Zenon
    <3> HIDE DEF refresh, e, own
    <3>6. /\ own = {} => RefreshFields \intersect DOMAIN e = {}
          /\ own # {} => \E s \in own :
                 /\ RefreshFields \intersect DOMAIN e = RefreshFields \intersect DOMAIN s
                 /\ \A f \in RefreshFields \intersect DOMAIN e : e[f] = s[f]
      BY <3>4, <3>5
    <3> QED  BY <3>2, <3>5, <3>6, Zenon DEF own
  <2> QED  BY <2>7, <2>8
<1> QED  BY <1>1, HarnessSafe, PTL
===============================================================================
