--------------------------- MODULE VectorGenerator ---------------------------
(***************************************************************************)
(* The conformance vectors of the authority contract as files, the script  *)
(* that generates them (gen_authority_vectors.py), its --check, and the    *)
(* parity gate (authority_canon_parity.py).  The serializer under test,    *)
(* the port, lives here; the canon it is a port of lives in a spec         *)
(* checkout that may be absent and moves by itself.  A serializer is its   *)
(* domain prefix and the bytes it gives for the core of each vector.       *)
(***************************************************************************)
EXTENDS Naturals, FiniteSetsExt

CONSTANTS
    Ids,         \* vector ids, as numbers: build_vectors returns them in order
    Bytes,       \* what a serializer may give for a core
    Domains,     \* what a domain prefix may be
    V2,          \* the literal prefix spec-canon:v2:authority
    Registry, Provenance,   \* the two other files
    Absent,      \* no checkout, no file
    MaxEdits     \* bound on what people change

ASSUME IdsAreNat == Ids \subseteq Nat
ASSUME V2IsPrefix == V2 \in Domains
ASSUME PathsDiffer == Registry # Provenance /\ {Registry, Provenance} \intersect Ids = {}

VARIABLES
    port,      \* consiliency_contract.authority: its prefix and its bytes
    keys,      \* the SEED_LABELS generation the registry is built from
    plan,      \* the ids build_vectors returns
    checkout,  \* spec's canon at CONFORMANCE_SPEC_REPO or ../spec, or Absent
    disk,      \* the committed files
    job,       \* the generator's run, or Idle
    settled,   \* history: nobody changed anything since a run began that was not interrupted
    edits      \* what people changed so far

people == <<port, keys, plan, checkout, edits>>
vars == <<people, disk, job, settled>>

Serializers == [prefix : Domains, bytes : [Ids -> Bytes]]
Paths == {Registry, Provenance} \union Ids
Idle == [phase |-> "idle"]

\* A file that was opened for writing and has not been written: none of its fields
\* can be read.
Torn == [keys |-> Absent, source |-> Absent, pin |-> Absent, signer |-> Absent, over |-> Absent]

Preimage(id) == <<port.prefix, port.bytes[id]>>

\* Slip: only the prefix is compared with the canon's.
DivergesByPrefix(canon) == canon # Absent /\ canon.prefix # port.prefix

\* The CANON DIVERGENCE and PREFIX DIVERGENCE exits, against the canon loaded.
Diverges(canon) ==
    /\ canon # Absent
    /\ canon.prefix # port.prefix \/ \E id \in plan : canon.bytes[id] # port.bytes[id]

\* The canon's bytes where one was loaded, else the port's own.
pin_canon_bytes(id, canon) == IF canon = Absent THEN port.bytes[id] ELSE canon.bytes[id]

Vector(id, canon) ==
    [signer |-> keys, over |-> Preimage(id), pin |-> pin_canon_bytes(id, canon)]

\* What a run would have on disk: registry, vectors, and, if a canon was loaded,
\* the digests of the canon's files as they are when it gets there.
Outputs(canon, source) ==
    [p \in {Registry} \union plan \union (IF canon = Absent THEN {} ELSE {Provenance}) |->
        CASE p = Registry -> [keys |-> keys]
          [] p = Provenance -> [source |-> source]
          [] OTHER -> Vector(p, canon)]

\* registry, vectors in the order of the plan, provenance.
NextFile(todo) ==
    IF Registry \in todo THEN Registry
    ELSE IF todo \intersect Ids # {} THEN Min(todo \intersect Ids)
    ELSE Provenance

------------------------------------------------------------------------------
Fresh(serializer, ids) ==
    [p \in Paths |->
        CASE p = Registry -> [keys |-> 0]
          [] p = Provenance -> [source |-> serializer]
          [] OTHER -> IF p \in ids
                      THEN [signer |-> 0, pin |-> serializer.bytes[p],
                            over |-> <<serializer.prefix, serializer.bytes[p]>>]
                      ELSE Absent]

\* A tree generated beside the canon it is a port of.
Init ==
    /\ port \in {s \in Serializers : s.prefix = V2}
    /\ checkout = port
    /\ keys = 0
    /\ plan \in SUBSET Ids
    /\ disk = Fresh(port, plan)
    /\ job = Idle
    /\ settled = FALSE
    /\ edits = 0

\* Somebody edits the script, the port or the spec repository, at any time; a
\* run that has begun is not affected but for the digests it has yet to read.
Edit ==
    /\ edits < MaxEdits
    /\ edits' = edits + 1
    /\ \/ port' \in Serializers \ {port} /\ UNCHANGED <<keys, plan, checkout>>
       \/ keys' = keys + 1 /\ UNCHANGED <<port, plan, checkout>>
       \/ plan' \in SUBSET Ids \ {plan} /\ UNCHANGED <<port, keys, checkout>>
       \/ /\ checkout' \in (Serializers \union {Absent}) \ {checkout}
          /\ UNCHANGED <<port, keys, plan>>
    /\ settled' = FALSE
    /\ UNCHANGED <<disk, job>>

\* A merge takes a side, an editor saves: a vector's pin is another.
HandEdit ==
    /\ edits < MaxEdits
    /\ edits' = edits + 1
    /\ \E id \in Ids, b \in Bytes :
           disk[id] \notin {Absent, Torn} /\ disk' = [disk EXCEPT ![id].pin = b]
    /\ settled' = FALSE
    /\ UNCHANGED <<port, keys, plan, checkout, job>>

\* Slip: the comparison is left to --check.
GenerateUnasserted ==
    /\ job = Idle
    /\ job' = [phase |-> "built", canon |-> checkout, outputs |-> Outputs(checkout, Absent)]
    /\ settled' = TRUE
    /\ UNCHANGED <<people, disk>>

\* _load_spec_canon, build_registry, build_vectors and the prefix check: every
\* output but the provenance is there before anything is written, or the run exits.
Generate ==
    /\ job = Idle
    /\ ~Diverges(checkout)
    /\ job' = [phase |-> "built", canon |-> checkout, outputs |-> Outputs(checkout, Absent)]
    /\ settled' = TRUE
    /\ UNCHANGED <<people, disk>>

\* Slip: the digests are of the port's own source.
BuildProvenanceOfPort ==
    /\ job.phase = "built"
    /\ LET read == IF Provenance \in DOMAIN job.outputs
                   THEN [job.outputs EXCEPT ![Provenance] = [source |-> port]]
                   ELSE job.outputs
       IN  job' = [phase |-> "writing", canon |-> job.canon, outputs |-> read,
                   todo |-> DOMAIN read]
    /\ UNCHANGED <<people, disk, settled>>

\* build_provenance reads the digests from the checkout as it is now.
BuildProvenance ==
    /\ job.phase = "built"
    /\ LET read == IF Provenance \in DOMAIN job.outputs
                   THEN [job.outputs EXCEPT ![Provenance] = [source |-> checkout]]
                   ELSE job.outputs
       IN  job' = [phase |-> "writing", canon |-> job.canon, outputs |-> read,
                   todo |-> DOMAIN read]
    /\ UNCHANGED <<people, disk, settled>>

\* Slip: files that are there already are kept.
WriteMissingFile ==
    /\ job.phase = "writing"
    /\ LET p == NextFile(job.todo)
       IN  /\ disk' = IF disk[p] = Absent THEN [disk EXCEPT ![p] = job.outputs[p]] ELSE disk
           /\ job' = IF job.todo = {p} THEN Idle ELSE [job EXCEPT !.todo = @ \ {p}]
    /\ UNCHANGED <<people, settled>>

\* One file after the other.
WriteFile ==
    /\ job.phase = "writing"
    /\ LET p == NextFile(job.todo)
       IN  /\ disk' = [disk EXCEPT ![p] = job.outputs[p]]
           /\ job' = IF job.todo = {p} THEN Idle ELSE [job EXCEPT !.todo = @ \ {p}]
    /\ UNCHANGED <<people, settled>>

\* The run dies, between two files or inside one: write_text truncates and then writes.
Interrupt ==
    /\ job # Idle
    /\ \/ UNCHANGED disk
       \/ job.phase = "writing" /\ disk' = [disk EXCEPT ![NextFile(job.todo)] = Torn]
    /\ job' = Idle
    /\ settled' = FALSE
    /\ UNCHANGED people

Next == Edit \/ HandEdit \/ Generate \/ BuildProvenance \/ WriteFile \/ Interrupt

Spec == Init /\ [][Next]_vars

------------------------------------------------------------------------------
Shipped == {id \in Ids : disk[id] # Absent}

\* gen_authority_vectors.py --check: no divergence, and each file it would write
\* is there as it would write it.
Check ==
    /\ ~Diverges(checkout)
    /\ LET outputs == Outputs(checkout, checkout)
       IN  \A p \in DOMAIN outputs : disk[p] = outputs[p]

\* authority_canon_parity.py: the floor, and the cross-check beside a checkout.
Parity ==
    /\ port.prefix = V2
    /\ \A id \in Shipped : port.bytes[id] = disk[id].pin
    /\ checkout # Absent =>
           /\ checkout.prefix = port.prefix
           /\ \A id \in Shipped : checkout.bytes[id] = disk[id].pin

\* The suite's own verification: every vector's signature is by the registry's
\* keys over the port's preimage.
Suite ==
    \A id \in Shipped : disk[id].signer = disk[Registry].keys /\ disk[id].over = Preimage(id)

\* The committed provenance names a canon that has the port's prefix and gives the
\* bytes that are pinned.
NamesPinnedCanon ==
    LET named == disk[Provenance].source
    IN  /\ named # Absent
        /\ named.prefix = port.prefix
        /\ \A id \in plan : named.bytes[id] = disk[id].pin

\* A green --check speaks for the other two gates as well: the pins are the
\* port's bytes, the checkout's too, and the signatures verify under the registry
\* that is there; and beside a checkout for the provenance, which then names a canon
\* the pins are of.  (It does not look at vectors the plan no longer has, nor at
\* the literal prefix.)
GreenCheckMeansGreenGates ==
    Check => /\ checkout # Absent => NamesPinnedCanon
             /\ Shipped \subseteq plan /\ port.prefix = V2 => Parity /\ Suite

\* A run that was neither interrupted nor disturbed leaves a tree --check finds green,
\* whatever earlier runs left behind, and with it the other two gates: the suite and
\* parity, where no vector is left that the plan does not have and the prefix is
\* the literal one.
WholeRunIsGreen ==
    settled /\ job = Idle =>
        /\ Check
        /\ Shipped \subseteq plan /\ port.prefix = V2 => Parity /\ Suite

\* What a run leaves in a file it had open is what it computed for it, or nothing.
Leaves(p) == job.phase = "writing" /\ disk'[p] \notin {disk[p], Torn}

\* Beside a canon a run writes no vector the canon does not confirm: what it changes
\* pins and signs the bytes of the canon it loaded, whatever is edited while it
\* runs; a divergence leaves every file alone.  The provenance it writes names that
\* canon too, if nobody changed anything since it began.
WritesWhatCanonConfirms ==
    [][job.phase = "writing" /\ job' # job /\ job.canon # Absent =>
        /\ \A id \in Ids : Leaves(id) =>
               /\ disk'[id].pin = job.canon.bytes[id]
               /\ disk'[id].over = <<job.canon.prefix, job.canon.bytes[id]>>
        /\ settled /\ Leaves(Provenance) => disk'[Provenance] = [source |-> job.canon]]_vars

==============================================================================
