----------------------------- MODULE RunAttempt -----------------------------
(***************************************************************************)
(* One attempt of a supervised run, from the envelope submitted to the end *)
(* of its processes: admission, the time in the queue while the material   *)
(* and the validator's context change, the recheck of what was captured,   *)
(* the launch chain of helpers down to the worker, cancellation, and the   *)
(* deadline.  The harness journals each state it enters.                   *)
(***************************************************************************)
EXTENDS AdmissionCheck

CONSTANTS
    Envelopes,     \* the envelopes that may be submitted
    Materials,     \* the launch material there may be at submission
    Listings,      \* what a walk of the workspace may find
    Contexts,      \* what the validator may hold
    MaxChanges,    \* bound on the changes of material and context
    MaxAge         \* bound on the time since the first process started

ASSUME BoundsAreNat == MaxChanges \in Nat /\ MaxAge \in Nat

\* Launch material: the parts about to be used, what is unbindable in it, the
\* secrets it asks for, and the listing of its workspace.
IsMaterial(m) ==
    /\ m = [used |-> m.used, flaws |-> m.flaws, secrets |-> m.secrets, capture |-> m.capture]
    /\ m.used \in [Parts -> Nat]
    /\ m.capture \in Seq(Objects)

ASSUME MaterialsTyped == \A m \in Materials : IsMaterial(m)
ASSUME ListingsTyped == Listings \subseteq Seq(Objects)
ASSUME EnvelopesTyped == \A e \in Envelopes : e.bound \in [Parts -> Nat]
ASSUME RecordsAreFinite == \A c \in Contexts : IsFiniteSet(DOMAIN c.records)

VARIABLES
    env,        \* the envelope
    mat,        \* the launch material as it is now
    ctx,        \* the validator's context as it is now
    phase,      \* how far the harness is
    journal,    \* the bodies it has journalled
    codes,      \* the diagnostics of the last evaluation
    admittedBy, \* history: the context admission was decided in
    captured,   \* the material captured for the launch
    ran,        \* history: the parts and the tree the worker was started with
    chain,      \* launch-chain processes started
    workers,    \* worker invocations
    age,        \* time since the first process of the chain started
    changes     \* changes of material and context so far

outside == <<mat, ctx, changes>>
vars == <<env, outside, phase, journal, codes, admittedBy, captured, ran, chain,
          workers, age>>

Nothing == [nothing |-> TRUE]

Journal == INSTANCE RunLifecycle WITH
    segments <- <<journal>>, Bodies <- {}, MaxBodies <- 0, MaxSegments <- 0,
    None <- "none"

\* A line of the attempt's journal.
State(state, invocations) == Append(journal, Journal!StateBody(state, invocations))
Refusal == Append(journal, Journal!TerminalBody("refused", 0, FALSE, TRUE))
Finish == Append(journal, Journal!TerminalBody("finished", workers, TRUE, FALSE))

Running == phase \in {"chain", "working", "cancelling"}
UnderWay == phase \in {"queued", "capturing", "captured"} \/ Running

\* What a worker gets of this material.
Delivered(material_used) ==
    [used |-> material_used.used, tree |-> r2_capture_manifest(material_used.capture)]

Init ==
    /\ env \in Envelopes
    /\ mat \in Materials
    /\ ctx \in Contexts
    /\ phase = "submitted"
    /\ journal = <<>>
    /\ codes = {}
    /\ admittedBy = Nothing
    /\ captured = Nothing
    /\ ran = Nothing
    /\ chain = 0
    /\ workers = 0
    /\ age = 0
    /\ changes = 0

\* Refused with the first stage's diagnostics, or queued.
Admit ==
    /\ phase = "submitted"
    /\ codes' = r2_evaluate(env, ctx, mat)
    /\ admittedBy' = ctx
    /\ IF codes' = {}
       THEN phase' = "queued" /\ journal' = State("queued", 0)
       ELSE phase' = "refused" /\ journal' = Refusal
    /\ UNCHANGED <<env, outside, captured, ran, chain, workers, age>>

\* Files are edited, clones move, descriptors close, at any time between admission
\* and the attempt's end; before, Materials and Contexts say what there may be.
MaterialChanges ==
    /\ UnderWay /\ changes < MaxChanges
    /\ \/ \E p \in Parts : mat' = [mat EXCEPT !.used[p] = @ + 1]
       \/ mat.flaws = {} /\ \E f \in Flaws : mat' = [mat EXCEPT !.flaws = {f}]
       \/ \E l \in Listings \ {mat.capture} : mat' = [mat EXCEPT !.capture = l]
    /\ changes' = changes + 1
    /\ UNCHANGED <<env, ctx, phase, journal, codes, admittedBy, captured, ran, chain,
                   workers, age>>

\* The validator moves to another snapshot or holds other records.
ContextChanges ==
    /\ UnderWay /\ changes < MaxChanges
    /\ ctx' \in Contexts \ {ctx}
    /\ changes' = changes + 1
    /\ UNCHANGED <<env, mat, phase, journal, codes, admittedBy, captured, ran, chain,
                   workers, age>>

\* x-launch-semantics.capture_once: every launch digest is computed from this
\* object, and this object is what the worker is started with.  The tree is
\* still to be walked.
Capture ==
    /\ phase = "queued"
    /\ captured' = [mat EXCEPT !.capture = <<>>]
    /\ phase' = "capturing"
    /\ UNCHANGED <<env, outside, journal, codes, admittedBy, ran, chain, workers, age>>

\* The walk takes the workspace's objects one by one, each as it is by then.
Walk ==
    /\ phase = "capturing"
    /\ LET n == Len(captured.capture) + 1
       IN  IF n \in DOMAIN mat.capture
           THEN phase' = phase /\ captured' = [captured EXCEPT !.capture = Append(@, mat.capture[n])]
           ELSE phase' = "captured" /\ captured' = captured
    /\ UNCHANGED <<env, outside, journal, codes, admittedBy, ran, chain, workers, age>>

\* x-launch-semantics.recheck_before_start, under the launch-material stage.
Launch ==
    /\ phase = "captured"
    /\ codes' = material(env, captured)
    /\ IF codes' = {}
       THEN phase' = "chain" /\ chain' = 1 /\ journal' = State("running", 0)
       ELSE phase' = "refused" /\ chain' = chain /\ journal' = Refusal
    /\ UNCHANGED <<env, outside, admittedBy, captured, ran, workers, age>>

\* Slip: the worker reads its inputs anew.
StartWorkerAfresh ==
    /\ phase = "chain"
    /\ env.armed => age < env.bound["timeout"]
    /\ workers' = 1
    /\ ran' = Delivered(mat)
    /\ phase' = "working"
    /\ UNCHANGED <<env, outside, journal, codes, admittedBy, captured, chain, age>>

\* Slip: the start of the worker is journalled as one more running state.
StartWorkerAnnounced ==
    /\ phase = "chain"
    /\ env.armed => age < env.bound["timeout"]
    /\ workers' = 1
    /\ ran' = Delivered(captured)
    /\ phase' = "working"
    /\ journal' = State("running", 1)
    /\ UNCHANGED <<env, outside, codes, admittedBy, captured, chain, age>>

\* The last helper starts the worker, under the same expiry.
StartWorker ==
    /\ phase = "chain"
    /\ env.armed => age < env.bound["timeout"]
    /\ workers' = 1
    /\ ran' = Delivered(captured)
    /\ phase' = "working"
    /\ UNCHANGED <<env, outside, journal, codes, admittedBy, captured, chain, age>>

\* Slip: no worker ran, so the attempt is refused.
HelperFailureRefused ==
    /\ phase = "chain"
    /\ phase' = "refused"
    /\ journal' = Refusal
    /\ UNCHANGED <<env, outside, codes, admittedBy, captured, ran, chain, workers, age>>

\* x-process-boundary.zero_launch: a helper fails before the worker; running ->
\* finished, termination failed_to_start.
HelperFails ==
    /\ phase = "chain"
    /\ phase' = "finished"
    /\ journal' = Finish
    /\ UNCHANGED <<env, outside, codes, admittedBy, captured, ran, chain, workers, age>>

\* The worker ends by itself, or what is left after a cancellation is reaped.
Complete ==
    /\ phase \in {"working", "cancelling"}
    /\ phase' = "finished"
    /\ journal' = Finish
    /\ UNCHANGED <<env, outside, codes, admittedBy, captured, ran, chain, workers, age>>

Cancel ==
    /\ phase \in {"chain", "working"}
    /\ phase' = "cancelling"
    /\ journal' = State("cancelling", workers)
    /\ UNCHANGED <<env, outside, codes, admittedBy, captured, ran, chain, workers, age>>

\* Slip: the deadline is armed by the worker's start.
ExpireOfWorker ==
    /\ env.armed
    /\ age >= env.bound["timeout"]
    /\ phase \in {"working", "cancelling"}
    /\ phase' = "finished"
    /\ journal' = Finish
    /\ UNCHANGED <<env, outside, codes, admittedBy, captured, ran, chain, workers, age>>

\* x-process-boundary.deadline: it starts with the first process of the chain
\* and terminates the whole group, whichever of its processes is running.
Expire ==
    /\ env.armed
    /\ age >= env.bound["timeout"]
    /\ Running
    /\ phase' = "finished"
    /\ journal' = Finish
    /\ UNCHANGED <<env, outside, codes, admittedBy, captured, ran, chain, workers, age>>

Tick ==
    /\ Running
    /\ age < MaxAge
    /\ age' = age + 1
    /\ UNCHANGED <<env, outside, phase, journal, codes, admittedBy, captured, ran,
                   chain, workers>>

Next ==
    \/ Admit \/ Capture \/ Walk \/ Launch
    \/ MaterialChanges \/ ContextChanges
    \/ StartWorker \/ HelperFails \/ Complete \/ Cancel
    \/ Expire \/ Tick

Spec == Init /\ [][Next]_vars

\* The clock runs and the harness's timer fires; nobody owes anything else.
FairSpec == Spec /\ WF_vars(Tick) /\ WF_vars(Expire)

-----------------------------------------------------------------------------
\* The worker runs with exactly what the admitted envelope binds, part by part
\* and with the tree it binds, however often material and workspace changed
\* since, before, during or after the capture; nothing of it is unbindable.
WorkerRunsWhatWasBound ==
    workers > 0 => ran = [used |-> env.bound, tree |-> env.tree] /\ captured.flaws = {}

\* Instructions, references and executables that come from the workspace are the
\* bytes of the one regular file the worker's tree has at their path, though
\* they and the tree were read at different times.
SourcesAreTreeFiles ==
    workers > 0 =>
    \A p \in DOMAIN env.sources :
        LET here == {e \in ran.tree.entries : e[1] = env.sources[p]}
        IN  \E e \in here : here = {e} /\ e[2] # "symlink" /\ e[3] = ran.used[p]

\* In whatever order the walk lists the workspace, the capture is the manifest of
\* a tree some file system could hold, or is refused when there is none, a file
\* two levels above another listed path included.
CaptureIsATree ==
    phase = "submitted" =>
    \A listing \in Reorderings(mat.capture) :
        r2_capture_manifest(listing) = TreeManifest(mat.capture)

\* The attempt as its client sees it: what it ordered, and what came of it.
Launches == INSTANCE SealedLaunch WITH
    ordered <- [used |-> env.bound, tree |-> env.tree],
    processes <- chain,
    handed <- ran,
    ending <- IF phase \in {"refused", "finished"} THEN phase ELSE "open"

\* Whatever changes around it and however it is cancelled, fails or expires, the
\* attempt is refused before any process of the launch chain was started, or its chain
\* is started once, its worker at most once and with what the envelope binds, and
\* it ends once.
ImplementsSealedLaunch == Launches!Spec

\* An attempt that ends refused has started no process of the launch chain, and
\* once one has started the attempt never ends refused.
RefusedMeansZeroLaunch ==
    phase = "refused" => chain = 0 /\ workers = 0

\* The journal the harness writes is one the journal rules accept.
JournalIsAccepted == Journal!JournalCodes(<<journal>>) = {}

\* Whoever was launched had, when admitted, exactly one qualification record for
\* its route, and that one record covers every grant; a second copy of the
\* record, or two records that cover a grant each, do not do.
OneRecordVouches ==
    chain > 0 =>
    \E i \in DOMAIN admittedBy.records :
        LET record == admittedBy.records[i]
        IN  /\ record.key = r2_route_key(env)
            /\ env.grants \subseteq record.grants
            /\ \A j \in DOMAIN admittedBy.records \ {i} : admittedBy.records[j].key # record.key

\* A run with an armed deadline comes to its end, in a helper that hangs too.
ArmedRunEnds == Running /\ env.armed ~> phase = "finished"
=============================================================================
