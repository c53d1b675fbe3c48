----------------------------- MODULE ApplyCheck -----------------------------
(***************************************************************************)
(* The write_scope apply check (r2_apply).  An attempt is launched from a  *)
(* copy of the protected repository; its worker changes that copy and      *)
(* returns a proposal, a sequence of entries, each on a workspace path     *)
(* that target_map takes to a protected locator.  Others keep writing the  *)
(* protected repository meanwhile.  The checker then applies the whole     *)
(* proposal or refuses it.                                                 *)
(***************************************************************************)
EXTENDS Naturals, SequencesExt

CONSTANTS
    Locators,      \* the protected locators
    Scope,         \* those equal to or under workspace.repo_relative_locators
    Paths,         \* the workspace paths a worker may touch
    TargetMap,     \* launch.workspace_state.target_map, as a function of paths
    Digests,       \* the contents files may have
    None,          \* no file, no mapping or no proposal
    MaxEntries,    \* bound on the entries of a proposal
    MaxEdits       \* bound on what others write during one attempt

ASSUME ScopeIsProtected == Scope \subseteq Locators
ASSUME NoneIsNoLocator == None \notin Locators
ASSUME TargetMapTyped ==
    DOMAIN TargetMap \subseteq Paths /\ \A p \in DOMAIN TargetMap : TargetMap[p] \in Locators

VARIABLES
    protected,     \* the protected repository: the digest at each locator, or None
    bound,         \* the protected state bound at launch
    proposal,      \* the returned proposal, or None
    outcome,       \* the x-apply-outcomes outcome of the last proposal
    edits          \* what others wrote since the launch

vars == <<protected, bound, proposal, outcome, edits>>

Contents == Digests \union {None}
Trees == [Locators -> Contents]
Sided == {"rename", "copy"}

MapsTo(path) == IF path \in DOMAIN TargetMap THEN TargetMap[path] ELSE None

\* Slip: whatever the target map names is in scope.
MappedIsInScope(path) == MapsTo(path)

\* The protected locator of a path the apply may touch, else None.
Protected(path) == IF MapsTo(path) \in Scope THEN MapsTo(path) ELSE None

Touched(e) == {e.path} \union IF e.op \in Sided THEN {e.from} ELSE {}

\* Slip: only entries that create a file are checked against the base.
StaleIfPresent(before, e) ==
    e.op \in {"add", "rename", "copy"} /\ before[Protected(e.path)] # None

Stale(before, e) ==
    \/ e.op \in {"modify", "delete"} /\ before[Protected(e.path)] # e.base
    \/ e.op \in {"add", "rename", "copy"} /\ before[Protected(e.path)] # None
    \/ e.op \in Sided /\ before[Protected(e.from)] # e.base

\* after.pop(l): the entry raises when an earlier one has removed it.
Popped(e) ==
    IF e.op = "delete" THEN {Protected(e.path)}
    ELSE IF e.op = "rename" THEN {Protected(e.from)} ELSE {}

\* Slip: a rename is applied as a copy.
ApplyRenameAsCopy(e, tree) ==
    [l \in Locators |->
        IF l = Protected(e.path) THEN IF e.op = "delete" THEN None ELSE e.new
        ELSE tree[l]]

ApplyEntry(e, tree) ==
    [l \in Locators |->
        IF l = Protected(e.path) THEN IF e.op = "delete" THEN None ELSE e.new
        ELSE IF l \in Popped(e) THEN None ELSE tree[l]]

\* Entry by entry, each judged against `before` and written to `after`, until
\* one is stale or pops what is no longer there.
Step(before, e, sofar) ==
    IF sofar.outcome # "proposal_applied" THEN sofar
    ELSE IF Stale(before, e) THEN [outcome |-> "proposal_stale", after |-> before]
    ELSE IF \E l \in Popped(e) : sofar.after[l] = None
    THEN [outcome |-> "raised", after |-> before]
    ELSE [sofar EXCEPT !.after = ApplyEntry(e, @)]

r2_apply(before, p) ==
    LET refuse(code) == [outcome |-> code, after |-> before]
        entries == Range(p.entries)
    IN  IF ~p.digest_recorded THEN refuse("proposal_digest_mismatch")
        ELSE IF \E e \in entries : ~e.attributable THEN refuse("proposal_unattributable")
        ELSE IF \E e \in entries : ~e.plain_file THEN refuse("proposal_entry_unsupported")
        ELSE IF \E e \in entries : \E path \in Touched(e) : Protected(path) = None
        THEN refuse("proposal_out_of_scope")
        ELSE FoldLeft(LAMBDA sofar, e : Step(before, e, sofar),
                      [outcome |-> "proposal_applied", after |-> before], p.entries)

----------------------------------------------------------------------------
\* The entries a worker returns: it changes the copy made at launch, so what it
\* gives as the base of an entry is what was bound there.
Copied(path) == IF MapsTo(path) = None THEN None ELSE bound[MapsTo(path)]

Entry(op, path, from, base, new) ==
    [op |-> op, path |-> path, from |-> from, base |-> base, new |-> new,
     attributable |-> TRUE, plain_file |-> TRUE]

WorkerEntries ==
    {Entry("modify", p, p, Copied(p), d) : p \in {q \in Paths : Copied(q) # None}, d \in Digests}
    \union {Entry("add", p, p, None, d) : p \in {q \in Paths : Copied(q) = None}, d \in Digests}
    \union {Entry("delete", p, p, Copied(p), None) : p \in {q \in Paths : Copied(q) # None}}
    \union {Entry(op, p, f, Copied(f), Copied(f)) :
               op \in Sided, p \in {q \in Paths : Copied(q) = None},
               f \in {q \in Paths : Copied(q) # None}}

\* Nor can an entry be attributed, nor is it a plain file, whatever it says.
Odd(e) == {e, [e EXCEPT !.attributable = FALSE], [e EXCEPT !.plain_file = FALSE]}

Init ==
    /\ protected \in Trees
    /\ bound = protected
    /\ proposal = None
    /\ outcome = "none"
    /\ edits = 0

Launch ==
    /\ outcome # "none"
    /\ bound' = protected
    /\ outcome' = "none"
    /\ edits' = 0
    /\ UNCHANGED <<protected, proposal>>

Edit(l, d) ==
    /\ outcome = "none"
    /\ edits < MaxEdits
    /\ protected' = [protected EXCEPT ![l] = d]
    /\ edits' = edits + 1
    /\ UNCHANGED <<bound, proposal, outcome>>

Return ==
    /\ proposal = None
    /\ outcome = "none"
    /\ \E entries \in BoundedSeq(WorkerEntries, MaxEntries), recorded \in BOOLEAN :
           \/ proposal' = [entries |-> entries, digest_recorded |-> recorded]
           \/ /\ Len(entries) = 1
              /\ \E e \in Odd(entries[1]) :
                    proposal' = [entries |-> <<e>>, digest_recorded |-> TRUE]
    /\ UNCHANGED <<protected, bound, outcome, edits>>

Apply ==
    /\ proposal # None
    /\ LET result == r2_apply(protected, proposal)
       IN  outcome' = result.outcome /\ protected' = result.after
    /\ proposal' = None
    /\ UNCHANGED <<bound, edits>>

Next ==
    \/ Launch
    \/ \E l \in Locators, d \in Contents : Edit(l, d)
    \/ Return
    \/ Apply

Spec == Init /\ [][Next]_vars

----------------------------------------------------------------------------
Applied == proposal # None /\ outcome' = "proposal_applied"
Entries == Range(proposal.entries)

\* What an entry promises of the protected repository once it is applied.
Effect(e, tree) ==
    /\ e.op # "delete" => tree[MapsTo(e.path)] = e.new
    /\ \A l \in Popped(e) : tree[l] = None

Targets(e) == {MapsTo(path) : path \in Touched(e)}

\* Whatever the paths and the target map, a proposal changes protected content
\* only at locators in scope that one of its own entries names.
ScopeHeld ==
    [][proposal # None /\ proposal' = None =>
        \A l \in Locators : protected'[l] # protected[l] =>
            l \in Scope /\ \E e \in Entries : l \in Targets(e)]_vars

\* What its worker makes of the copy: what the check would make of the repository
\* had nobody else written it.
worked == IF proposal = None THEN bound ELSE r2_apply(bound, proposal).after

Commits == INSTANCE OptimisticCommit WITH
    Keys <- Locators, shared <- protected, snapshot <- bound, work <- worked

\* Whoever writes the repository between a launch and its apply, the proposal does
\* there, in scope, what it did to the worker's copy and nothing else, or nothing at
\* all; nobody's writes are lost, neither under the proposal nor beside it.
ImplementsOptimisticCommit == Commits!Spec

\* No lost update: what a proposal overwrites or removes is what its worker
\* started from; if somebody wrote the locator since the launch, the proposal
\* that touches it is refused.
NoLostUpdate ==
    [][Applied =>
        \A l \in Locators : protected'[l] # protected[l] => protected[l] = bound[l]]_vars

\* All of it or none of it, for proposals whose entries are on distinct
\* protected locators: applied, every entry has its effect; refused (or ended
\* by an exception), no protected byte changes.
AllOrNothing ==
    [][proposal # None /\ proposal' = None =>
        IF outcome' = "proposal_applied"
        THEN (\A i, j \in DOMAIN proposal.entries : i # j =>
                Targets(proposal.entries[i]) \intersect Targets(proposal.entries[j]) = {})
             => \A e \in Entries : Effect(e, protected')
        ELSE protected' = protected]_vars

\* "apply all of it or none of it", of every applied proposal whose entries
\* are on distinct workspace paths, whatever locators the map takes them to.
AppliedWhole ==
    [][Applied /\ (\A i, j \in DOMAIN proposal.entries : i # j =>
            Touched(proposal.entries[i]) \intersect Touched(proposal.entries[j]) = {})
        => \A e \in Entries : Effect(e, protected')]_vars
=============================================================================
