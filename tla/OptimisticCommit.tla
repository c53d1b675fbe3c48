--------------------------- MODULE OptimisticCommit ---------------------------
(***************************************************************************)
(* What the apply check promises, without proposals, entries and target    *)
(* maps: work on a snapshot of shared content is committed as a whole, as  *)
(* it was done on the snapshot, or not at all.  It may only reach the      *)
(* scope, it is committed only if what it overwrites is still what was in  *)
(* the snapshot, and what others wrote beside it stays.                    *)
(***************************************************************************)
CONSTANTS Keys, Scope, Contents

VARIABLES
    shared,     \* what everybody writes
    snapshot,   \* what was there when the work began
    work        \* the snapshot as the work has left it

vars == <<shared, snapshot, work>>

Trees == [Keys -> Contents]

Changed == {k \in Keys : work[k] # snapshot[k]}

Init == shared \in Trees /\ snapshot = shared /\ work = shared

Begin ==
    /\ Changed = {}
    /\ snapshot' = shared
    /\ work' = shared
    /\ UNCHANGED shared

Work ==
    /\ Changed = {}
    /\ work' \in Trees
    /\ UNCHANGED <<shared, snapshot>>

OthersWrite ==
    /\ \E k \in Keys, c \in Contents : shared' = [shared EXCEPT ![k] = c]
    /\ UNCHANGED <<snapshot, work>>

Commit ==
    /\ Changed \subseteq Scope
    /\ \A k \in Changed : shared[k] = snapshot[k]
    /\ shared' = [k \in Keys |-> IF k \in Changed THEN work[k] ELSE shared[k]]
    /\ work' = snapshot
    /\ UNCHANGED snapshot

Abandon ==
    /\ work' = snapshot
    /\ UNCHANGED <<shared, snapshot>>

Next == Begin \/ Work \/ OthersWrite \/ Commit \/ Abandon

Spec == Init /\ [][Next]_vars
==============================================================================
