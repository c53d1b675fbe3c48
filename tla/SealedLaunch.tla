----------------------------- MODULE SealedLaunch -----------------------------
(***************************************************************************)
(* What an attempt promises, without stages, captures, materials and       *)
(* clocks: an order is refused while nothing has been started for it, or   *)
(* its processes are started once, hand over at most once, and then what   *)
(* was ordered and nothing else, and come to one end.                      *)
(***************************************************************************)
EXTENDS Naturals

CONSTANTS Nothing

VARIABLES
    ordered,     \* what is to be handed over
    processes,   \* the chains of processes started for it
    handed,      \* what was handed over
    ending       \* "open", "refused" or "finished"

vars == <<ordered, processes, handed, ending>>

Init == processes = 0 /\ handed = Nothing /\ ending = "open"

Refuse ==
    /\ ending = "open" /\ processes = 0
    /\ ending' = "refused"
    /\ UNCHANGED <<ordered, processes, handed>>

Start ==
    /\ ending = "open" /\ processes = 0
    /\ processes' = 1
    /\ UNCHANGED <<ordered, handed, ending>>

HandOver ==
    /\ ending = "open" /\ processes = 1 /\ handed = Nothing
    /\ handed' = ordered
    /\ UNCHANGED <<ordered, processes, ending>>

Finish ==
    /\ ending = "open" /\ processes = 1
    /\ ending' = "finished"
    /\ UNCHANGED <<ordered, processes, handed>>

Next == Refuse \/ Start \/ HandOver \/ Finish

Spec == Init /\ [][Next]_vars
==============================================================================
