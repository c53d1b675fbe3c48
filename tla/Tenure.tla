-------------------------------- MODULE Tenure --------------------------------
(***************************************************************************)
(* What a hard lease promises, without stores, events or clients: a        *)
(* resource has at most one owner, an owner keeps it until it gives it up  *)
(* or until the announced instant `until' is reached, and at that instant  *)
(* (not after it) the resource is free.                                    *)
(***************************************************************************)
EXTENDS Integers

CONSTANTS Owners, Nobody

VARIABLES clock, owner, until

vars == <<clock, owner, until>>

Free == owner = Nobody

Init == clock = 0 /\ owner = Nobody /\ until = 0

\* Only a free resource is taken; nobody takes it from its owner.
Take(h) ==
    /\ Free
    /\ owner' = h
    /\ until' > clock
    /\ clock' = clock

\* The owner moves its deadline; it never moves it to the past.
Extend ==
    /\ ~Free
    /\ until' > clock
    /\ UNCHANGED <<clock, owner>>

GiveUp ==
    /\ ~Free
    /\ owner' = Nobody /\ until' = 0
    /\ clock' = clock

\* Time passes; the tenure ends exactly when its deadline is reached.
Pass ==
    /\ clock' > clock
    /\ IF ~Free /\ clock' >= until
       THEN owner' = Nobody /\ until' = 0
       ELSE UNCHANGED <<owner, until>>

Next == (\E h \in Owners : Take(h)) \/ Extend \/ GiveUp \/ Pass

Spec == Init /\ [][Next]_vars
==============================================================================
