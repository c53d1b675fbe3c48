------------------------------ MODULE LeaseView ------------------------------
(***************************************************************************)
(* The current-lease projection: the left fold of the append-only          *)
(* lease-event stream of one scope, then the TTL cut-off at `now'.  The    *)
(* stream only ever grows at its end, so the fold is given here by its     *)
(* loop body (Project) and its final cut-off (CutOff); a state machine     *)
(* that carries the loop variable applies Project to each event appended.  *)
(*                                                                         *)
(* Inbox messages are no argument of any operator: the projection reads    *)
(* lease events only.  A lease's scope and phase are copied, never         *)
(* examined, and are left out.                                             *)
(***************************************************************************)
EXTENDS Integers

CONSTANTS
    Holders,     \* the agents that may hold the lease
    LeaseIds,    \* lease ids; agents may reuse an id, the vectors do
    Ttls,        \* the ttl_seconds values an acquire may ask for
    None         \* the null of the view (JSON null, Python None)

ASSUME TtlsPositive == Ttls \subseteq Nat \ {0}
ASSUME NoneIsNoHolder == None \notin Holders

Modes == {"soft", "hard"}

Lease == [lease_id     : LeaseIds,
          holder       : Holders,
          acquired_at  : Nat,
          ttl_seconds  : Ttls,
          heartbeat_at : Nat,
          mode         : Modes]

ASSUME NoneIsNoLease == None \notin Lease

\* Slip: hard is granted on request, whatever the backend.
EffectiveModeAsRequested(requested, atomicBackend) == requested

\* The mode every lease of a scenario is shown with: hard needs both the
\* request and a backend whose acquire is atomic, anything else is soft.
EffectiveMode(requested, atomicBackend) ==
    IF requested = "hard" /\ atomicBackend THEN "hard" ELSE "soft"

\* Events carry the fields the fold reads.
Acquire(h, id, ttl, at) ==
    [event |-> "acquire", lease_id |-> id, holder |-> h, at |-> at, ttl_seconds |-> ttl]
Event(kind, h, id, at) ==
    [event |-> kind, lease_id |-> id, holder |-> h, at |-> at]

\* One iteration of the fold.  An acquire replaces whatever was there; a renew
\* is ignored unless id and holder match; release and expire compare the id only.
Project(lease, e, mode) ==
    LET named == lease # None /\ lease.lease_id = e.lease_id
    IN  CASE e.event = "acquire" ->
               [lease_id     |-> e.lease_id,
                holder       |-> e.holder,
                acquired_at  |-> e.at,
                ttl_seconds  |-> e.ttl_seconds,
                heartbeat_at |-> e.at,
                mode         |-> mode]
          [] e.event = "renew" ->
               IF named /\ lease.holder = e.holder
               THEN [lease EXCEPT !.heartbeat_at = e.at] ELSE lease
          [] e.event \in {"release", "expire"} ->
               IF named THEN None ELSE lease

\* Heartbeat-anchored expiry with an exclusive boundary: at the expiry instant
\* itself the lease is no longer held.
Lapsed(lease, now) == now >= lease.heartbeat_at + lease.ttl_seconds

\* Slips: a TTL that runs from the acquire; a TTL nobody enforces.
CutOffFromAcquire(lease, now) ==
    IF lease # None /\ now >= lease.acquired_at + lease.ttl_seconds THEN None ELSE lease
CutOffNever(lease, now) == lease

CutOff(lease, now) ==
    IF lease # None /\ Lapsed(lease, now) THEN None ELSE lease
==============================================================================
