------------------------------ MODULE LeaseStore ------------------------------
(***************************************************************************)
(* The lease store of one scope and the agents that use it.  The store is  *)
(* the only source of truth: it records events, and what anyone may know   *)
(* of the lease is the projection of those events at the current time.     *)
(* A coordinator backend acquires in one step; a backend without atomic    *)
(* acquire (a local file) looks first and records later, and other agents  *)
(* run in between.  Agents crash and forget what they hold.                *)
(***************************************************************************)
EXTENDS LeaseView

CONSTANT Horizon    \* bound: no tenure is granted that would end after it

ASSUME HorizonNat == Horizon \in Nat

VARIABLES
    requested,   \* requested_mode of the scenario
    atomic,      \* atomic_backend of the scenario
    now,         \* the clock the projection is evaluated at
    lease,       \* the fold's accumulator over the events recorded so far
    pending,     \* per agent: an acquire that found the scope free, not recorded yet
    grant        \* per agent: the lease the store last told it that it holds

vars == <<requested, atomic, now, lease, pending, grant>>

Mode == EffectiveMode(requested, atomic)

\* What query answers, and what acquire, renew and release decide on.
View == CutOff(lease, now)

HeldBy(h, id) == View # None /\ View.holder = h /\ View.lease_id = id

Request == [lease_id : LeaseIds, ttl_seconds : Ttls]

Init ==
    /\ requested \in Modes
    /\ atomic \in BOOLEAN
    /\ now = 0
    /\ lease = None
    /\ pending = [h \in Holders |-> None]
    /\ grant = [h \in Holders |-> None]

\* Appending an event is one iteration of the projection's loop.
Record(e) == lease' = Project(lease, e, Mode)

\* Slip: an acquire that does not look.
AcquireUnchecked(h, id, ttl) ==
    /\ atomic
    /\ now + ttl <= Horizon
    /\ Record(Acquire(h, id, ttl, now))
    /\ grant' = [grant EXCEPT ![h] = lease']
    /\ UNCHANGED <<requested, atomic, now, pending>>

\* acquire on a backend with atomic acquire: check and append in one step.
\* A held scope answers `conflict' and nothing changes.
AcquireAtomic(h, id, ttl) ==
    /\ atomic
    /\ View = None
    /\ now + ttl <= Horizon
    /\ Record(Acquire(h, id, ttl, now))
    /\ grant' = [grant EXCEPT ![h] = lease']
    /\ UNCHANGED <<requested, atomic, now, pending>>

\* acquire without an atomic backend: the check ...
AcquireCheck(h, id, ttl) ==
    /\ ~atomic
    /\ pending[h] = None
    /\ View = None
    /\ pending' = [pending EXCEPT ![h] = [lease_id |-> id, ttl_seconds |-> ttl]]
    /\ UNCHANGED <<requested, atomic, now, lease, grant>>

\* ... and, later, the append.
AcquireRecord(h) ==
    /\ pending[h] # None
    /\ now + pending[h].ttl_seconds <= Horizon
    /\ Record(Acquire(h, pending[h].lease_id, pending[h].ttl_seconds, now))
    /\ grant' = [grant EXCEPT ![h] = lease']
    /\ pending' = [pending EXCEPT ![h] = None]
    /\ UNCHANGED <<requested, atomic, now>>

\* renew is holder-only; on a lapsed, foreign or missing lease it is rejected
\* and the agent learns that it holds nothing.
Renew(h) ==
    /\ grant[h] # None
    /\ IF HeldBy(h, grant[h].lease_id)
       THEN /\ now + lease.ttl_seconds <= Horizon
            /\ Record(Event("renew", h, grant[h].lease_id, now))
            /\ grant' = [grant EXCEPT ![h] = lease']
       ELSE /\ grant' = [grant EXCEPT ![h] = None]
            /\ lease' = lease
    /\ UNCHANGED <<requested, atomic, now, pending>>

\* Slip: the agent goes on believing it holds what it released.
ReleaseUnnoticed(h) ==
    /\ grant[h] # None
    /\ HeldBy(h, grant[h].lease_id)
    /\ Record(Event("release", h, grant[h].lease_id, now))
    /\ UNCHANGED <<requested, atomic, now, pending, grant>>

\* release is holder-only too; either way the agent stops using the scope.
Release(h) ==
    /\ grant[h] # None
    /\ IF HeldBy(h, grant[h].lease_id)
       THEN Record(Event("release", h, grant[h].lease_id, now))
       ELSE lease' = lease
    /\ grant' = [grant EXCEPT ![h] = None]
    /\ UNCHANGED <<requested, atomic, now, pending>>

\* Slip: the sweeper does not look at the TTL.
ExpireAnyTime ==
    /\ lease # None
    /\ Record(Event("expire", lease.holder, lease.lease_id, now))
    /\ UNCHANGED <<requested, atomic, now, pending, grant>>

\* Auto-expiry made explicit: the store records an expire event for a lease
\* whose TTL has run out.  It may do so late or never.
Expire ==
    /\ lease # None
    /\ Lapsed(lease, now)
    /\ Record(Event("expire", lease.holder, lease.lease_id, now))
    /\ UNCHANGED <<requested, atomic, now, pending, grant>>

\* An agent crashes: it forgets its grant and any acquire under way.
Crash(h) ==
    /\ grant[h] # None \/ pending[h] # None
    /\ grant' = [grant EXCEPT ![h] = None]
    /\ pending' = [pending EXCEPT ![h] = None]
    /\ UNCHANGED <<requested, atomic, now, lease>>

Tick ==
    /\ now < Horizon
    /\ now' = now + 1
    /\ UNCHANGED <<requested, atomic, lease, pending, grant>>

Next ==
    \/ \E h \in Holders, id \in LeaseIds, ttl \in Ttls :
           AcquireAtomic(h, id, ttl) \/ AcquireCheck(h, id, ttl)
    \/ \E h \in Holders : AcquireRecord(h) \/ Renew(h) \/ Release(h) \/ Crash(h)
    \/ Expire
    \/ Tick

Spec == Init /\ [][Next]_vars

\* Time does not stop; nothing else is owed by anybody.
FairSpec == Spec /\ WF_vars(Tick)

------------------------------------------------------------------------------
\* The shape of every variable.
TypeOK ==
    /\ requested \in Modes
    /\ atomic \in BOOLEAN
    /\ now \in Nat
    /\ lease \in Lease \cup {None}
    /\ pending \in [Holders -> Request \cup {None}]
    /\ grant \in [Holders -> Lease \cup {None}]

\* An agent that, by its own grant and the clock, holds the scope in hard mode.
HoldsHard(h) ==
    /\ grant[h] # None
    /\ grant[h].mode = "hard"
    /\ ~Lapsed(grant[h], now)

\* No two agents hold the scope in hard mode at once, whatever the backend,
\* across crashes, reused lease ids, late expire events and the expiry instant.
\* (Hard mode degrades to soft exactly when the backend could break this.)
HardExclusive ==
    \A g, h \in Holders : HoldsHard(g) /\ HoldsHard(h) => g = h

\* What an agent was told and what everybody can query agree: while a hard
\* grant runs, the projection shows exactly that lease.
HardGrantShown ==
    \A h \in Holders : HoldsHard(h) => View = grant[h]

\* Inductive strengthening of HardExclusive and HardGrantShown: a running hard
\* grant is the very lease the fold holds, the holder of that lease was told of it
\* or has forgotten, every grant names the agent it was
\* given to and carries the scenario's mode, and only a backend without atomic
\* acquire has acquires under way.
IInv ==
    /\ TypeOK
    /\ lease # None => /\ lease.mode = Mode
                       /\ grant[lease.holder] \in {lease, None}
    /\ \A h \in Holders : /\ grant[h] # None => grant[h].holder = h /\ grant[h].mode = Mode
                          /\ HoldsHard(h) => lease = grant[h]
                          /\ pending[h] # None => ~atomic

\* A step that takes a hard lease out of the view, or shows another agent's, is
\* the passing of its TTL or the release by the agent that held it: nobody
\* else's acquire, renew, release, expire event or crash has that effect.
LosesOnlyRightly(h) ==
    (Mode = "hard" /\ View # None /\ View.holder = h)
    => \/ View' # None /\ View'.holder = h
       \/ View' = None /\ Lapsed(lease, now')
       \/ View' = None /\ grant[h] = lease /\ grant'[h] = None

HardLeaseKept == [][\A h \in Holders : LosesOnlyRightly(h)]_vars

\* A lease whose holder crashed heals by itself: it does not stay in the view,
\* because only its holder could renew it and its TTL is authoritative.
Leaked(h) == View # None /\ View.holder = h /\ grant[h] = None /\ pending[h] = None
LeakedLeaseHeals == \A h \in Holders : Leaked(h) ~> ~Leaked(h)

\* In hard mode the store implements the abstract tenure.
hardView  == IF Mode = "hard" THEN View ELSE None
hardOwner == IF hardView = None THEN None ELSE hardView.holder
hardUntil == IF hardView = None THEN 0 ELSE hardView.heartbeat_at + hardView.ttl_seconds

HardTenure == INSTANCE Tenure WITH
    Owners <- Holders, Nobody <- None,
    clock <- now, owner <- hardOwner, until <- hardUntil

ImplementsTenure == HardTenure!Spec
==============================================================================
