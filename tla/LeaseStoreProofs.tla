--------------------------- MODULE LeaseStoreProofs ---------------------------
(***************************************************************************)
(* Proofs about LeaseStore, for every set of agents, ids and TTLs.         *)
(***************************************************************************)
EXTENDS LeaseStore, TLAPS

\* Typing of the projection's loop body, for the four kinds of event.
LEMMA AcquireTyped ==
    ASSUME NEW lse \in Lease \cup {None}, NEW h \in Holders, NEW id \in LeaseIds,
           NEW ttl \in Ttls, NEW at \in Nat, NEW m \in Modes
    PROVE  /\ Project(lse, Acquire(h, id, ttl, at), m) \in Lease
           /\ Project(lse, Acquire(h, id, ttl, at), m).holder = h
           /\ Project(lse, Acquire(h, id, ttl, at), m).mode = m
           /\ Project(lse, Acquire(h, id, ttl, at), m).heartbeat_at = at
           /\ Project(lse, Acquire(h, id, ttl, at), m).ttl_seconds = ttl
BY DEF Project, Acquire, Lease

\* A renew only moves the heartbeat of a lease (the renew branch of the fold).
LEMMA RenewTyped ==
    ASSUME NEW lse \in Lease, NEW at \in Nat, NEW m \in Modes
    PROVE  Project(lse, Event("renew", lse.holder, lse.lease_id, at), m)
           = [lse EXCEPT !.heartbeat_at = at]
BY NoneIsNoLease DEF Project, Event, Lease

\* A release or an expire event leaves the lease or removes it.
LEMMA ClearTyped ==
    ASSUME NEW lse \in Lease, NEW h, NEW at \in Nat, NEW m \in Modes,
           NEW kind \in {"release", "expire"}
    PROVE  Project(lse, Event(kind, h, lse.lease_id, at), m) = None
BY NoneIsNoLease DEF Project, Event, Lease

\* The effective mode is one of the two modes.
LEMMA ModeTyped == ASSUME TypeOK PROVE Mode \in Modes
BY DEF TypeOK, Mode, EffectiveMode, Modes

\* The inductive invariant holds before the first event.
LEMMA InitInv == Init => IInv
<1> SUFFICES ASSUME Init PROVE IInv
  OBVIOUS
<1>1. TypeOK
  BY DEF Init, TypeOK
<1>2. \A h \in Holders : grant[h] = None /\ pending[h] = None
  BY DEF Init
<1> QED
  BY <1>1, <1>2 DEF Init, IInv, HoldsHard

\* A step that replaces the lease by a grant just made to h, while nobody else's
\* hard grant runs, keeps IInv: the common part of the three granting actions.
LEMMA GrantKeepsInv ==
    ASSUME IInv, NEW h \in Holders,
           lease' \in Lease, lease'.holder = h, lease'.mode = Mode,
           grant' = [grant EXCEPT ![h] = lease'],
           UNCHANGED <<requested, atomic, now>>,
           \A g \in Holders \ {h} : ~HoldsHard(g),
           pending' \in [Holders -> Request \cup {None}],
           \A g \in Holders : pending'[g] # None => pending[g] # None
    PROVE  IInv'
<1>1. TypeOK'
  BY DEF IInv, TypeOK
<1>2. Mode' = Mode
  BY DEF Mode
<1>3. ASSUME NEW g \in Holders
      PROVE  /\ grant'[g] # None => grant'[g].holder = g /\ grant'[g].mode = Mode'
             /\ HoldsHard(g)' => lease' = grant'[g]
             /\ pending'[g] # None => ~atomic'
  <2>1. CASE g = h
    BY <2>1, <1>2 DEF IInv, TypeOK
  <2>2. CASE g # h
    <3>1. grant'[g] = grant[g]
      BY <2>2 DEF IInv, TypeOK
    <3>2. HoldsHard(g)' <=> HoldsHard(g)
      BY <3>1 DEF HoldsHard, Lapsed
    <3> QED
      BY <2>2, <3>1, <3>2, <1>2 DEF IInv
  <2> QED
    BY <2>1, <2>2
<1>4. grant'[lease'.holder] = lease'
  BY DEF IInv, TypeOK
<1> QED
  BY <1>1, <1>2, <1>3, <1>4 DEF IInv

\* Nobody holds the scope in hard mode while the view is empty.
LEMMA EmptyView ==
    ASSUME IInv, View = None, NEW h \in Holders
    PROVE  ~HoldsHard(h)
BY DEF IInv, HoldsHard, View, CutOff

\* In soft mode nobody ever does.
LEMMA SoftMode ==
    ASSUME IInv, Mode # "hard", NEW h \in Holders
    PROVE  ~HoldsHard(h)
BY DEF IInv, HoldsHard

\* Every operation of the store, a crash and the clock preserve the inductive invariant.
LEMMA StepInv == IInv /\ [Next]_vars => IInv'
<1> SUFFICES ASSUME IInv, [Next]_vars PROVE IInv'
  OBVIOUS
<1> USE DEF Record
<1>t. TypeOK /\ Mode \in Modes
  BY ModeTyped DEF IInv
<1>1. ASSUME NEW h \in Holders, NEW id \in LeaseIds, NEW ttl \in Ttls, AcquireAtomic(h, id, ttl)
      PROVE  IInv'
  <2>1. lease' \in Lease /\ lease'.holder = h /\ lease'.mode = Mode
    <3>1. lease' = Project(lease, Acquire(h, id, ttl, now), Mode)
      BY <1>1 DEF AcquireAtomic
    <3>2. now \in Nat /\ lease \in Lease \cup {None}
      BY <1>t DEF TypeOK
    <3> QED
      BY <1>t, <3>1, <3>2 DEF Project, Acquire, Lease
  <2>2. \A g \in Holders : ~HoldsHard(g)
    BY <1>1, EmptyView DEF AcquireAtomic
  <2> QED
    BY <1>1, <1>t, <2>1, <2>2, GrantKeepsInv DEF AcquireAtomic, TypeOK
<1>2. ASSUME NEW h \in Holders, NEW id \in LeaseIds, NEW ttl \in Ttls, AcquireCheck(h, id, ttl)
      PROVE  IInv'
  <2>1. TypeOK'
    BY <1>2, <1>t DEF AcquireCheck, TypeOK, Request
  <2>2. Mode' = Mode /\ \A g \in Holders : HoldsHard(g)' <=> HoldsHard(g)
    BY <1>2 DEF AcquireCheck, Mode, HoldsHard, Lapsed
  <2> QED
    BY <1>2, <2>1, <2>2 DEF AcquireCheck, IInv
<1>3. ASSUME NEW h \in Holders, AcquireRecord(h)
      PROVE  IInv'
  <2>1. pending[h] \in Request
    BY <1>3, <1>t DEF AcquireRecord, TypeOK
  <2>2. lease' \in Lease /\ lease'.holder = h /\ lease'.mode = Mode
    <3>1. lease' = Project(lease, Acquire(h, pending[h].lease_id, pending[h].ttl_seconds, now), Mode)
      BY <1>3 DEF AcquireRecord
    <3>2. now \in Nat /\ lease \in Lease \cup {None}
      BY <1>t DEF TypeOK
    <3>3. pending[h].lease_id \in LeaseIds /\ pending[h].ttl_seconds \in Ttls
      BY <2>1 DEF Request
    <3> QED
      BY <1>t, <3>1, <3>2, <3>3, AcquireTyped
  <2>3. ~atomic
    BY <1>3 DEF AcquireRecord, IInv
  <2>4. \A g \in Holders : ~HoldsHard(g)
    BY <2>3, SoftMode DEF Mode, EffectiveMode
  <2>5. /\ pending' \in [Holders -> Request \cup {None}]
        /\ \A g \in Holders : pending'[g] # None => pending[g] # None
    BY <1>3, <1>t DEF AcquireRecord, TypeOK
  <2> QED
    BY <1>3, <2>2, <2>4, <2>5, GrantKeepsInv DEF AcquireRecord
<1>4. ASSUME NEW h \in Holders, Renew(h)
      PROVE  IInv'
  <2>1. CASE HeldBy(h, grant[h].lease_id)
    <3>1. lease \in Lease /\ lease.holder = h /\ lease.lease_id = grant[h].lease_id
      BY <2>1, <1>t DEF HeldBy, View, CutOff, TypeOK
    <3>2. lease' = [lease EXCEPT !.heartbeat_at = now]
      <4>1. lease' = Project(lease, Event("renew", lease.holder, lease.lease_id, now), Mode)
        BY <1>4, <2>1, <3>1 DEF Renew
      <4>2. now \in Nat
        BY <1>t DEF TypeOK
      <4> QED
        BY <1>t, <3>1, <4>1, <4>2, RenewTyped
    <3>3. lease' \in Lease /\ lease'.holder = h /\ lease'.mode = Mode
      BY <3>1, <3>2, <1>t, NoneIsNoLease DEF Lease, TypeOK, IInv
    <3>4. \A g \in Holders \ {h} : ~HoldsHard(g)
      BY <3>1 DEF IInv, HoldsHard
    <3> QED
      BY <1>4, <2>1, <1>t, <3>3, <3>4, GrantKeepsInv DEF Renew, TypeOK
  <2>2. CASE ~HeldBy(h, grant[h].lease_id)
    <3>1. /\ lease' = lease /\ grant' = [grant EXCEPT ![h] = None]
          /\ UNCHANGED <<requested, atomic, now, pending>>
      BY <1>4, <2>2 DEF Renew
    <3>2. TypeOK' /\ Mode' = Mode
      BY <3>1, <1>t DEF TypeOK, Mode
    <3>3. \A g \in Holders : grant'[g] = None \/ grant'[g] = grant[g]
      BY <3>1, <1>t DEF TypeOK
    <3>4. \A g \in Holders : HoldsHard(g)' => HoldsHard(g) /\ grant'[g] = grant[g]
      BY <3>1, <3>3 DEF HoldsHard, Lapsed
    <3> QED
      BY <3>1, <3>2, <3>3, <3>4 DEF IInv
  <2> QED
    BY <2>1, <2>2
<1>5. ASSUME NEW h \in Holders, Release(h)
      PROVE  IInv'
  <2>1. \/ lease' = lease
        \/ lease' = None /\ lease # None /\ lease.holder = h
    <3>1. CASE HeldBy(h, grant[h].lease_id)
      <4>1. lease \in Lease /\ lease.holder = h /\ lease.lease_id = grant[h].lease_id
        BY <3>1, <1>t DEF HeldBy, View, CutOff, TypeOK
      <4>2. lease' = None
        <5>1. lease' = Project(lease, Event("release", h, lease.lease_id, now), Mode)
          BY <1>5, <3>1, <4>1 DEF Release
        <5>2. now \in Nat
          BY <1>t DEF TypeOK
        <5> QED
          BY <1>t, <4>1, <5>1, <5>2, ClearTyped
      <4> QED
        BY <4>1, <4>2, NoneIsNoLease
    <3>2. CASE ~HeldBy(h, grant[h].lease_id)
      BY <1>5, <3>2 DEF Release
    <3> QED
      BY <3>1, <3>2
  <2>2. TypeOK' /\ Mode' = Mode
    BY <1>5, <1>t, <2>1 DEF Release, TypeOK, Mode
  <2>3. grant'[h] = None /\ \A g \in Holders \ {h} : grant'[g] = grant[g]
    BY <1>5, <1>t DEF Release, TypeOK
  <2>4. \A g \in Holders : HoldsHard(g)' => HoldsHard(g) /\ g # h
    BY <1>5, <2>3 DEF Release, HoldsHard, Lapsed
  <2> QED
    BY <1>5, <2>1, <2>2, <2>3, <2>4 DEF Release, IInv
<1>6. ASSUME NEW h \in Holders, Crash(h)
      PROVE  IInv'
  <2>1. TypeOK' /\ Mode' = Mode
    BY <1>6, <1>t DEF Crash, TypeOK, Mode
  <2>2. \A g \in Holders : /\ grant'[g] = None \/ grant'[g] = grant[g]
                           /\ pending'[g] = None \/ pending'[g] = pending[g]
    BY <1>6, <1>t DEF Crash, TypeOK
  <2>3. \A g \in Holders : HoldsHard(g)' => HoldsHard(g) /\ grant'[g] = grant[g]
    BY <1>6, <2>2 DEF Crash, HoldsHard, Lapsed
  <2> QED
    BY <1>6, <2>1, <2>2, <2>3 DEF Crash, IInv
<1>7. ASSUME Expire
      PROVE  IInv'
  <2>1. lease \in Lease /\ lease' = None
    BY <1>7, <1>t, ClearTyped DEF Expire, TypeOK
  <2>2. TypeOK' /\ Mode' = Mode
    BY <1>7, <1>t, <2>1 DEF Expire, TypeOK, Mode
  <2>3. \A g \in Holders : ~HoldsHard(g)'
    BY <1>7 DEF Expire, IInv, HoldsHard, Lapsed
  <2> QED
    BY <1>7, <2>1, <2>2, <2>3 DEF Expire, IInv
<1>8. ASSUME Tick
      PROVE  IInv'
  <2>1. TypeOK' /\ Mode' = Mode
    BY <1>8, <1>t DEF Tick, TypeOK, Mode
  <2>2. ASSUME NEW g \in Holders, HoldsHard(g)'
        PROVE  HoldsHard(g)
    <3>1. grant[g] \in Lease
      BY <2>2, <1>8, <1>t DEF HoldsHard, Tick, TypeOK
    <3>2. grant[g].heartbeat_at \in Nat /\ grant[g].ttl_seconds \in Nat
      BY <3>1, TtlsPositive DEF Lease
    <3> QED
      BY <2>2, <1>8, <1>t, <3>2 DEF HoldsHard, Tick, Lapsed, TypeOK
  <2> QED
    BY <1>8, <2>1, <2>2 DEF Tick, IInv
<1>9. CASE UNCHANGED vars
  BY <1>9 DEF vars, IInv, TypeOK, Mode, HoldsHard, Lapsed
<1> QED
  BY <1>1, <1>2, <1>3, <1>4, <1>5, <1>6, <1>7, <1>8, <1>9 DEF Next

\* Grants, the fold's lease and the acquires under way fit together in every
\* reachable state.
THEOREM StoreInvariant == Spec => []IInv
BY InitInv, StepInv, PTL DEF Spec

\* Every variable keeps its type in every behaviour of the store.
THEOREM TypeCorrect == Spec => []TypeOK
<1>1. IInv => TypeOK
  BY DEF IInv
<1> QED
  BY InitInv, StepInv, <1>1, PTL DEF Spec

\* At most one agent holds the scope in hard mode, for any number of agents.
THEOREM HardExclusion == Spec => []HardExclusive
<1>1. IInv => HardExclusive
  BY DEF IInv, HardExclusive, HoldsHard
<1> QED
  BY InitInv, StepInv, <1>1, PTL DEF Spec

\* A running hard grant is what the projection of the events shows.
THEOREM HardGrantIsShown == Spec => []HardGrantShown
<1>1. IInv => HardGrantShown
  BY DEF IInv, HardGrantShown, HoldsHard, View, CutOff
<1> QED
  BY InitInv, StepInv, <1>1, PTL DEF Spec

\* What a granting step shows: with a TTL of at least one the new lease is not
\* lapsed at the instant it is recorded.
LEMMA FreshShown ==
    ASSUME NEW l \in Lease, NEW t \in Nat, l.heartbeat_at = t
    PROVE  CutOff(l, t) = l /\ ~Lapsed(l, t) /\ l.heartbeat_at + l.ttl_seconds > t
<1>1. l.ttl_seconds \in Nat \ {0}
  BY TtlsPositive DEF Lease
<1> QED
  BY <1>1 DEF CutOff, Lapsed

\* The facts about the granting and clearing steps that both theorems below use.
LEMMA AcquireEffect ==
    ASSUME IInv, NEW h \in Holders, NEW id \in LeaseIds, NEW ttl \in Ttls,
           AcquireAtomic(h, id, ttl)
    PROVE  /\ View = None /\ now' = now /\ Mode' = Mode
           /\ lease' \in Lease /\ lease'.holder = h /\ View' = lease'
           /\ lease'.heartbeat_at + lease'.ttl_seconds > now
<1>1. TypeOK /\ Mode \in Modes
  BY ModeTyped DEF IInv
<1>2. lease' = Project(lease, Acquire(h, id, ttl, now), Mode) /\ View = None /\ now' = now
  BY DEF AcquireAtomic, Record
<1>3. now \in Nat /\ lease \in Lease \cup {None}
  BY <1>1 DEF TypeOK
<1>4. lease' \in Lease /\ lease'.holder = h /\ lease'.heartbeat_at = now
  BY <1>1, <1>2, <1>3 DEF Project, Acquire, Lease
<1>5. Mode' = Mode
  BY DEF AcquireAtomic, Mode
<1> QED
  BY <1>2, <1>3, <1>4, <1>5, FreshShown DEF View

\* In the terms of the view: a renew by its holder keeps the lease in it.
LEMMA RenewEffect ==
    ASSUME IInv, NEW h \in Holders, Renew(h)
    PROVE  /\ now' = now /\ Mode' = Mode
           /\ \/ lease' = lease
              \/ /\ View = lease /\ lease \in Lease /\ lease.holder = h
                 /\ lease' \in Lease /\ lease'.holder = h /\ View' = lease'
                 /\ lease'.heartbeat_at + lease'.ttl_seconds > now
<1>1. TypeOK /\ Mode \in Modes
  BY ModeTyped DEF IInv
<1>2. now' = now /\ Mode' = Mode
  BY DEF Renew, Mode
<1>3. CASE ~HeldBy(h, grant[h].lease_id)
  BY <1>2, <1>3 DEF Renew
<1>4. CASE HeldBy(h, grant[h].lease_id)
  <2>1. View = lease /\ lease \in Lease /\ lease.holder = h /\ lease.lease_id = grant[h].lease_id
    BY <1>4, <1>1 DEF HeldBy, View, CutOff, TypeOK
  <2>2. lease' = Project(lease, Event("renew", lease.holder, lease.lease_id, now), Mode)
    BY <1>4, <2>1 DEF Renew, Record
  <2>3. now \in Nat
    BY <1>1 DEF TypeOK
  <2>4. lease' = [lease EXCEPT !.heartbeat_at = now]
    BY <1>1, <2>1, <2>2, <2>3, RenewTyped
  <2>5. lease' \in Lease /\ lease'.holder = h /\ lease'.heartbeat_at = now
    BY <2>1, <2>3, <2>4 DEF Lease
  <2> QED
    BY <1>2, <2>1, <2>3, <2>5, FreshShown DEF View
<1> QED
  BY <1>3, <1>4

\* In the terms of the view: a release empties it only if the caller held it.
LEMMA ReleaseEffect ==
    ASSUME IInv, NEW h \in Holders, Release(h)
    PROVE  /\ now' = now /\ Mode' = Mode /\ grant'[h] = None
           /\ \/ lease' = lease
              \/ View = lease /\ lease \in Lease /\ lease.holder = h /\ lease' = None
<1>1. TypeOK /\ Mode \in Modes
  BY ModeTyped DEF IInv
<1>2. now' = now /\ Mode' = Mode /\ grant'[h] = None
  BY <1>1 DEF Release, Mode, TypeOK
<1>3. CASE ~HeldBy(h, grant[h].lease_id)
  BY <1>2, <1>3 DEF Release
<1>4. CASE HeldBy(h, grant[h].lease_id)
  <2>1. View = lease /\ lease \in Lease /\ lease.holder = h /\ lease.lease_id = grant[h].lease_id
    BY <1>4, <1>1 DEF HeldBy, View, CutOff, TypeOK
  <2>2. lease' = Project(lease, Event("release", h, lease.lease_id, now), Mode)
    BY <1>4, <2>1 DEF Release, Record
  <2>3. now \in Nat
    BY <1>1 DEF TypeOK
  <2> QED
    BY <1>1, <1>2, <2>1, <2>2, <2>3, ClearTyped
<1> QED
  BY <1>3, <1>4

\* In the terms of the view: an expire event changes nothing, the TTL has already emptied it.
LEMMA ExpireEffect ==
    ASSUME IInv, Expire
    PROVE  now' = now /\ Mode' = Mode /\ View = None /\ View' = None
<1>1. TypeOK
  BY DEF IInv
<1>2. lease \in Lease /\ lease' = None
  BY <1>1, ModeTyped, ClearTyped DEF Expire, Record, TypeOK
<1> QED
  BY <1>2 DEF Expire, Mode, View, CutOff

\* One step never takes a hard lease from its holder (HardLeaseKept, step by step).
LEMMA KeptStep == IInv /\ [Next]_vars => [\A h \in Holders : LosesOnlyRightly(h)]_vars
<1> SUFFICES ASSUME IInv, Next, NEW h \in Holders PROVE LosesOnlyRightly(h)
  BY DEF IInv
<1>1. ASSUME NEW g \in Holders, NEW id \in LeaseIds, NEW ttl \in Ttls, AcquireAtomic(g, id, ttl)
      PROVE  LosesOnlyRightly(h)
  BY <1>1, AcquireEffect DEF LosesOnlyRightly
<1>2. ASSUME NEW g \in Holders, NEW id \in LeaseIds, NEW ttl \in Ttls, AcquireCheck(g, id, ttl)
      PROVE  LosesOnlyRightly(h)
  BY <1>2 DEF AcquireCheck, LosesOnlyRightly, View
<1>3. ASSUME NEW g \in Holders, AcquireRecord(g)
      PROVE  LosesOnlyRightly(h)
  BY <1>3 DEF AcquireRecord, IInv, LosesOnlyRightly, Mode, EffectiveMode
<1>4. ASSUME NEW g \in Holders, Renew(g)
      PROVE  LosesOnlyRightly(h)
  BY <1>4, RenewEffect, NoneIsNoLease DEF LosesOnlyRightly, View
<1>5. ASSUME NEW g \in Holders, Release(g)
      PROVE  LosesOnlyRightly(h)
  <2>1. grant[g] # None
    BY <1>5 DEF Release
  <2>2. CASE lease' = lease
    BY <1>5, <2>2, ReleaseEffect DEF LosesOnlyRightly, View
  <2>3. CASE /\ View = lease /\ lease \in Lease /\ lease.holder = g /\ lease' = None
             /\ grant'[g] = None
    <3>1. grant[g] = lease
      BY <2>1, <2>3, NoneIsNoLease DEF IInv
    <3>2. View' = None
      BY <2>3 DEF View, CutOff
    <3> QED
      BY <2>3, <3>1, <3>2 DEF LosesOnlyRightly
  <2> QED
    BY <1>5, <2>2, <2>3, ReleaseEffect
<1>6. ASSUME NEW g \in Holders, Crash(g)
      PROVE  LosesOnlyRightly(h)
  BY <1>6 DEF Crash, LosesOnlyRightly, View
<1>7. ASSUME Expire
      PROVE  LosesOnlyRightly(h)
  BY <1>7, ExpireEffect DEF LosesOnlyRightly
<1>8. ASSUME Tick
      PROVE  LosesOnlyRightly(h)
  BY <1>8 DEF Tick, LosesOnlyRightly, View, CutOff
<1> QED
  BY <1>1, <1>2, <1>3, <1>4, <1>5, <1>6, <1>7, <1>8 DEF Next

\* A hard lease leaves the view only by its TTL or by its holder's release.
THEOREM HardLeaseIsKept == Spec => HardLeaseKept
BY InitInv, StepInv, KeptStep, PTL DEF Spec, HardLeaseKept

\* The empty store is the free resource of Tenure.
LEMMA TenureInit == Init => HardTenure!Init
BY DEF Init, HardTenure!Init, hardOwner, hardUntil, hardView, View, CutOff

\* Every step of the store is a step of the abstract tenure, or changes nothing
\* the tenure can see.
LEMMA TenureStep == IInv /\ [Next]_vars => [HardTenure!Next]_HardTenure!vars
<1> SUFFICES ASSUME IInv, [Next]_vars PROVE [HardTenure!Next]_HardTenure!vars
  OBVIOUS
<1> USE DEF HardTenure!Next, HardTenure!vars, HardTenure!Free, hardOwner, hardUntil, hardView
<1>0. now \in Nat /\ lease \in Lease \cup {None}
  BY DEF IInv, TypeOK
<1>1. ASSUME NEW h \in Holders, NEW id \in LeaseIds, NEW ttl \in Ttls, AcquireAtomic(h, id, ttl)
      PROVE  [HardTenure!Next]_HardTenure!vars
  <2>1. CASE Mode = "hard"
    <3>1. HardTenure!Take(h)
      BY <1>1, <2>1, AcquireEffect, NoneIsNoLease DEF HardTenure!Take
    <3> QED
      BY <3>1
  <2>2. CASE Mode # "hard"
    BY <1>1, <2>2, AcquireEffect
  <2> QED
    BY <2>1, <2>2
<1>2. ASSUME NEW h \in Holders, NEW id \in LeaseIds, NEW ttl \in Ttls, AcquireCheck(h, id, ttl)
      PROVE  [HardTenure!Next]_HardTenure!vars
  BY <1>2 DEF AcquireCheck, View, Mode
<1>3. ASSUME NEW h \in Holders, AcquireRecord(h)
      PROVE  [HardTenure!Next]_HardTenure!vars
  <2>1. Mode # "hard" /\ Mode' # "hard" /\ now' = now
    BY <1>3 DEF AcquireRecord, IInv, Mode, EffectiveMode
  <2> QED
    BY <2>1
<1>4. ASSUME NEW h \in Holders, Renew(h)
      PROVE  [HardTenure!Next]_HardTenure!vars
  <2>1. now' = now /\ Mode' = Mode
    BY <1>4, RenewEffect
  <2>2. CASE lease' = lease
    BY <2>1, <2>2 DEF View
  <2>3. CASE /\ View = lease /\ lease \in Lease /\ lease.holder = h
             /\ lease' \in Lease /\ lease'.holder = h /\ View' = lease'
             /\ lease'.heartbeat_at + lease'.ttl_seconds > now
    <3>1. CASE Mode = "hard"
      <4>1. HardTenure!Extend
        BY <2>1, <2>3, <3>1, NoneIsNoLease, NoneIsNoHolder DEF HardTenure!Extend
      <4> QED
        BY <4>1
    <3>2. CASE Mode # "hard"
      BY <2>1, <3>2
    <3> QED
      BY <3>1, <3>2
  <2> QED
    BY <1>4, <2>2, <2>3, RenewEffect
<1>5. ASSUME NEW h \in Holders, Release(h)
      PROVE  [HardTenure!Next]_HardTenure!vars
  <2>1. now' = now /\ Mode' = Mode
    BY <1>5, ReleaseEffect
  <2>2. CASE lease' = lease
    BY <2>1, <2>2 DEF View
  <2>3. CASE View = lease /\ lease \in Lease /\ lease.holder = h /\ lease' = None
    <3>1. View' = None
      BY <2>3 DEF View, CutOff
    <3>2. CASE Mode = "hard"
      <4>1. HardTenure!GiveUp
        BY <2>1, <2>3, <3>1, <3>2, NoneIsNoLease, NoneIsNoHolder DEF HardTenure!GiveUp
      <4> QED
        BY <4>1
    <3>3. CASE Mode # "hard"
      BY <2>1, <3>3
    <3> QED
      BY <3>2, <3>3
  <2> QED
    BY <1>5, <2>2, <2>3, ReleaseEffect
<1>6. ASSUME NEW h \in Holders, Crash(h)
      PROVE  [HardTenure!Next]_HardTenure!vars
  BY <1>6 DEF Crash, View, Mode
<1>7. ASSUME Expire
      PROVE  [HardTenure!Next]_HardTenure!vars
  BY <1>7, ExpireEffect
<1>8. ASSUME Tick
      PROVE  [HardTenure!Next]_HardTenure!vars
  <2>1. now' = now + 1 /\ now' > now /\ lease' = lease /\ Mode' = Mode
    BY <1>8, <1>0 DEF Tick, Mode
  <2>2. CASE hardView = None
    <3>1. hardView' = None
      <4>1. CASE Mode = "hard"
        <5>1. lease = None \/ Lapsed(lease, now)
          BY <2>2, <4>1 DEF View, CutOff
        <5>2. ASSUME lease # None
              PROVE  Lapsed(lease, now')
          <6>1. lease \in Lease /\ Lapsed(lease, now)
            BY <1>0, <5>1, <5>2
          <6>2. lease.heartbeat_at \in Nat /\ lease.ttl_seconds \in Nat
            BY <6>1, TtlsPositive DEF Lease
          <6> QED
            BY <1>0, <2>1, <6>1, <6>2 DEF Lapsed
        <5> QED
          BY <2>1, <5>2 DEF View, CutOff
      <4>2. CASE Mode # "hard"
        BY <2>1, <4>2
      <4> QED
        BY <4>1, <4>2
    <3>2. HardTenure!Pass
      BY <2>1, <2>2, <3>1 DEF HardTenure!Pass
    <3> QED
      BY <3>2
  <2>3. CASE hardView # None
    <3>1. Mode = "hard" /\ hardView = lease /\ lease \in Lease
      BY <1>0, <2>3 DEF View, CutOff
    <3>2. hardOwner # None /\ hardUntil = lease.heartbeat_at + lease.ttl_seconds
      BY <2>3, <3>1, NoneIsNoHolder DEF Lease
    <3>3. CASE Lapsed(lease, now')
      <4>1. hardView' = None
        BY <2>1, <3>3 DEF View, CutOff
      <4> QED
        BY <2>1, <3>2, <3>3, <4>1 DEF HardTenure!Pass, Lapsed
    <3>4. CASE ~Lapsed(lease, now')
      <4>1. hardView' = hardView
        BY <2>1, <3>1, <3>4, NoneIsNoLease DEF View, CutOff
      <4> QED
        BY <2>1, <3>2, <3>4, <4>1 DEF HardTenure!Pass, Lapsed
    <3> QED
      BY <3>3, <3>4
  <2> QED
    BY <2>2, <2>3
<1>9. CASE UNCHANGED vars
  BY <1>9 DEF vars, View, Mode
<1> QED
  BY <1>1, <1>2, <1>3, <1>4, <1>5, <1>6, <1>7, <1>8, <1>9 DEF Next

\* The store implements the abstract tenure.
THEOREM StoreImplementsTenure == Spec => ImplementsTenure
BY InitInv, StepInv, TenureInit, TenureStep, PTL DEF Spec, ImplementsTenure, HardTenure!Spec
==============================================================================
