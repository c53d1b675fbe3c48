------------------------- MODULE ApplyCheckProofs -------------------------
(***************************************************************************)
(* Proofs about ApplyCheck, for every set of locators, paths and digests,  *)
(* every target map and scope, and proposals of any length.                *)
(***************************************************************************)
EXTENDS ApplyCheck, FiniteSetTheorems, SequenceTheorems, WellFoundedInduction, TLAPS

\* A nonempty set of naturals has a least element.
LEMMA Least ==
    ASSUME NEW N, N \subseteq Nat, N # {}
    PROVE  \E m \in N : \A n \in N : m <= n
<1>1. PICK m \in N : \A n \in N : ~(<<n, m>> \in OpToRel(<, Nat))
  BY NatLessThanWellFounded, WFMin
<1>2. \A n \in N : ~(n < m)
  BY <1>1 DEF OpToRel
<1>3. m \in Nat /\ \A n \in N : n \in Nat
  OBVIOUS
<1> QED  BY <1>2, <1>3

-----------------------------------------------------------------------------
(* The loop over the entries.  FoldLeft recurs over the sets of indices; what *)
(* is needed of it is one turn after the other.                               *)

\* Induction from 0, with the claim given as the set it holds on.
LEMMA Climb ==
    ASSUME NEW b \in Nat, NEW N, 0 \in N,
           \A n \in 0..b : n \in N /\ n < b => n + 1 \in N
    PROVE  b \in N
<1> DEFINE Miss == {n \in Nat : n \in 0..b /\ n \notin N}
<1>1. SUFFICES ASSUME Miss # {} PROVE FALSE
  OBVIOUS
<1>2. PICK m \in Miss : \A n \in Miss : m <= n
  BY <1>1, Least
<1>3. m \in Nat /\ m \in 0..b /\ m \notin N /\ m # 0
  BY <1>2
<1>4. m - 1 \in 0..b /\ m - 1 \in Nat /\ m - 1 < b /\ (m - 1) + 1 = m
  BY <1>3
<1>5. m - 1 \notin Miss
  BY <1>2, <1>3, <1>4
<1>6. m - 1 \in N
  BY <1>4, <1>5
<1>7. m \in N
  BY <1>4, <1>6
<1> QED  BY <1>3, <1>7

\* One turn of the loop.
Turn(before, acc, e) == Step(before, e, acc)

\* The index taken first.
Greatest(s) == CHOOSE x \in s : \A y \in s : x >= y

\* The recursion of the loop, over the indices in D.
Folded(before, q, base, D, f) ==
    f = [s \in SUBSET D |-> IF s = {} THEN base
                            ELSE Turn(before, f[s \ {Greatest(s)}], q[Greatest(s)])]

\* Among the first n + 1 indices, n + 1 is taken first.
LEMMA GreatestIsNext ==
    ASSUME NEW n \in Nat, NEW s, s \subseteq 1..(n + 1), n + 1 \in s
    PROVE  Greatest(s) = n + 1
<1>1. \A y \in s : n + 1 >= y
  OBVIOUS
<1>2. \A x \in s : (\A y \in s : x >= y) => x = n + 1
  <2> TAKE x \in s
  <2>1. x \in Int /\ x <= n + 1
    OBVIOUS
  <2> QED  BY <2>1
<1>3. \E x \in s : \A y \in s : x >= y
  BY <1>1
<1> QED  BY <1>2, <1>3, Zenon DEF Greatest

\* There is such a function, over any number of turns.
LEMMA FoldedExists ==
    ASSUME NEW n \in Nat, NEW before, NEW q, NEW base
    PROVE  \E f : Folded(before, q, base, 1..n, f)
<1> DEFINE N == {k \in Nat : \E f : Folded(before, q, base, 1..k, f)}
<1>1. 0 \in N
  <2> DEFINE f == [s \in SUBSET (1..0) |-> base]
  <2>1. \A s \in SUBSET (1..0) : s = {}
    OBVIOUS
  <2>2. Folded(before, q, base, 1..0, f)
    BY <2>1 DEF Folded
  <2> HIDE DEF f
  <2> QED  BY <2>2
<1>2. ASSUME NEW k \in 0..n, k \in N, k < n PROVE k + 1 \in N
  <2>1. PICK f : Folded(before, q, base, 1..k, f)
    BY <1>2
  <2> DEFINE g == [s \in SUBSET (1..(k + 1)) |->
                      IF k + 1 \in s THEN Turn(before, f[s \ {k + 1}], q[k + 1]) ELSE f[s]]
             R(s) == IF s = {} THEN base
                     ELSE Turn(before, g[s \ {Greatest(s)}], q[Greatest(s)])
  <2>2. k \in Nat
    BY <1>2
  <2>3. \A s \in SUBSET (1..k) : s \in SUBSET (1..(k + 1)) /\ k + 1 \notin s /\ g[s] = f[s]
    <3> TAKE s \in SUBSET (1..k)
    <3>1. s \in SUBSET (1..(k + 1)) /\ k + 1 \notin s
      BY <2>2
    <3> QED  BY <3>1
  <2>4. \A s \in SUBSET (1..k) : f[s] = IF s = {} THEN base
                                        ELSE Turn(before, f[s \ {Greatest(s)}], q[Greatest(s)])
    BY <2>1, Zenon DEF Folded
  <2>5. ASSUME NEW s \in SUBSET (1..(k + 1)), k + 1 \in s PROVE g[s] = R(s)
    <3>1. Greatest(s) = k + 1 /\ s # {}
      BY <2>2, <2>5, GreatestIsNext
    <3>2. s \ {k + 1} \in SUBSET (1..k)
      BY <2>2
    <3>3. g[s \ {k + 1}] = f[s \ {k + 1}]
      BY <2>3, <3>2
    <3>4. g[s] = Turn(before, f[s \ {k + 1}], q[k + 1])
      BY <2>5
    <3> HIDE DEF g
    <3> QED  BY <3>1, <3>3, <3>4
  <2>6. ASSUME NEW s \in SUBSET (1..(k + 1)), k + 1 \notin s PROVE g[s] = R(s)
    <3>1. s \in SUBSET (1..k)
      <4>1. \A x \in s : x \in 1..(k + 1) /\ x # k + 1
        BY <2>6
      <4>2. \A x \in 1..(k + 1) : x # k + 1 => x \in 1..k
        BY <2>2
      <4> QED  BY <4>1, <4>2
    <3>4. s \ {Greatest(s)} \in SUBSET (1..k)
      BY <3>1
    <3>2. g[s] = f[s] /\ g[s \ {Greatest(s)}] = f[s \ {Greatest(s)}]
      BY <2>3, <3>1, <3>4
    <3> HIDE DEF g
    <3> QED  BY <2>4, <3>1, <3>2
  <2>7. g = [s \in SUBSET (1..(k + 1)) |-> R(s)]
    <3>1. g = [s \in SUBSET (1..(k + 1)) |-> g[s]]
      OBVIOUS
    <3>2. \A s \in SUBSET (1..(k + 1)) : g[s] = R(s)
      BY <2>5, <2>6
    <3> HIDE DEF g, R
    <3> QED  BY <3>1, <3>2, Zenon
  <2>8. Folded(before, q, base, 1..(k + 1), g)
    <3> HIDE DEF g
    <3> QED  BY <2>7, Zenon DEF Folded
  <2>9. k + 1 \in Nat
    BY <2>2
  <2> HIDE DEF g
  <2> QED  BY <2>8, <2>9
<1> HIDE DEF N
<1>3. n \in N
  BY <1>1, <1>2, Climb
<1> QED  BY <1>3 DEF N

\* The accumulator at the end of the loop.
Looped(before, base, q) == FoldLeft(LAMBDA sofar, e : Step(before, e, sofar), base, q)

\* The accumulators h, turn by turn.
Run(before, base, q, n, h) ==
    /\ Looped(before, base, q) = h[n]
    /\ h[0] = base
    /\ \A i \in 1..n : h[i] = Turn(before, h[i - 1], q[i])

\* The loop goes through some.
LEMMA Turns ==
    ASSUME NEW n \in Nat, NEW before, NEW q, DOMAIN q = 1..n, NEW base
    PROVE  \E h : Run(before, base, q, n, h)
<1> DEFINE f == CHOOSE g : Folded(before, q, base, 1..n, g)
           h == [i \in 0..n |-> f[1..i]]
<1>1. Looped(before, base, q) = f[1..n]
  BY Zenon DEF Looped, FoldLeft, MapThenFoldSet, Max, Folded, Greatest, Turn
<1>2. Folded(before, q, base, 1..n, f)
  BY FoldedExists
<1> HIDE DEF f
<1>3. \A s \in SUBSET (1..n) : f[s] = IF s = {} THEN base
                                      ELSE Turn(before, f[s \ {Greatest(s)}], q[Greatest(s)])
  BY <1>2, Zenon DEF Folded
<1>4. h[0] = base /\ h[n] = f[1..n]
  <2>1. 1..0 = {} /\ 1..0 \in SUBSET (1..n) /\ 0 \in 0..n /\ n \in 0..n
    OBVIOUS
  <2>2. h[0] = f[1..0] /\ h[n] = f[1..n]
    BY <2>1
  <2> QED  BY <1>3, <2>1, <2>2
<1>5. ASSUME NEW i \in 1..n PROVE h[i] = Turn(before, h[i - 1], q[i])
  <2>1. i \in 0..n /\ i - 1 \in 0..n /\ i - 1 \in Nat /\ (i - 1) + 1 = i
    OBVIOUS
  <2>2. 1..i \in SUBSET (1..n) /\ i \in 1..i /\ 1..i # {} /\ (1..i) \ {i} = 1..(i - 1)
    <3>1. i \in Nat /\ i >= 1 /\ i <= n /\ n \in Nat
      OBVIOUS
    <3> HIDE DEF h
    <3>2. 1..i \in SUBSET (1..n)
      BY <3>1
    <3>3. i \in 1..i /\ 1..i # {}
      BY <3>1
    <3>4. (1..i) \ {i} = 1..(i - 1)
      BY <3>1
    <3> QED  BY <3>2, <3>3, <3>4
  <2>3. Greatest(1..i) = i
    BY <2>1, <2>2, GreatestIsNext
  <2>4. h[i] = f[1..i] /\ h[i - 1] = f[1..(i - 1)]
    BY <2>1
  <2> QED  BY <1>3, <2>2, <2>3, <2>4
<1> HIDE DEF h
<1> QED  BY <1>1, <1>4, <1>5 DEF Run

-----------------------------------------------------------------------------
(* What an applied proposal has done, entry by entry.                        *)

\* The entries q led from the tree t[0] to t[Len(q)], each judged against before.
Led(before, q, t) ==
    /\ t[0] = before
    /\ \A i \in 1..Len(q) : ~Stale(before, q[i]) /\ t[i] = ApplyEntry(q[i], t[i - 1])

\* One turn: an entry is applied only when everything before it was, and whatever is
\* not applied leaves the tree of before.
LEMMA OneEntry ==
    ASSUME NEW before, NEW e, NEW sofar, NEW next, next = Turn(before, sofar, e),
           sofar = [outcome |-> sofar.outcome, after |-> sofar.after],
           sofar.outcome # "proposal_applied" => sofar.after = before
    PROVE  /\ next = [outcome |-> next.outcome, after |-> next.after]
           /\ next.outcome # "proposal_applied" => next.after = before
           /\ next.outcome = "proposal_applied" =>
                  /\ sofar.outcome = "proposal_applied"
                  /\ ~Stale(before, e)
                  /\ next.after = ApplyEntry(e, sofar.after)
<1> DEFINE o == sofar.outcome  a == sofar.after
<1>1. sofar = [outcome |-> o, after |-> a]
  OBVIOUS
<1>2. o # "proposal_applied" => a = before
  OBVIOUS
<1> HIDE DEF o, a
<1>3. CASE o # "proposal_applied"
  <2>1. next = sofar
    BY <1>1, <1>3 DEF Turn, Step
  <2> QED  BY <1>1, <1>2, <1>3, <2>1
<1>4. CASE o = "proposal_applied" /\ Stale(before, e)
  <2>1. next = [outcome |-> "proposal_stale", after |-> before]
    BY <1>1, <1>4 DEF Turn, Step
  <2> QED  BY <2>1
<1>5. CASE o = "proposal_applied" /\ ~Stale(before, e) /\ \E l \in Popped(e) : a[l] = None
  <2>1. next = [outcome |-> "raised", after |-> before]
    BY <1>1, <1>5 DEF Turn, Step
  <2> QED  BY <2>1
<1>6. CASE o = "proposal_applied" /\ ~Stale(before, e) /\ ~\E l \in Popped(e) : a[l] = None
  <2>1. next = [outcome |-> o, after |-> ApplyEntry(e, a)]
    BY <1>1, <1>6 DEF Turn, Step
  <2> QED  BY <1>1, <1>6, <2>1
<1> QED  BY <1>3, <1>4, <1>5, <1>6

\* The whole loop.
LEMMA WholeLoop ==
    ASSUME NEW before, NEW S, NEW q \in Seq(S)
    PROVE  LET result == Looped(before, [outcome |-> "proposal_applied", after |-> before], q)
           IN  /\ result.outcome # "proposal_applied" => result.after = before
               /\ result.outcome = "proposal_applied" =>
                      \E t : Led(before, q, t) /\ t[Len(q)] = result.after
<1> DEFINE base == [outcome |-> "proposal_applied", after |-> before]
           n == Len(q)
           result == Looped(before, base, q)
<1>1. n \in Nat /\ DOMAIN q = 1..n
  BY LenProperties
<1> HIDE DEF n
<1>2. PICK h : Run(before, base, q, n, h)
  BY <1>1, Turns
<1>8. /\ result = h[n]
      /\ h[0] = base
      /\ \A i \in 1..n : h[i] = Turn(before, h[i - 1], q[i])
  BY <1>2, Zenon DEF Run
<1> DEFINE Turned(j) == ~Stale(before, q[j]) /\ h[j].after = ApplyEntry(q[j], h[j - 1].after)
           N == {i \in 0..n : /\ h[i] = [outcome |-> h[i].outcome, after |-> h[i].after]
                              /\ h[i].outcome # "proposal_applied" => h[i].after = before
                              /\ h[i].outcome = "proposal_applied" => \A j \in 1..i : Turned(j)}
<1>3. 0 \in N
  <2> HIDE DEF Turned
  <2>1. h[0] = [outcome |-> "proposal_applied", after |-> before] /\ 1..0 = {} /\ 0 \in 0..n
    BY <1>1, <1>8
  <2> QED  BY <2>1
<1>4. ASSUME NEW i \in 0..n, i \in N, i < n PROVE i + 1 \in N
  <2>1. i \in Nat /\ i + 1 \in 1..n /\ i + 1 \in 0..n /\ (i + 1) - 1 = i
    BY <1>1, <1>4
  <2>2. h[i + 1] = Turn(before, h[i], q[i + 1])
    BY <1>8, <2>1
  <2> HIDE DEF Turned
  <2>3. /\ h[i] = [outcome |-> h[i].outcome, after |-> h[i].after]
        /\ h[i].outcome # "proposal_applied" => h[i].after = before
        /\ h[i].outcome = "proposal_applied" => \A j \in 1..i : Turned(j)
    BY <1>4
  <2>4. /\ h[i + 1] = [outcome |-> h[i + 1].outcome, after |-> h[i + 1].after]
        /\ h[i + 1].outcome # "proposal_applied" => h[i + 1].after = before
        /\ h[i + 1].outcome = "proposal_applied" =>
               /\ h[i].outcome = "proposal_applied"
               /\ ~Stale(before, q[i + 1])
               /\ h[i + 1].after = ApplyEntry(q[i + 1], h[i].after)
    BY <2>2, <2>3, OneEntry
  <2>5. h[i + 1].outcome = "proposal_applied" => Turned(i + 1)
    BY <2>1, <2>4 DEF Turned
  <2>6. \A j \in 1..(i + 1) : j \in 1..i \/ j = i + 1
    BY <2>1
  <2> QED  BY <2>1, <2>3, <2>4, <2>5, <2>6
<1> HIDE DEF N
<1>5. n \in N
  BY <1>1, <1>3, <1>4, Climb
<1>6. /\ h[n].outcome # "proposal_applied" => h[n].after = before
      /\ h[n].outcome = "proposal_applied" => \A j \in 1..n : Turned(j)
  <2> HIDE DEF Turned
  <2> QED  BY <1>5 DEF N
<1>7. ASSUME h[n].outcome = "proposal_applied"
      PROVE  \E t : Led(before, q, t) /\ t[n] = h[n].after
  <2> DEFINE t == [i \in 0..n |-> h[i].after]
  <2>1. t[0] = before /\ t[n] = h[n].after
    BY <1>1, <1>8
  <2>2. ASSUME NEW i \in 1..n PROVE ~Stale(before, q[i]) /\ t[i] = ApplyEntry(q[i], t[i - 1])
    <3>1. i \in 0..n /\ i - 1 \in 0..n
      BY <1>1
    <3>2. t[i] = h[i].after /\ t[i - 1] = h[i - 1].after
      BY <3>1
    <3> HIDE DEF t
    <3> QED  BY <1>6, <1>7, <3>2
  <2>3. Led(before, q, t)
    <3> HIDE DEF t
    <3> QED  BY <2>1, <2>2 DEF Led, n
  <2> HIDE DEF t
  <2> QED  BY <2>1, <2>3
<1> HIDE DEF result, base
<1> QED  BY <1>8, <1>6, <1>7 DEF result, base, n

\* The locators an entry writes.
Written(e) == {Protected(e.path)} \union Popped(e)

\* No entry of q after k and up to m writes l.
Spared(q, l, k, m) == \A i \in 1..Len(q) : k < i /\ i <= m => l \notin Written(q[i])

\* What no entry between two points writes stays.
LEMMA Untouched ==
    ASSUME NEW before, NEW S, NEW q \in Seq(S), NEW t, Led(before, q, t),
           NEW l \in Locators, NEW k \in Nat, NEW m \in Nat, k <= m, m <= Len(q),
           Spared(q, l, k, m)
    PROVE  t[m][l] = t[k][l]
<1> DEFINE n == Len(q)
           N == {d \in 0..(m - k) : t[k + d][l] = t[k][l]}
<1>1. n \in Nat
  BY LenProperties
<1>2. k \in Nat /\ m \in Nat /\ m - k \in Nat /\ m <= n
  BY <1>1
<1> HIDE DEF n
<1>3. 0 \in N
  <2>1. 0 \in 0..(m - k) /\ k + 0 = k
    BY <1>2
  <2> QED  BY <2>1
<1>4. ASSUME NEW d \in 0..(m - k), d \in N, d < m - k PROVE d + 1 \in N
  <2> DEFINE i == k + (d + 1)
  <2>1. d \in Nat /\ d + 1 \in 0..(m - k) /\ i \in 1..n /\ k < i /\ i <= m /\ i - 1 = k + d
    BY <1>1, <1>2, <1>4
  <2> HIDE DEF i
  <2>2. t[i] = ApplyEntry(q[i], t[i - 1]) /\ l \notin Written(q[i])
    BY <2>1 DEF Led, n, Spared
  <2>3. t[i][l] = t[i - 1][l]
    BY <2>2 DEF ApplyEntry, Written
  <2>4. t[k + d][l] = t[k][l]
    BY <1>4
  <2>5. t[k + (d + 1)][l] = t[k][l]
    BY <2>1, <2>3, <2>4 DEF i
  <2> QED  BY <2>1, <2>5
<1> HIDE DEF N
<1>5. m - k \in N
  BY <1>2, <1>3, <1>4, Climb
<1>6. k + (m - k) = m
  BY <1>2
<1> QED  BY <1>5, <1>6 DEF N

-----------------------------------------------------------------------------
(* What is known of a proposal until it is applied.                          *)

Ops == {"modify", "add", "delete"} \union Sided

\* An entry as a worker makes it: its base is what was bound at launch.
FromLaunch(e) ==
    /\ e.op \in Ops
    /\ e.op \in {"modify", "delete"} => e.base = Copied(e.path)
    /\ e.op \notin {"modify", "delete"} => Copied(e.path) = None
    /\ e.op \in Sided => e.base = Copied(e.from) /\ e.base # None

\* A proposal that awaits the check is of the launch that is bound.
ApplyInv ==
    proposal # None =>
        /\ outcome = "none"
        /\ proposal.entries \in Seq(Entries)
        /\ \A e \in Entries : FromLaunch(e)

\* What a worker returns it made, whatever else is odd about it.
LEMMA WorkersMake ==
    ASSUME NEW e \in WorkerEntries, NEW f \in Odd(e)
    PROVE  FromLaunch(f)
<1>1. \/ \E p, d : e = Entry("modify", p, p, Copied(p), d)
      \/ \E p, d : Copied(p) = None /\ e = Entry("add", p, p, None, d)
      \/ \E p : e = Entry("delete", p, p, Copied(p), None)
      \/ \E op \in Sided : \E p, from :
             Copied(p) = None /\ Copied(from) # None /\ e = Entry(op, p, from, Copied(from), Copied(from))
  BY SMT DEF WorkerEntries
<1>2. FromLaunch(e)
  BY <1>1 DEF FromLaunch, Entry, Ops, Sided
<1>3. PICK op, path, from, base, new : e = Entry(op, path, from, base, new)
  BY <1>1, Zenon
<1>4. f.op = e.op /\ f.path = e.path /\ f.from = e.from /\ f.base = e.base
  BY <1>3 DEF Odd, Entry
<1> QED  BY <1>2, <1>4 DEF FromLaunch

\* A bounded sequence is a sequence of its own elements.
LEMMA BoundedIsSeq ==
    ASSUME NEW S, NEW n, NEW q \in BoundedSeq(S, n)
    PROVE  q \in Seq(Range(q)) /\ \A e \in Range(q) : e \in S
<1>1. PICK m \in 0..n : q \in [1..m -> S]
  BY DEF BoundedSeq, SeqOf
<1>2. m \in Nat
  OBVIOUS
<1>3. q \in [1..m -> Range(q)]
  BY <1>1 DEF Range
<1> QED  BY <1>1, <1>2, <1>3, SeqDef DEF Range

\* At first there is no proposal.
LEMMA ApplyInit == Init => ApplyInv
BY DEF Init, ApplyInv

\* Each step keeps what is known.
LEMMA ApplyStep == ApplyInv /\ [Next]_vars => ApplyInv'
<1> SUFFICES ASSUME ApplyInv, [Next]_vars, (proposal # None)'
             PROVE  /\ outcome' = "none"
                    /\ (proposal.entries \in Seq(Entries))'
                    /\ \A e \in Entries' : FromLaunch(e)'
  BY DEF ApplyInv
<1>1. ASSUME bound' = bound, NEW e PROVE FromLaunch(e)' <=> FromLaunch(e)
  BY <1>1 DEF FromLaunch, Copied
<1>2. CASE Launch
  <2>1. proposal # None /\ outcome # "none"
    BY <1>2 DEF Launch
  <2> QED  BY <2>1 DEF ApplyInv
<1>3. ASSUME UNCHANGED <<bound, proposal, outcome>>
      PROVE  /\ outcome' = "none"
             /\ (proposal.entries \in Seq(Entries))'
             /\ \A e \in Entries' : FromLaunch(e)'
  BY <1>1, <1>3 DEF ApplyInv, Entries
<1>4. CASE Return
  <2>1. bound' = bound /\ outcome' = outcome /\ outcome = "none"
    BY <1>4 DEF Return
  <2>2. PICK entries \in BoundedSeq(WorkerEntries, MaxEntries), recorded \in BOOLEAN :
           \/ proposal' = [entries |-> entries, digest_recorded |-> recorded]
           \/ /\ Len(entries) = 1
              /\ \E e \in Odd(entries[1]) :
                    proposal' = [entries |-> <<e>>, digest_recorded |-> TRUE]
    BY <1>4, Zenon DEF Return
  <2>3. entries \in Seq(Range(entries)) /\ \A e \in Range(entries) : e \in WorkerEntries
    BY BoundedIsSeq
  <2>4. CASE proposal' = [entries |-> entries, digest_recorded |-> recorded]
    <3>1. proposal'.entries = entries /\ Entries' = Range(entries)
      BY <2>4 DEF Entries
    <3>2. \A e \in Range(entries) : FromLaunch(e)
      <4>1. \A e : e \in Odd(e)
        BY DEF Odd
      <4> QED  BY <2>3, <4>1, WorkersMake
    <3> QED  BY <1>1, <2>1, <2>3, <3>1, <3>2
  <2>5. ASSUME Len(entries) = 1, NEW e \in Odd(entries[1]),
               proposal' = [entries |-> <<e>>, digest_recorded |-> TRUE]
        PROVE  /\ (proposal.entries \in Seq(Entries))'
               /\ \A f \in Entries' : FromLaunch(f)'
    <3>1. proposal'.entries = <<e>> /\ Entries' = {e}
      BY <2>5 DEF Entries, Range
    <3>2. entries[1] \in WorkerEntries
      <4>1. 1 \in DOMAIN entries
        BY <2>3, <2>5, LenProperties
      <4> QED  BY <2>3, <4>1 DEF Range
    <3>3. FromLaunch(e)
      BY <2>5, <3>2, WorkersMake
    <3>4. <<e>> \in Seq({e})
      OBVIOUS
    <3> QED  BY <1>1, <2>1, <3>1, <3>3, <3>4
  <2> QED  BY <2>1, <2>2, <2>4, <2>5
<1>5. CASE Apply
  BY <1>5 DEF Apply
<1>6. CASE \E l \in Locators, d \in Contents : Edit(l, d)
  <2>1. UNCHANGED <<bound, proposal, outcome>>
    BY <1>6, Zenon DEF Edit
  <2> QED  BY <1>3, <2>1
<1>7. CASE UNCHANGED vars
  <2>1. UNCHANGED <<bound, proposal, outcome>>
    BY <1>7 DEF vars
  <2> QED  BY <1>3, <2>1
<1> QED  BY <1>2, <1>4, <1>5, <1>6, <1>7 DEF Next

\* A proposal goes, and an outcome is that of a proposal, by way of the check alone.
LEMMA OnlyApply ==
    ASSUME ApplyInv, [Next]_vars, proposal # None,
           proposal' = None \/ outcome' = "proposal_applied"
    PROVE  Apply
<1>1. outcome = "none"
  BY DEF ApplyInv
<1>2. ~Launch
  BY <1>1 DEF Launch
<1>3. ~Return
  BY DEF Return
<1>4. ~\E l \in Locators, d \in Contents : Edit(l, d)
  <2>1. ASSUME \E l \in Locators, d \in Contents : Edit(l, d) PROVE proposal' = proposal /\ outcome' = outcome
    BY <2>1, Zenon DEF Edit
  <2> QED  BY <1>1, <2>1
<1>5. ~UNCHANGED vars
  BY <1>1 DEF vars
<1> QED  BY <1>2, <1>3, <1>4, <1>5 DEF Next

\* What the check does: nothing, or everything in turn.
LEMMA Checked ==
    ASSUME ApplyInv, Apply
    PROVE  /\ outcome' # "proposal_applied" => protected' = protected
           /\ outcome' = "proposal_applied" =>
                  /\ \A e \in Entries : \A path \in Touched(e) : Protected(path) # None
                  /\ \E t : /\ Led(protected, proposal.entries, t)
                            /\ t[Len(proposal.entries)] = protected'
<1> DEFINE base == [outcome |-> "proposal_applied", after |-> protected]
           looped == Looped(protected, base, proposal.entries)
           result == r2_apply(protected, proposal)
           inScope == \A e \in Entries : \A path \in Touched(e) : Protected(path) # None
<1>1. outcome' = result.outcome /\ protected' = result.after /\ proposal.entries \in Seq(Entries)
  BY DEF Apply, ApplyInv
<1>2. \/ \E code \in {"proposal_digest_mismatch", "proposal_unattributable",
                      "proposal_entry_unsupported", "proposal_out_of_scope"} :
             result = [outcome |-> code, after |-> protected]
      \/ inScope /\ result = looped
  BY Zenon DEF r2_apply, Looped, Entries
<1>3. /\ looped.outcome # "proposal_applied" => looped.after = protected
      /\ looped.outcome = "proposal_applied" =>
             \E t : Led(protected, proposal.entries, t) /\ t[Len(proposal.entries)] = looped.after
  BY <1>1, WholeLoop
<1> HIDE DEF looped, result, inScope
<1>4. CASE \E code \in {"proposal_digest_mismatch", "proposal_unattributable",
                        "proposal_entry_unsupported", "proposal_out_of_scope"} :
               result = [outcome |-> code, after |-> protected]
  BY <1>1, <1>4
<1>5. CASE inScope /\ result = looped
  BY <1>1, <1>3, <1>5 DEF inScope
<1> QED  BY <1>2, <1>4, <1>5

\* A path the check lets through is mapped to a locator in scope.
LEMMA InScope ==
    ASSUME NEW path, Protected(path) # None
    PROVE  Protected(path) = MapsTo(path) /\ MapsTo(path) \in Scope
BY DEF Protected

\* What an entry writes it touches.
LEMMA WrittenIsTouched ==
    ASSUME NEW e, \A path \in Touched(e) : Protected(path) # None, NEW l \in Written(e)
    PROVE  l \in Scope /\ l \in Targets(e)
<1>1. \E path \in Touched(e) : l = Protected(path)
  BY DEF Written, Popped, Touched, Sided
<1> QED  BY <1>1, InScope DEF Targets

\* What changed an entry wrote.
LEMMA ChangedIsWritten ==
    ASSUME NEW before, NEW S, NEW q \in Seq(S), NEW t, Led(before, q, t),
           NEW l \in Locators, t[Len(q)][l] # before[l]
    PROVE  \E i \in 1..Len(q) : l \in Written(q[i])
<1>1. Len(q) \in Nat /\ t[0] = before
  BY LenProperties DEF Led
<1>2. SUFFICES ASSUME \A i \in 1..Len(q) : l \notin Written(q[i])
               PROVE  t[Len(q)][l] = t[0][l]
  BY <1>1
<1>3. 0 \in Nat /\ 0 <= Len(q) /\ Len(q) <= Len(q) /\ Spared(q, l, 0, Len(q))
  BY <1>1, <1>2 DEF Spared
<1> QED  BY <1>1, <1>2, <1>3, Untouched

\* A proposal changes protected content only in scope, and where one of its own entries
\* says so.
THEOREM ScopeIsHeld == Spec => ScopeHeld
<1>1. ASSUME ApplyInv, [Next]_vars, proposal # None, proposal' = None,
             NEW l \in Locators, protected'[l] # protected[l]
      PROVE  l \in Scope /\ \E e \in Entries : l \in Targets(e)
  <2>1. Apply
    BY <1>1, OnlyApply
  <2>2. outcome' = "proposal_applied" /\ proposal.entries \in Seq(Entries)
    BY <1>1, <2>1, Checked DEF ApplyInv
  <2>3. PICK t : Led(protected, proposal.entries, t) /\ t[Len(proposal.entries)] = protected'
    BY <1>1, <2>1, <2>2, Checked
  <2>4. PICK i \in 1..Len(proposal.entries) : l \in Written(proposal.entries[i])
    BY <1>1, <2>2, <2>3, ChangedIsWritten
  <2>5. proposal.entries[i] \in Entries
    BY <2>2, ElementOfSeq
  <2>6. \A path \in Touched(proposal.entries[i]) : Protected(path) # None
    BY <1>1, <2>1, <2>2, <2>5, Checked
  <2> QED  BY <2>4, <2>5, <2>6, WrittenIsTouched
<1>2. ApplyInv /\ [Next]_vars => [proposal # None /\ proposal' = None =>
        \A l \in Locators : protected'[l] # protected[l] =>
            l \in Scope /\ \E e \in Entries : l \in Targets(e)]_vars
  BY <1>1
<1> QED  BY ApplyInit, ApplyStep, <1>2, PTL DEF Spec, ScopeHeld

\* What an entry the check lets pass reaches is what its worker started from.
LEMMA ReachesWhatWasBound ==
    ASSUME NEW e, FromLaunch(e), ~Stale(protected, e),
           \A path \in Touched(e) : Protected(path) # None,
           NEW path \in Touched(e)
    PROVE  protected[Protected(path)] = bound[Protected(path)]
<1>1. Copied(path) = bound[Protected(path)]
  <2>1. Protected(path) = MapsTo(path) /\ MapsTo(path) # None
    BY InScope
  <2> QED  BY <2>1 DEF Copied
<1>2. CASE path = e.path
  <2>1. CASE e.op \in {"modify", "delete"}
    BY <1>1, <1>2, <2>1 DEF FromLaunch, Stale
  <2>2. CASE e.op \notin {"modify", "delete"}
    <3>1. e.op \in {"add", "rename", "copy"}
      BY <2>2 DEF FromLaunch, Ops, Sided
    <3> QED  BY <1>1, <1>2, <2>2, <3>1 DEF FromLaunch, Stale
  <2> QED  BY <2>1, <2>2
<1>3. CASE e.op \in Sided /\ path = e.from
  BY <1>1, <1>3 DEF FromLaunch, Stale
<1> QED  BY <1>2, <1>3 DEF Touched

\* An entry the check lets pass overwrites or removes only what its worker started from.
LEMMA WritesWhatWasBound ==
    ASSUME NEW e, FromLaunch(e), ~Stale(protected, e),
           \A path \in Touched(e) : Protected(path) # None,
           NEW l \in Written(e)
    PROVE  protected[l] = bound[l]
<1>1. \E path \in Touched(e) : l = Protected(path)
  BY DEF Written, Popped, Touched, Sided
<1> QED  BY <1>1, ReachesWhatWasBound

\* No update is lost: what somebody wrote since the launch, an applied proposal has not
\* overwritten.
THEOREM NothingIsLost == Spec => NoLostUpdate
<1>1. ASSUME ApplyInv, [Next]_vars, Applied, NEW l \in Locators, protected'[l] # protected[l]
      PROVE  protected[l] = bound[l]
  <2>1. Apply /\ outcome' = "proposal_applied" /\ proposal # None
    BY <1>1, OnlyApply DEF Applied
  <2>2. proposal.entries \in Seq(Entries) /\ \A e \in Entries : FromLaunch(e)
    BY <1>1, <2>1 DEF ApplyInv
  <2>3. PICK t : Led(protected, proposal.entries, t) /\ t[Len(proposal.entries)] = protected'
    BY <1>1, <2>1, Checked
  <2>4. PICK i \in 1..Len(proposal.entries) : l \in Written(proposal.entries[i])
    BY <1>1, <2>2, <2>3, ChangedIsWritten
  <2>5. proposal.entries[i] \in Entries
    BY <2>2, ElementOfSeq
  <2>6. \A path \in Touched(proposal.entries[i]) : Protected(path) # None
    BY <1>1, <2>1, <2>5, Checked
  <2>7. ~Stale(protected, proposal.entries[i])
    BY <2>3 DEF Led
  <2> QED  BY <2>2, <2>4, <2>5, <2>6, <2>7, WritesWhatWasBound
<1>2. ApplyInv /\ [Next]_vars => [Applied =>
        \A l \in Locators : protected'[l] # protected[l] => protected[l] = bound[l]]_vars
  BY <1>1
<1> QED  BY ApplyInit, ApplyStep, <1>2, PTL DEF Spec, NoLostUpdate

\* An entry that is applied has its effect at once.
LEMMA HasEffect ==
    ASSUME NEW before, NEW e, NEW tree, FromLaunch(e), ~Stale(before, e),
           \A path \in Touched(e) : Protected(path) # None
    PROVE  Effect(e, ApplyEntry(e, tree))
<1>1. e.path \in Touched(e) /\ (e.op \in Sided => e.from \in Touched(e))
  BY DEF Touched
<1>2. Protected(e.path) = MapsTo(e.path) /\ Protected(e.path) \in Locators
  BY <1>1, InScope, ScopeIsProtected
<1>3. e.op # "delete" => ApplyEntry(e, tree)[MapsTo(e.path)] = e.new
  BY <1>2 DEF ApplyEntry
<1>4. ASSUME NEW l \in Popped(e) PROVE ApplyEntry(e, tree)[l] = None
  <2>1. CASE e.op = "delete"
    <3>1. l = Protected(e.path)
      BY <1>4, <2>1 DEF Popped
    <3> QED  BY <1>2, <2>1, <3>1 DEF ApplyEntry
  <2>2. CASE e.op = "rename"
    <3>1. l = Protected(e.from) /\ e.op \in Sided /\ e.op # "delete"
      BY <1>4, <2>2 DEF Popped, Sided
    <3>2. l \in Locators
      BY <1>1, <3>1, InScope, ScopeIsProtected
    <3>3. l # Protected(e.path)
      BY <2>2, <3>1 DEF Stale, FromLaunch
    <3> QED  BY <1>4, <3>2, <3>3 DEF ApplyEntry
  <2> QED  BY <1>4, <2>1, <2>2 DEF Popped
<1> QED  BY <1>3, <1>4 DEF Effect

\* No two of these entries reach one locator.
Separate(entries) ==
    \A i, j \in DOMAIN entries : i # j =>
        Targets(entries[i]) \intersect Targets(entries[j]) = {}

\* Applied, entries on distinct locators all have their effect in the end.
LEMMA EachHasEffect ==
    ASSUME ApplyInv, [Next]_vars, Applied, Separate(proposal.entries), NEW e \in Entries
    PROVE  Effect(e, protected')
<1> DEFINE q == proposal.entries  n == Len(q)
<1>1. Apply
  BY OnlyApply DEF Applied
<1>2. q \in Seq(Entries) /\ (\A f \in Entries : FromLaunch(f)) /\ n \in Nat /\ DOMAIN q = 1..n
  BY LenProperties DEF ApplyInv, Applied
<1>3. PICK t : Led(protected, q, t) /\ t[n] = protected'
  BY <1>1, Checked DEF Applied
<1>4. \A f \in Entries : \A path \in Touched(f) : Protected(path) # None
  BY <1>1, Checked DEF Applied
<1>5. PICK i \in 1..n : e = q[i]
  BY <1>2 DEF Entries, Range
<1>6. Effect(e, t[i])
  <2>1. t[i] = ApplyEntry(e, t[i - 1]) /\ ~Stale(protected, e)
    BY <1>3, <1>5 DEF Led
  <2> QED  BY <1>2, <1>4, <2>1, HasEffect
<1>7. ASSUME NEW l \in Written(e) PROVE protected'[l] = t[i][l]
  <2>1. l \in Locators /\ l \in Targets(e)
    BY <1>4, <1>7, WrittenIsTouched, ScopeIsProtected
  <2>2. ASSUME NEW j \in 1..n, i < j PROVE l \notin Written(q[j])
    <3>1. j \in DOMAIN q /\ i \in DOMAIN q /\ i # j
      BY <1>2, <2>2
    <3>2. l \notin Targets(q[j])
      BY <1>5, <2>1, <3>1 DEF Separate
    <3>3. q[j] \in Entries
      BY <1>2, <3>1, ElementOfSeq
    <3> QED  BY <1>4, <3>2, <3>3, WrittenIsTouched
  <2>3. i \in Nat /\ i <= n /\ n <= n
    BY <1>2
  <2>4. Spared(q, l, i, n)
    BY <2>2 DEF Spared
  <2>5. t[n][l] = t[i][l]
    <3> HIDE DEF q
    <3> QED  BY <1>2, <1>3, <2>1, <2>3, <2>4, Untouched
  <2> QED  BY <1>3, <2>5
<1>8. e.op # "delete" => MapsTo(e.path) \in Written(e)
  BY <1>4, InScope DEF Written, Touched
<1>9. Popped(e) \subseteq Written(e)
  BY DEF Written
<1> QED  BY <1>6, <1>7, <1>8, <1>9 DEF Effect

\* All of a proposal on distinct locators, or none of it.
THEOREM AllOfItOrNothing == Spec => AllOrNothing
<1>1. ASSUME ApplyInv, [Next]_vars, proposal # None, proposal' = None,
             outcome' # "proposal_applied"
      PROVE  protected' = protected
  BY <1>1, OnlyApply, Checked
<1>2. ApplyInv /\ [Next]_vars => [proposal # None /\ proposal' = None =>
        IF outcome' = "proposal_applied"
        THEN Separate(proposal.entries) => \A e \in Entries : Effect(e, protected')
        ELSE protected' = protected]_vars
  BY <1>1, EachHasEffect DEF Applied
<1> QED  BY ApplyInit, ApplyStep, <1>2, PTL DEF Spec, AllOrNothing, Separate

\* AppliedWhole fails only where the target map takes two paths to one locator in
\* scope: of any other map, entries on distinct paths all have their effect.
THEOREM DistinctTargetsAreWhole ==
    ASSUME \A p, q \in DOMAIN TargetMap :
               TargetMap[p] \in Scope /\ TargetMap[p] = TargetMap[q] => p = q
    PROVE  Spec => AppliedWhole
<1> DEFINE separatePaths == \A i, j \in DOMAIN proposal.entries : i # j =>
               Touched(proposal.entries[i]) \intersect Touched(proposal.entries[j]) = {}
<1>1. ASSUME ApplyInv, [Next]_vars, Applied, separatePaths PROVE Separate(proposal.entries)
  <2>1. \A e \in Entries : \A path \in Touched(e) : Protected(path) # None
    BY <1>1, OnlyApply, Checked DEF Applied
  <2>2. ASSUME NEW path, Protected(path) # None
        PROVE  path \in DOMAIN TargetMap /\ TargetMap[path] = MapsTo(path) /\ MapsTo(path) \in Scope
    <3>1. MapsTo(path) \in Locators
      BY <2>2, InScope, ScopeIsProtected
    <3> QED  BY <2>2, <3>1, InScope, NoneIsNoLocator DEF MapsTo
  <2> SUFFICES ASSUME NEW i \in DOMAIN proposal.entries, NEW j \in DOMAIN proposal.entries,
                      i # j, NEW l \in Targets(proposal.entries[i]),
                      l \in Targets(proposal.entries[j])
               PROVE  FALSE
    BY DEF Separate
  <2>3. proposal.entries[i] \in Entries /\ proposal.entries[j] \in Entries
    BY DEF Entries, Range
  <2>4. PICK p \in Touched(proposal.entries[i]) : l = MapsTo(p)
    BY DEF Targets
  <2>5. PICK q \in Touched(proposal.entries[j]) : l = MapsTo(q)
    BY DEF Targets
  <2>6. p = q
    BY <2>1, <2>2, <2>3, <2>4, <2>5
  <2> QED  BY <1>1, <2>6
<1>2. ApplyInv /\ [Next]_vars =>
        [Applied /\ separatePaths => \A e \in Entries : Effect(e, protected')]_vars
  <2> HIDE DEF separatePaths
  <2> QED  BY <1>1, EachHasEffect
<1> QED  BY ApplyInit, ApplyStep, <1>2, PTL DEF Spec, AppliedWhole

-----------------------------------------------------------------------------
(* The loop on two trees that agree wherever the entries reach: it does the  *)
(* same to both.                                                             *)

Reaches(e, L) == \A path \in Touched(e) : Protected(path) \in L

\* Two accumulators, of loops on one and on two: the same outcome, the same tree in
\* L, and outside of it each its own.
Twins(one, two, L, a, b) ==
    /\ a = [outcome |-> a.outcome, after |-> a.after]
    /\ b = [outcome |-> a.outcome, after |-> b.after]
    /\ \A l \in L : a.after[l] = b.after[l]
    /\ \A l \in Locators \ L : a.after[l] = one[l] /\ b.after[l] = two[l]

\* Whether an entry is stale depends on what it reaches.
LEMMA TwinStale ==
    ASSUME NEW one, NEW two, NEW L, \A l \in L : one[l] = two[l],
           NEW e, Reaches(e, L)
    PROVE  Stale(one, e) <=> Stale(two, e)
<1>1. one[Protected(e.path)] = two[Protected(e.path)]
  BY DEF Reaches, Touched
<1>2. e.op \in Sided => one[Protected(e.from)] = two[Protected(e.from)]
  BY DEF Reaches, Touched
<1> QED  BY <1>1, <1>2 DEF Stale

\* One turn of either loop.
LEMMA TwinTurn ==
    ASSUME NEW one, NEW two, NEW L \in SUBSET Locators, \A l \in L : one[l] = two[l],
           NEW e, Reaches(e, L), NEW a, NEW b, Twins(one, two, L, a, b)
    PROVE  Twins(one, two, L, Turn(one, a, e), Turn(two, b, e))
<1> DEFINE o == a.outcome  s == a.after  t == b.after
<1>1. /\ a = [outcome |-> o, after |-> s] /\ b = [outcome |-> o, after |-> t]
      /\ \A l \in L : s[l] = t[l]
      /\ \A l \in Locators \ L : s[l] = one[l] /\ t[l] = two[l]
  BY DEF Twins
<1> HIDE DEF o, s, t
<1>2. Stale(one, e) <=> Stale(two, e)
  BY TwinStale
<1>3. Popped(e) \subseteq L /\ Protected(e.path) \in L
  BY DEF Popped, Reaches, Touched, Sided
<1>4. ASSUME o = "proposal_applied", Stale(one, e)
      PROVE  Twins(one, two, L, Turn(one, a, e), Turn(two, b, e))
  <2>1. /\ Turn(one, a, e) = [outcome |-> "proposal_stale", after |-> one]
        /\ Turn(two, b, e) = [outcome |-> "proposal_stale", after |-> two]
    BY <1>1, <1>2, <1>4 DEF Turn, Step
  <2> QED  BY <2>1 DEF Twins
<1>5. ASSUME o = "proposal_applied", ~Stale(one, e), NEW x \in Popped(e), s[x] = None
      PROVE  Twins(one, two, L, Turn(one, a, e), Turn(two, b, e))
  <2>1. t[x] = None
    BY <1>1, <1>3, <1>5
  <2>2. /\ Turn(one, a, e) = [outcome |-> "raised", after |-> one]
        /\ Turn(two, b, e) = [outcome |-> "raised", after |-> two]
    BY <1>1, <1>2, <1>5, <2>1 DEF Turn, Step
  <2> QED  BY <2>2 DEF Twins
<1>6. ASSUME o = "proposal_applied", ~Stale(one, e), \A x \in Popped(e) : s[x] # None
      PROVE  Twins(one, two, L, Turn(one, a, e), Turn(two, b, e))
  <2>1. \A x \in Popped(e) : t[x] # None
    BY <1>1, <1>3, <1>6
  <2>2. /\ Turn(one, a, e) = [outcome |-> o, after |-> ApplyEntry(e, s)]
        /\ Turn(two, b, e) = [outcome |-> o, after |-> ApplyEntry(e, t)]
    BY <1>1, <1>2, <1>6, <2>1 DEF Turn, Step
  <2>3. \A l \in L : ApplyEntry(e, s)[l] = ApplyEntry(e, t)[l]
    BY <1>1 DEF ApplyEntry
  <2>4. \A l \in Locators \ L : ApplyEntry(e, s)[l] = one[l] /\ ApplyEntry(e, t)[l] = two[l]
    BY <1>1, <1>3 DEF ApplyEntry
  <2> QED  BY <2>2, <2>3, <2>4 DEF Twins
<1>7. ASSUME o # "proposal_applied"
      PROVE  Twins(one, two, L, Turn(one, a, e), Turn(two, b, e))
  <2>1. Turn(one, a, e) = a /\ Turn(two, b, e) = b
    BY <1>1, <1>7 DEF Turn, Step
  <2> QED  BY <2>1
<1> QED  BY <1>4, <1>5, <1>6, <1>7

\* The whole of either loop.
LEMMA TwinLoops ==
    ASSUME NEW one, NEW two, NEW L \in SUBSET Locators, \A l \in L : one[l] = two[l],
           NEW S, NEW q \in Seq(S), \A e \in Range(q) : Reaches(e, L)
    PROVE  Twins(one, two, L,
                 Looped(one, [outcome |-> "proposal_applied", after |-> one], q),
                 Looped(two, [outcome |-> "proposal_applied", after |-> two], q))
<1> DEFINE n == Len(q)
           first(tree) == [outcome |-> "proposal_applied", after |-> tree]
<1>1. n \in Nat /\ DOMAIN q = 1..n
  BY LenProperties
<1> HIDE DEF n
<1>2. PICK g : Run(one, first(one), q, n, g)
  BY <1>1, Turns
<1>3. PICK h : Run(two, first(two), q, n, h)
  BY <1>1, Turns
<1> DEFINE N == {i \in 0..n : Twins(one, two, L, g[i], h[i])}
<1>4. 0 \in N
  <2>1. g[0] = first(one) /\ h[0] = first(two) /\ 0 \in 0..n
    BY <1>1, <1>2, <1>3 DEF Run
  <2>2. Twins(one, two, L, first(one), first(two))
    BY DEF Twins
  <2> QED  BY <2>1, <2>2
<1>5. ASSUME NEW i \in 0..n, i \in N, i < n PROVE i + 1 \in N
  <2>1. i + 1 \in 1..n /\ i + 1 \in 0..n /\ (i + 1) - 1 = i
    BY <1>1, <1>5
  <2>2. g[i + 1] = Turn(one, g[i], q[i + 1]) /\ h[i + 1] = Turn(two, h[i], q[i + 1])
    BY <1>2, <1>3, <2>1, Zenon DEF Run
  <2>3. q[i + 1] \in Range(q)
    BY <1>1, <2>1 DEF Range
  <2>4. Twins(one, two, L, g[i], h[i]) /\ Reaches(q[i + 1], L)
    BY <1>5, <2>3
  <2>5. Twins(one, two, L, g[i + 1], h[i + 1])
    BY <2>2, <2>4, TwinTurn
  <2> QED  BY <2>1, <2>5
<1> HIDE DEF N
<1>6. n \in N
  BY <1>1, <1>4, <1>5, Climb
<1>7. Twins(one, two, L, g[n], h[n])
  BY <1>6 DEF N
<1> QED  BY <1>2, <1>3, <1>7, Zenon DEF Run
-----------------------------------------------------------------------------
(* Refinement: the repository under the check is content under optimistic    *)
(* commits.                                                                  *)

\* Trees stay trees.
TreesInv ==
    /\ protected \in Trees /\ bound \in Trees
    /\ proposal # None =>
           /\ proposal.entries \in Seq(Entries)
           /\ \A e \in Entries : e.new \in Contents

\* What a worker puts where there was something is something.
LEMMA WorkersWrite ==
    ASSUME bound \in Trees, NEW e \in WorkerEntries, NEW f \in Odd(e)
    PROVE  f.new \in Contents
<1>1. \A p : Copied(p) \in Contents
  BY TargetMapTyped DEF Copied, MapsTo, Trees, Contents
<1>2. \/ \E p, d : d \in Digests /\ e = Entry("modify", p, p, Copied(p), d)
      \/ \E p, d : d \in Digests /\ e = Entry("add", p, p, None, d)
      \/ \E p : e = Entry("delete", p, p, Copied(p), None)
      \/ \E op, p, from : e = Entry(op, p, from, Copied(from), Copied(from))
  BY SMT DEF WorkerEntries
<1>3. PICK op, path, from, base, new : e = Entry(op, path, from, base, new) /\ new \in Contents
  BY <1>1, <1>2 DEF Contents
<1>4. f.new = e.new
  BY <1>3 DEF Odd, Entry
<1> QED  BY <1>3, <1>4 DEF Entry

\* An entry leaves a tree.
LEMMA AppliedToTree ==
    ASSUME NEW e, e.new \in Contents, NEW tree \in Trees
    PROVE  ApplyEntry(e, tree) \in Trees
BY DEF ApplyEntry, Trees, Contents

\* The check leaves a tree.
LEMMA CheckLeavesTree ==
    ASSUME NEW before \in Trees, NEW p, p.entries \in Seq(Range(p.entries)),
           \A e \in Range(p.entries) : e.new \in Contents
    PROVE  r2_apply(before, p).after \in Trees
<1> DEFINE base == [outcome |-> "proposal_applied", after |-> before]
           q == p.entries  n == Len(q)
           looped == Looped(before, base, q)
           result == r2_apply(before, p)
<1>1. n \in Nat /\ DOMAIN q = 1..n
  BY LenProperties
<1>2. \/ \E code : result = [outcome |-> code, after |-> before]
      \/ result = looped
  BY Zenon DEF r2_apply, Looped
<1>3. looped.after = before \/ \E t : Led(before, q, t) /\ t[n] = looped.after
  BY WholeLoop
<1> HIDE DEF result, looped
<1>4. ASSUME NEW t, Led(before, q, t) PROVE t[n] \in Trees
  <2> DEFINE N == {i \in 0..n : t[i] \in Trees}
  <2>1. 0 \in N
    BY <1>1, <1>4 DEF Led
  <2>2. ASSUME NEW i \in 0..n, i \in N, i < n PROVE i + 1 \in N
    <3>1. i + 1 \in 1..n /\ i + 1 \in 0..n /\ (i + 1) - 1 = i
      BY <1>1, <2>2
    <3>2. t[i + 1] = ApplyEntry(q[i + 1], t[i])
      BY <1>4, <3>1 DEF Led
    <3>3. q[i + 1] \in Range(q)
      BY <1>1, <3>1 DEF Range
    <3>4. t[i + 1] \in Trees
      BY <2>2, <3>2, <3>3, AppliedToTree
    <3> QED  BY <3>1, <3>4
  <2> HIDE DEF N
  <2>3. n \in N
    BY <1>1, <2>1, <2>2, Climb
  <2> QED  BY <2>3 DEF N
<1>5. CASE \E code : result = [outcome |-> code, after |-> before]
  BY <1>5 DEF result
<1>6. CASE result = looped
  <2>1. looped.after \in Trees
    BY <1>3, <1>4
  <2> QED  BY <1>6, <2>1 DEF result
<1> QED  BY <1>2, <1>5, <1>6

LEMMA TreesInit == Init => TreesInv
BY DEF Init, TreesInv

LEMMA TreesStep == TreesInv /\ [Next]_vars => TreesInv'
<1> SUFFICES ASSUME TreesInv, [Next]_vars PROVE TreesInv'
  OBVIOUS
<1>1. CASE Launch
  BY <1>1 DEF Launch, TreesInv, Entries
<1>2. CASE \E l \in Locators, d \in Contents : Edit(l, d)
  <2>1. /\ UNCHANGED <<bound, proposal>>
        /\ \E l \in Locators, d \in Contents : protected' = [protected EXCEPT ![l] = d]
    BY <1>2, Zenon DEF Edit
  <2>2. protected' \in Trees
    BY <2>1 DEF TreesInv, Trees
  <2> QED  BY <2>1, <2>2 DEF TreesInv, Entries
<1>3. CASE Return
  <2>1. protected' = protected /\ bound' = bound
    BY <1>3 DEF Return
  <2>2. PICK entries \in BoundedSeq(WorkerEntries, MaxEntries), recorded \in BOOLEAN :
           \/ proposal' = [entries |-> entries, digest_recorded |-> recorded]
           \/ /\ Len(entries) = 1
              /\ \E e \in Odd(entries[1]) :
                    proposal' = [entries |-> <<e>>, digest_recorded |-> TRUE]
    BY <1>3, Zenon DEF Return
  <2>3. entries \in Seq(Range(entries)) /\ \A e \in Range(entries) : e \in WorkerEntries
    BY BoundedIsSeq
  <2>4. CASE proposal' = [entries |-> entries, digest_recorded |-> recorded]
    <3>1. proposal'.entries = entries /\ Entries' = Range(entries)
      BY <2>4 DEF Entries
    <3>2. \A e \in Range(entries) : e.new \in Contents
      <4>1. \A e : e \in Odd(e)
        BY DEF Odd
      <4> QED  BY <2>3, <4>1, WorkersWrite DEF TreesInv
    <3> QED  BY <2>1, <2>3, <3>1, <3>2 DEF TreesInv
  <2>5. ASSUME Len(entries) = 1, NEW e \in Odd(entries[1]),
               proposal' = [entries |-> <<e>>, digest_recorded |-> TRUE]
        PROVE  TreesInv'
    <3>1. proposal'.entries = <<e>> /\ Entries' = {e}
      BY <2>5 DEF Entries, Range
    <3>2. entries[1] \in WorkerEntries
      <4>1. 1 \in DOMAIN entries
        BY <2>3, <2>5, LenProperties
      <4> QED  BY <2>3, <4>1 DEF Range
    <3>3. e.new \in Contents
      BY <2>5, <3>2, WorkersWrite DEF TreesInv
    <3>4. <<e>> \in Seq({e})
      OBVIOUS
    <3> QED  BY <2>1, <3>1, <3>3, <3>4 DEF TreesInv
  <2> QED  BY <2>2, <2>4, <2>5
<1>4. CASE Apply
  <2>1. /\ protected' = r2_apply(protected, proposal).after /\ bound' = bound
        /\ proposal # None /\ proposal' = None
    BY <1>4 DEF Apply
  <2>2. protected' \in Trees
    BY <2>1, CheckLeavesTree DEF TreesInv, Entries
  <2> QED  BY <2>1, <2>2 DEF TreesInv
<1>5. CASE UNCHANGED vars
  BY <1>5 DEF vars, TreesInv, Entries
<1> QED  BY <1>1, <1>2, <1>3, <1>4, <1>5 DEF Next

\* A proposal that is applied does to the repository what it did to the copy.
LEMMA AppliedIsWorked ==
    ASSUME ApplyInv, TreesInv, Apply, outcome' = "proposal_applied", NEW l \in Locators
    PROVE  IF worked[l] # bound[l]
           THEN l \in Scope /\ protected[l] = bound[l] /\ protected'[l] = worked[l]
           ELSE protected'[l] = protected[l]
<1> DEFINE q == proposal.entries
           reached == {Protected(path) : path \in UNION {Touched(e) : e \in Entries}}
           first(tree) == [outcome |-> "proposal_applied", after |-> tree]
           here == Looped(protected, first(protected), q)
           there == Looped(bound, first(bound), q)
<1>1. /\ proposal # None /\ q \in Seq(Entries) /\ \A e \in Entries : FromLaunch(e)
      /\ r2_apply(protected, proposal).outcome = "proposal_applied"
      /\ protected' = r2_apply(protected, proposal).after
  BY DEF Apply, ApplyInv
<1>2. \A e \in Entries : \A path \in Touched(e) : Protected(path) # None
  BY Checked
<1>3. \A e \in Entries : ~Stale(protected, e)
  <2>1. PICK t : Led(protected, q, t)
    BY Checked
  <2> SUFFICES ASSUME NEW e \in Entries PROVE ~Stale(protected, e)
    OBVIOUS
  <2>2. PICK i \in 1..Len(q) : e = q[i]
    BY <1>1, LenProperties DEF Entries, Range
  <2> QED  BY <2>1, <2>2 DEF Led
<1>4. \A x \in reached : x \in Scope /\ x \in Locators /\ protected[x] = bound[x]
  <2> SUFFICES ASSUME NEW e \in Entries, NEW path \in Touched(e)
               PROVE  /\ Protected(path) \in Scope /\ Protected(path) \in Locators
                      /\ protected[Protected(path)] = bound[Protected(path)]
    OBVIOUS
  <2>1. Protected(path) \in Scope
    BY <1>2, InScope
  <2>2. protected[Protected(path)] = bound[Protected(path)]
    BY <1>1, <1>2, <1>3, ReachesWhatWasBound
  <2> QED  BY <2>1, <2>2, ScopeIsProtected
<1>5. Twins(protected, bound, reached, here, there)
  <2>1. \A e \in Range(q) : Reaches(e, reached)
    BY DEF Reaches, Entries
  <2>2. reached \in SUBSET Locators /\ \A x \in reached : protected[x] = bound[x]
    BY <1>4
  <2> HIDE DEF reached, q
  <2> QED  BY <1>1, <2>1, <2>2, TwinLoops
<1>6. protected' = here.after /\ worked = there.after
  <2>1. /\ proposal.digest_recorded
        /\ \A e \in Entries : e.attributable /\ e.plain_file
        /\ \A e \in Entries : \A path \in Touched(e) : Protected(path) # None
    <3>1. /\ "proposal_digest_mismatch" # "proposal_applied"
          /\ "proposal_unattributable" # "proposal_applied"
          /\ "proposal_entry_unsupported" # "proposal_applied"
          /\ "proposal_out_of_scope" # "proposal_applied"
      OBVIOUS
    <3> QED  BY <1>1, <3>1 DEF r2_apply, Entries
  <2>2. r2_apply(protected, proposal) = here /\ r2_apply(bound, proposal) = there
    BY <2>1, Zenon DEF r2_apply, Entries, Looped
  <2> QED  BY <1>1, <2>2 DEF worked
<1> HIDE DEF here, there
<1>7. CASE l \in reached
  BY <1>4, <1>5, <1>6, <1>7 DEF Twins
<1>8. CASE l \notin reached
  BY <1>5, <1>6, <1>8 DEF Twins
<1> QED  BY <1>7, <1>8

\* At first the copy is the repository.
LEMMA CommitInit == Init => Commits!Init
BY DEF Init, Commits!Init, Commits!Trees, Trees, worked

\* Each step is one of the abstract commit's, or none.
LEMMA CommitStep == ApplyInv /\ TreesInv /\ TreesInv' /\ [Next]_vars => [Commits!Next]_Commits!vars
<1> SUFFICES ASSUME ApplyInv, TreesInv, TreesInv', [Next]_vars
             PROVE  [Commits!Next]_Commits!vars
  OBVIOUS
<1>1. CASE Launch
  <2>1. proposal = None /\ proposal' = None /\ bound' = protected /\ protected' = protected
    BY <1>1 DEF Launch, ApplyInv
  <2>2. worked = bound /\ worked' = bound'
    BY <2>1 DEF worked
  <2> QED  BY <2>1, <2>2 DEF Commits!Next, Commits!Begin, Commits!Changed
<1>2. CASE \E l \in Locators, d \in Contents : Edit(l, d)
  <2>1. /\ UNCHANGED <<bound, proposal>>
        /\ \E l \in Locators, d \in Contents : protected' = [protected EXCEPT ![l] = d]
    BY <1>2, Zenon DEF Edit
  <2>2. worked' = worked
    BY <2>1 DEF worked
  <2> QED  BY <2>1, <2>2 DEF Commits!Next, Commits!OthersWrite
<1>3. CASE Return
  <2>1. proposal = None /\ protected' = protected /\ bound' = bound
    BY <1>3 DEF Return
  <2>2. worked = bound
    BY <2>1 DEF worked
  <2>3. worked' \in Trees
    <3>1. /\ bound' \in Trees
          /\ proposal' # None => /\ proposal'.entries \in Seq(Range(proposal'.entries))
                                 /\ \A e \in Range(proposal'.entries) : e.new \in Contents
      BY DEF TreesInv, Entries
    <3> QED  BY <3>1, CheckLeavesTree DEF worked
  <2> QED  BY <2>1, <2>2, <2>3 DEF Commits!Next, Commits!Work, Commits!Changed, Commits!Trees, Trees
<1>4. CASE Apply
  <2>1. proposal' = None /\ bound' = bound /\ worked' = bound
    BY <1>4 DEF Apply, worked
  <2>2. CASE outcome' # "proposal_applied"
    <3>1. protected' = protected
      BY <1>4, <2>2, Checked
    <3> QED  BY <2>1, <3>1 DEF Commits!Next, Commits!Abandon
  <2>3. CASE outcome' = "proposal_applied"
    <3>1. \A l \in Locators : IF worked[l] # bound[l]
             THEN l \in Scope /\ protected[l] = bound[l] /\ protected'[l] = worked[l]
             ELSE protected'[l] = protected[l]
      BY <1>4, <2>3, AppliedIsWorked
    <3>2. protected' = [l \in Locators |-> protected'[l]]
      BY DEF TreesInv, Trees
    <3>3. protected' = [l \in Locators |->
                           IF l \in Commits!Changed THEN worked[l] ELSE protected[l]]
      BY <3>1, <3>2 DEF Commits!Changed
    <3>4. \A l \in Commits!Changed : l \in Scope /\ protected[l] = bound[l]
      BY <3>1 DEF Commits!Changed
    <3> QED  BY <2>1, <3>3, <3>4 DEF Commits!Next, Commits!Commit
  <2> QED  BY <2>2, <2>3
<1>5. CASE UNCHANGED vars
  BY <1>5 DEF vars, worked, Commits!vars
<1> QED  BY <1>1, <1>2, <1>3, <1>4, <1>5 DEF Next

\* The check refines optimistic commit: whatever others write meanwhile, an applied
\* proposal does to the repository what it did to its worker's copy.
THEOREM ApplyIsOptimisticCommit == Spec => ImplementsOptimisticCommit
BY ApplyInit, ApplyStep, TreesInit, TreesStep, CommitInit, CommitStep, PTL
   DEF Spec, ImplementsOptimisticCommit, Commits!Spec
=============================================================================
