-------------------------- MODULE RunLifecycleProofs --------------------------
(***************************************************************************)
(* What the checker makes of any journal: proofs about RunLifecycle, for   *)
(* journals of any length in any number of segments, and the facts about   *)
(* FlattenSeq they rest on.                                                *)
(***************************************************************************)
EXTENDS RunLifecycle, SequenceTheorems, WellFoundedInduction, TLAPS

\* A nonempty set of naturals has a least element.
LEMMA Least ==
    ASSUME NEW N, N \subseteq Nat, N # {}
    PROVE  \E m \in N : \A n \in N : m <= n
<1>1. PICK m \in N : \A n \in N : ~(<<n, m>> \in OpToRel(<, Nat))
  BY NatLessThanWellFounded, WFMin
<1>2. \A n \in N : ~(n < m)
  BY <1>1 DEF OpToRel
<1>3. m \in Nat /\ \A n \in N : n \in Nat
  OBVIOUS
<1> QED  BY <1>2, <1>3

\* Induction along 1..b, with the claim given as the set it holds on.
LEMMA Climb ==
    ASSUME NEW b \in Nat, NEW N, 1 \in N,
           \A n \in 1..b : n \in N /\ n < b => n + 1 \in N
    PROVE  1..b \subseteq N
<1> DEFINE Miss == {n \in Nat : n \in 1..b /\ n \notin N}
<1>1. SUFFICES ASSUME Miss # {} PROVE FALSE
  OBVIOUS
<1>2. PICK m \in Miss : \A n \in Miss : m <= n
  BY <1>1, Least
<1>3. m \in Nat /\ m \in 1..b /\ m \notin N /\ m # 1
  BY <1>2
<1>4. m - 1 \in 1..b /\ m - 1 \in Nat /\ m - 1 < b /\ (m - 1) + 1 = m
  BY <1>3
<1>5. m - 1 \notin Miss
  BY <1>2, <1>3, <1>4
<1>6. m - 1 \in N
  BY <1>4, <1>5
<1>7. m \in N
  BY <1>4, <1>6
<1> QED  BY <1>3, <1>7

------------------------------------------------------------------------------
(* FlattenSeq is given by a recursive function; the two equations one would  *)
(* like to compute with follow from its being one.                           *)

Joined(q, n, f) == f = [i \in 1..n |-> IF i = 1 THEN q[i] ELSE f[i - 1] \o q[i]]

\* The recursion of FlattenSeq has a solution, of sequences over the same set.
LEMMA JoinedExists ==
    ASSUME NEW S, NEW q \in Seq(Seq(S)), q # <<>>
    PROVE  \E f : Joined(q, Len(q), f) /\ \A i \in 1..Len(q) : f[i] \in Seq(S)
<1> DEFINE Good(n, f) == Joined(q, n, f) /\ \A i \in 1..n : f[i] \in Seq(S)
           N == {n \in Nat : \E f : Good(n, f)}
<1>1. Len(q) \in Nat /\ Len(q) >= 1 /\ \A i \in 1..Len(q) : q[i] \in Seq(S)
  BY LenProperties, ElementOfSeq, EmptySeq
<1>2. 1 \in N
  <2>1. Good(1, [i \in 1..1 |-> q[i]])
    BY <1>1 DEF Joined
  <2> HIDE DEF Good
  <2> QED  BY <2>1
<1>3. ASSUME NEW n \in 1..Len(q), n \in N, n < Len(q) PROVE n + 1 \in N
  <2>1. PICK f : Good(n, f)
    BY <1>3
  <2> DEFINE g == [i \in 1..(n + 1) |-> IF i = n + 1 THEN f[n] \o q[n + 1] ELSE f[i]]
  <2>2. n \in Nat /\ n >= 1 /\ n + 1 \in 1..Len(q)
    BY <1>1, <1>3
  <2>3. \A i \in 1..n : g[i] = f[i]
    BY <2>2
  <2>4. g[n + 1] = f[n] \o q[n + 1] /\ g[n + 1] \in Seq(S)
    <3>1. g[n + 1] = f[n] \o q[n + 1]
      <4>1. n + 1 \in 1..(n + 1)
        BY <2>2
      <4> QED  BY <4>1, Zenon
    <3>2. f[n] \in Seq(S) /\ q[n + 1] \in Seq(S)
      BY <1>1, <2>1, <2>2
    <3> HIDE DEF g
    <3> QED  BY <3>1, <3>2, ConcatProperties
  <2>5. \A i \in 1..(n + 1) : g[i] = IF i = 1 THEN q[i] ELSE g[i - 1] \o q[i]
    <3> HIDE DEF g
    <3> TAKE i \in 1..(n + 1)
    <3>1. CASE i = n + 1
      <4>1. (n + 1) - 1 = n /\ n + 1 # 1 /\ n \in 1..n
        BY <2>2
      <4>2. g[n] = f[n]
        BY <4>1, <2>3
      <4> QED  BY <3>1, <4>1, <4>2, <2>4
    <3>2. CASE i \in 1..n
      <4>1. f[i] = IF i = 1 THEN q[i] ELSE f[i - 1] \o q[i]
        BY <3>2, <2>1 DEF Joined
      <4>2. g[i] = f[i]
        BY <3>2, <2>3
      <4>3. ASSUME i # 1 PROVE g[i - 1] = f[i - 1]
        <5>1. i - 1 \in 1..n
          BY <3>2, <4>3, <2>2
        <5> QED  BY <5>1, <2>3
      <4> QED  BY <4>1, <4>2, <4>3
    <3> QED  BY <3>1, <3>2, <2>2
  <2>6. Joined(q, n + 1, g)
    <3>1. g = [i \in 1..(n + 1) |-> g[i]]
      OBVIOUS
    <3> HIDE DEF g
    <3> QED  BY <2>5, <3>1, Zenon DEF Joined
  <2>7. \A i \in 1..(n + 1) : g[i] \in Seq(S)
    <3> HIDE DEF g
    <3> TAKE i \in 1..(n + 1)
    <3>1. CASE i = n + 1
      BY <3>1, <2>4
    <3>2. CASE i \in 1..n
      BY <3>2, <2>1, <2>3
    <3> QED  BY <3>1, <3>2, <2>2
  <2>8. n + 1 \in Nat /\ Good(n + 1, g)
    BY <2>2, <2>6, <2>7
  <2> HIDE DEF g, Good
  <2> QED  BY <2>8
<1> HIDE DEF Good
<1>4. Len(q) \in N
  <2> HIDE DEF N
  <2>1. 1..Len(q) \subseteq N
    BY <1>1, <1>2, <1>3, Climb
  <2> QED  BY <1>1, <2>1
<1> QED  BY <1>4 DEF Good

\* FlattenSeq(q) is the last value of such a function.
LEMMA FlattenIsJoined ==
    ASSUME NEW S, NEW q \in Seq(Seq(S)), q # <<>>
    PROVE  \E f : /\ Joined(q, Len(q), f)
                  /\ \A i \in 1..Len(q) : f[i] \in Seq(S)
                  /\ FlattenSeq(q) = f[Len(q)]
<1> DEFINE h == CHOOSE f : Joined(q, Len(q), f)
<1>1. Len(q) \in Nat /\ Len(q) # 0
  BY LenProperties, EmptySeq
<1>2. FlattenSeq(q) = h[Len(q)]
  BY <1>1, Zenon DEF FlattenSeq, Joined
<1>3. PICK f : Joined(q, Len(q), f) /\ \A i \in 1..Len(q) : f[i] \in Seq(S)
  BY JoinedExists
<1>4. Joined(q, Len(q), h)
  BY <1>3
<1> HIDE DEF h
<1>5. \A i \in 1..Len(q) : h[i] = IF i = 1 THEN q[i] ELSE h[i - 1] \o q[i]
  BY <1>4, Zenon DEF Joined
<1>6. 1..Len(q) \subseteq {n \in Nat : n \in 1..Len(q) /\ h[n] \in Seq(S)}
  <2> DEFINE N == {n \in Nat : n \in 1..Len(q) /\ h[n] \in Seq(S)}
  <2>1. \A i \in 1..Len(q) : q[i] \in Seq(S)
    BY ElementOfSeq
  <2>2. 1 \in N
    BY <1>1, <1>5, <2>1
  <2>3. ASSUME NEW n \in 1..Len(q), n \in N, n < Len(q) PROVE n + 1 \in N
    <3>1. n + 1 \in 1..Len(q) /\ n + 1 # 1 /\ (n + 1) - 1 = n /\ n + 1 \in Nat
      BY <1>1, <2>3
    <3>2. h[n + 1] = h[n] \o q[n + 1]
      BY <1>5, <3>1
    <3>3. h[n] \in Seq(S) /\ q[n + 1] \in Seq(S)
      BY <2>1, <2>3, <3>1
    <3>4. h[n + 1] \in Seq(S)
      BY <3>2, <3>3, ConcatProperties
    <3> QED  BY <3>1, <3>4
  <2> HIDE DEF N
  <2>4. 1..Len(q) \subseteq N
    BY <1>1, <2>2, <2>3, Climb
  <2> QED  BY <2>4 DEF N
<1> QED  BY <1>2, <1>4, <1>6

\* No sequences, no elements.
LEMMA FlattenEmpty == FlattenSeq(<<>>) = <<>>
BY EmptySeq, Zenon DEF FlattenSeq

\* What comes out are elements of what went in.
LEMMA FlattenType ==
    ASSUME NEW S, NEW q \in Seq(Seq(S))
    PROVE  FlattenSeq(q) \in Seq(S)
<1>1. CASE q = <<>>
  BY <1>1, FlattenEmpty, EmptySeq
<1>2. CASE q # <<>>
  <2>1. Len(q) \in 1..Len(q)
    BY <1>2, LenProperties, EmptySeq
  <2> QED  BY <1>2, <2>1, FlattenIsJoined
<1> QED  BY <1>1, <1>2

\* One sequence more is joined at the end.
LEMMA FlattenAppend ==
    ASSUME NEW S, NEW q \in Seq(Seq(S)), NEW x \in Seq(S)
    PROVE  FlattenSeq(Append(q, x)) = FlattenSeq(q) \o x
<1> DEFINE r == Append(q, x)
           n == Len(q)
<1>1. /\ r \in Seq(Seq(S)) /\ r # <<>> /\ Len(r) = n + 1 /\ n \in Nat
      /\ \A i \in 1..n : r[i] = q[i]
      /\ r[n + 1] = x
  BY AppendProperties, LenProperties
<1> HIDE DEF r
<1>2. PICK g : /\ Joined(r, Len(r), g)
               /\ \A i \in 1..Len(r) : g[i] \in Seq(S)
               /\ FlattenSeq(r) = g[Len(r)]
  BY <1>1, FlattenIsJoined
<1>3. \A i \in 1..(n + 1) : g[i] = IF i = 1 THEN r[i] ELSE g[i - 1] \o r[i]
  BY <1>1, <1>2, Zenon DEF Joined
<1>4. CASE q = <<>>
  <2>1. n = 0
    BY <1>4, EmptySeq
  <2>2. FlattenSeq(r) = x
    BY <1>1, <1>2, <1>3, <2>1
  <2>3. <<>> \o x = x
    BY ConcatEmptySeq
  <2> QED  BY <1>4, <2>2, <2>3, FlattenEmpty DEF r
<1>5. CASE q # <<>>
  <2>1. PICK f : /\ Joined(q, n, f)
                 /\ \A i \in 1..n : f[i] \in Seq(S)
                 /\ FlattenSeq(q) = f[n]
    BY <1>5, FlattenIsJoined
  <2>2. n >= 1
    BY <1>1, <1>5, EmptySeq
  <2>3. \A i \in 1..n : f[i] = IF i = 1 THEN q[i] ELSE f[i - 1] \o q[i]
    BY <2>1, Zenon DEF Joined
  <2>4. 1..n \subseteq {i \in Nat : g[i] = f[i]}
    <3> DEFINE N == {i \in Nat : g[i] = f[i]}
    <3>1. 1 \in N
      BY <1>1, <1>3, <2>2, <2>3
    <3>2. ASSUME NEW i \in 1..n, i \in N, i < n PROVE i + 1 \in N
      <4>1. i + 1 \in 1..n /\ i + 1 \in 1..(n + 1) /\ i + 1 # 1 /\ (i + 1) - 1 = i /\ i + 1 \in Nat
        BY <1>1, <3>2
      <4>2. f[i + 1] = f[i] \o q[i + 1] /\ g[i + 1] = g[i] \o r[i + 1]
        BY <1>3, <2>3, <4>1
      <4>3. r[i + 1] = q[i + 1] /\ g[i] = f[i]
        BY <1>1, <3>2, <4>1
      <4> QED  BY <4>1, <4>2, <4>3
    <3> HIDE DEF N
    <3>3. 1..n \subseteq N
      BY <1>1, <3>1, <3>2, Climb
    <3> QED  BY <3>3 DEF N
  <2>5. g[n] = f[n]
    <3>1. n \in 1..n
      BY <1>1, <2>2
    <3> HIDE DEF n
    <3> QED  BY <3>1, <2>4
  <2>6. g[n + 1] = g[n] \o r[n + 1]
    <3>1. n + 1 \in 1..(n + 1) /\ n + 1 # 1 /\ (n + 1) - 1 = n
      BY <1>1, <2>2
    <3> HIDE DEF n
    <3>2. g[n + 1] = g[(n + 1) - 1] \o r[n + 1]
      BY <1>3, <3>1, Zenon
    <3> QED  BY <3>1, <3>2
  <2> QED  BY <1>1, <1>2, <2>1, <2>5, <2>6 DEF r
<1> QED  BY <1>4, <1>5

\* An element added to the last sequence is added to the whole.
LEMMA FlattenEdit ==
    ASSUME NEW S, NEW q \in Seq(Seq(S)), q # <<>>, NEW e \in S
    PROVE  LET r == [q EXCEPT ![Len(q)] = Append(@, e)]
           IN  r \in Seq(Seq(S)) /\ r # <<>> /\ FlattenSeq(r) = Append(FlattenSeq(q), e)
<1> DEFINE r == [q EXCEPT ![Len(q)] = Append(@, e)]
<1>1. PICK s \in Seq(Seq(S)), x \in Seq(S) : q = Append(s, x)
  BY SequenceEmptyOrAppend
<1>2. Append(x, e) \in Seq(S) /\ Append(x, e) = x \o <<e>> /\ <<e>> \in Seq(S)
  BY AppendProperties, AppendIsConcat
<1> DEFINE y == Append(x, e)
           n == Len(q)
<1>3. y \in Seq(S)
  BY <1>2
<1>4. n \in Nat /\ n \in 1..Len(q) /\ q[n] = x /\ n = Len(s) + 1 /\ \A i \in 1..Len(s) : q[i] = s[i]
  BY <1>1, AppendProperties, LenProperties
<1>5. r = [q EXCEPT ![n] = y]
  BY <1>4
<1> HIDE DEF r, y, n
<1>6. Append(s, y) \in Seq(Seq(S)) /\ Append(s, y) # <<>> /\ Len(Append(s, y)) = n
      /\ (\A i \in 1..Len(s) : Append(s, y)[i] = s[i]) /\ Append(s, y)[n] = y
  <2> DEFINE R == Seq(S)
  <2> HIDE DEF R
  <2>1. s \in Seq(R) /\ y \in R
    BY <1>3 DEF R
  <2>2. /\ Append(s, y) \in Seq(R) /\ Append(s, y) # <<>>
        /\ Len(Append(s, y)) = Len(s) + 1
        /\ \A i \in 1..Len(s) : Append(s, y)[i] = s[i]
        /\ Append(s, y)[Len(s) + 1] = y
    BY <2>1, AppendProperties
  <2> QED  BY <2>2, <1>4 DEF R
<1>7. r \in Seq(Seq(S)) /\ Len(r) = n /\ \A j \in 1..n : r[j] = IF j = n THEN y ELSE q[j]
  BY <1>3, <1>4, <1>5, ExceptSeq DEF n
<1>8. \A j \in 1..n : r[j] = Append(s, y)[j]
  <2> TAKE j \in 1..n
  <2>1. j = n \/ j \in 1..Len(s)
    BY <1>4, LenProperties
  <2> QED  BY <2>1, <1>6, <1>4, <1>7
<1>9. r = Append(s, y)
  BY <1>6, <1>7, <1>8, SeqEqual
<1>10. FlattenSeq(r) = FlattenSeq(s) \o (x \o <<e>>)
  <2>1. FlattenSeq(Append(s, y)) = FlattenSeq(s) \o y
    BY <1>3, FlattenAppend
  <2> QED  BY <2>1, <1>2, <1>9 DEF y
<1>11. FlattenSeq(q) = FlattenSeq(s) \o x
  BY <1>1, FlattenAppend
<1>12. FlattenSeq(s) \in Seq(S) /\ FlattenSeq(q) \in Seq(S)
  BY FlattenType
<1>13. (FlattenSeq(s) \o x) \o <<e>> = FlattenSeq(s) \o (x \o <<e>>)
  <2> DEFINE f == FlattenSeq(s)
             z == <<e>>
  <2>1. f \in Seq(S) /\ z \in Seq(S)
    BY <1>2, <1>12
  <2> HIDE DEF f, z
  <2>2. (f \o x) \o z = f \o (x \o z)
    BY <2>1, ConcatAssociative
  <2> QED  BY <2>2 DEF f, z
<1>14. Append(FlattenSeq(q), e) = FlattenSeq(q) \o <<e>>
  BY <1>12, AppendIsConcat
<1> QED  BY <1>9, <1>6, <1>10, <1>11, <1>13, <1>14 DEF r

------------------------------------------------------------------------------
Kept(body) == IF body.body_kind \in {"state", "terminal"} THEN <<body>> ELSE <<>>

LEMMA StatefulEmpty == Stateful(<<>>) = <<>>
<1> DEFINE none == [i \in DOMAIN <<>> |-> Kept(<<>>[i])]
<1>1. DOMAIN <<>> = 1..0
  BY EmptySeq, LenProperties
<1>2. none \in [1..0 -> {}]
  BY <1>1
<1>3. Stateful(<<>>) = FlattenSeq(none)
  BY Zenon DEF Stateful, Kept
<1> HIDE DEF none
<1>4. none \in Seq({})
  BY <1>2, SeqDef
<1>5. DOMAIN none = 1..Len(none) /\ DOMAIN none = 1..0 /\ Len(none) \in Nat
  BY <1>2, <1>4, LenProperties
<1>6. none = <<>>
  BY <1>4, <1>5, EmptySeq
<1> QED  BY <1>3, <1>6, FlattenEmpty

\* The checker's list grows by the body written, or not at all.
LEMMA StatefulAppend ==
    ASSUME NEW S, NEW q \in Seq(S), NEW b \in S
    PROVE  /\ Stateful(q) \in Seq({body \in S : body.body_kind \in {"state", "terminal"}})
           /\ Stateful(Append(q, b)) =
                  IF b.body_kind \in {"state", "terminal"} THEN Append(Stateful(q), b)
                                                           ELSE Stateful(q)
<1> DEFINE T == {body \in S : body.body_kind \in {"state", "terminal"}}
           K(w) == [i \in DOMAIN w |-> Kept(w[i])]
<1>1. \A body \in S : Kept(body) \in Seq(T)
  <2> TAKE body \in S
  <2>1. CASE body.body_kind \in {"state", "terminal"}
    <3>1. body \in T
      BY <2>1
    <3> HIDE DEF T
    <3>2. <<body>> \in Seq(T)
      BY <3>1
    <3> QED  BY <2>1, <3>2 DEF Kept
  <2>2. CASE ~(body.body_kind \in {"state", "terminal"})
    BY <2>2, EmptySeq DEF Kept
  <2> QED  BY <2>1, <2>2
<1>2. ASSUME NEW w \in Seq(S) PROVE K(w) \in Seq(Seq(T)) /\ Stateful(w) = FlattenSeq(K(w))
  <2>1. DOMAIN w = 1..Len(w) /\ Len(w) \in Nat /\ \A i \in 1..Len(w) : w[i] \in S
    BY <1>2, LenProperties, ElementOfSeq
  <2>2. K(w) \in Seq(Seq(T))
    <3>1. K(w) \in [1..Len(w) -> Seq(T)]
      BY <1>1, <2>1
    <3> HIDE DEF K, T
    <3> QED  BY <2>1, <3>1, SeqDef
  <2>3. Stateful(w) = FlattenSeq(K(w))
    BY Zenon DEF Stateful, Kept
  <2> QED  BY <2>2, <2>3
<1>3. Stateful(q) \in Seq(T)
  <2> HIDE DEF K, T
  <2> QED  BY <1>2, FlattenType
<1>4. K(Append(q, b)) = Append(K(q), Kept(b))
  <2>1. DOMAIN q = 1..Len(q) /\ Len(q) \in Nat
    BY LenProperties
  <2>2. /\ DOMAIN Append(q, b) = 1..(Len(q) + 1)
        /\ \A i \in 1..Len(q) : Append(q, b)[i] = q[i]
        /\ Append(q, b)[Len(q) + 1] = b
    BY AppendProperties, LenProperties
  <2>3. K(q) \in Seq(Seq(T)) /\ Len(K(q)) = Len(q) /\ Kept(b) \in Seq(T)
    <3>1. K(q) \in Seq(Seq(T)) /\ DOMAIN K(q) = 1..Len(q)
      BY <1>2, <2>1
    <3> HIDE DEF K, T
    <3> QED  BY <1>1, <2>1, <3>1, LenProperties
  <2>4. /\ Append(K(q), Kept(b)) \in Seq(Seq(T))
        /\ Len(Append(K(q), Kept(b))) = Len(q) + 1
        /\ \A i \in 1..Len(q) : Append(K(q), Kept(b))[i] = K(q)[i]
        /\ Append(K(q), Kept(b))[Len(q) + 1] = Kept(b)
    <3> HIDE DEF K, T
    <3> QED  BY <2>3, AppendProperties
  <2>5. K(Append(q, b)) \in Seq(Seq(T)) /\ Len(K(Append(q, b))) = Len(q) + 1
    <3>1. Append(q, b) \in Seq(S)
      BY AppendProperties
    <3>2. K(Append(q, b)) \in Seq(Seq(T))
      BY <1>2, <3>1
    <3>3. DOMAIN K(Append(q, b)) = 1..(Len(q) + 1)
      BY <2>2
    <3> HIDE DEF K, T
    <3> QED  BY <2>1, <3>2, <3>3, LenProperties
  <2>6. \A i \in 1..(Len(q) + 1) : K(Append(q, b))[i] = Append(K(q), Kept(b))[i]
    <3> TAKE i \in 1..(Len(q) + 1)
    <3>1. K(Append(q, b))[i] = Kept(Append(q, b)[i])
      BY <2>2
    <3>2. i \in 1..Len(q) => K(q)[i] = Kept(q[i])
      BY <2>1
    <3>3. i = Len(q) + 1 \/ i \in 1..Len(q)
      BY <2>1
    <3> HIDE DEF K, T
    <3> QED  BY <2>2, <2>4, <3>1, <3>2, <3>3
  <2> HIDE DEF K, T
  <2> QED  BY <2>4, <2>5, <2>6, SeqEqual
<1>5. Stateful(Append(q, b)) = Stateful(q) \o Kept(b)
  <2>1. Append(q, b) \in Seq(S)
    BY AppendProperties
  <2>2. K(q) \in Seq(Seq(T)) /\ Kept(b) \in Seq(T)
    BY <1>1, <1>2
  <2>3. Stateful(Append(q, b)) = FlattenSeq(K(Append(q, b))) /\ Stateful(q) = FlattenSeq(K(q))
    BY <1>2, <2>1
  <2> HIDE DEF K, T
  <2> QED  BY <1>4, <2>2, <2>3, FlattenAppend
<1>6. b.body_kind \in {"state", "terminal"} => Stateful(q) \o <<b>> = Append(Stateful(q), b)
  <2>1. ASSUME b.body_kind \in {"state", "terminal"} PROVE b \in T
    BY <2>1
  <2> HIDE DEF T
  <2> QED  BY <1>3, <2>1, AppendIsConcat
<1>7. Stateful(q) \o <<>> = Stateful(q)
  <2> HIDE DEF T
  <2> QED  BY <1>3, ConcatEmptySeq
<1> QED  BY <1>3, <1>5, <1>6, <1>7 DEF Kept
------------------------------------------------------------------------------
(* Journals and stories.  What the checker reads of a journal is a sequence  *)
(* of stateful bodies; whether it is clean depends on nothing else.          *)

States == {"queued", "running", "cancelling", "finished", "refused"}

StatefulBodies == {body \in Bodies : body.body_kind \in {"state", "terminal"}}

Journals == Seq(Seq(Bodies)) \ {<<>>}

TypeInv == segments \in Journals

\* Every state but the first may follow the one before it.
IsPath(story) == \A i \in 2..Len(story) : story[i] \in Lifecycle[story[i - 1]]

Story(bodies) == [i \in 1..Len(bodies) |-> bodies[i].state]

\* What is left of a clean journal besides its story.
Closed(bodies) ==
    \A i \in 1..Len(bodies) :
        /\ ~Unaccounted(bodies[i])
        /\ bodies[i].state = "refused" => bodies[i].worker_invocations = 0

\* Stateful bodies have the fields the checker reads.
LEMMA StatefulShape ==
    ASSUME NEW body \in StatefulBodies
    PROVE  body.state \in States /\ body.worker_invocations \in Nat
<1>1. body # EventBody
  BY DEF StatefulBodies, EventBody
<1> QED  BY <1>1, BodiesKnown DEF StatefulBodies, States

\* The lifecycle, entry by entry.
LEMMA LifecycleEntries ==
    /\ DOMAIN Lifecycle = States
    /\ Lifecycle["queued"] = {"running", "refused"}
    /\ Lifecycle["running"] = {"cancelling", "finished"}
    /\ Lifecycle["cancelling"] = {"finished"}
    /\ Lifecycle["finished"] = {}
    /\ Lifecycle["refused"] = {}
BY DEF Lifecycle, States

LEMMA StateBodiesType ==
    ASSUME NEW segs \in Journals
    PROVE  FlattenSeq(segs) \in Seq(Bodies) /\ StateBodies(segs) \in Seq(StatefulBodies)
<1>1. FlattenSeq(segs) \in Seq(Bodies)
  BY FlattenType DEF Journals
<1>2. \A q \in Seq(Bodies) : Stateful(q) \in Seq(StatefulBodies)
  <2> TAKE q \in Seq(Bodies)
  <2>1. CASE q = <<>>
    BY <2>1, StatefulEmpty, EmptySeq
  <2>2. CASE q # <<>>
    <3>1. PICK b \in Bodies : TRUE
      BY <2>2, SequenceEmptyOrAppend
    <3> QED  BY <3>1, StatefulAppend DEF StatefulBodies
  <2> QED  BY <2>1, <2>2
<1> QED  BY <1>1, <1>2 DEF StateBodies

\* Which codes a journal gets, without the higher-order form.
LEMMA CodesByTest ==
    ASSUME NEW segs \in Journals
    PROVE  LET q == StateBodies(segs)
           IN  /\ JournalCodes(segs) \subseteq {"refused_after_launch", "lifecycle_invalid"}
               /\ "refused_after_launch" \in JournalCodes(segs) <=>
                      \E i \in 1..Len(q) : AfterLaunch(q[i], Previous(q, i))
               /\ "lifecycle_invalid" \in JournalCodes(segs) <=>
                      \E i \in 1..Len(q) :
                          \/ InvalidTransition(q[i], Previous(q, i)) /\ ~AfterLaunch(q[i], Previous(q, i))
                          \/ Unaccounted(q[i])
<1>1. DOMAIN StateBodies(segs) = 1..Len(StateBodies(segs))
  BY StateBodiesType, LenProperties
<1> QED  BY <1>1 DEF JournalCodes

\* A journal is clean when its story is a path and its ends are accounted for.
LEMMA CleanIsPath ==
    ASSUME NEW segs \in Journals
    PROVE  LET q == StateBodies(segs)
           IN  JournalCodes(segs) = {} <=> IsPath(Story(q)) /\ Closed(q)
<1> DEFINE q == StateBodies(segs)
           Pass(i) == ~AfterLaunch(q[i], Previous(q, i)) /\ ~InvalidTransition(q[i], Previous(q, i))
                      /\ ~Unaccounted(q[i])
<1>1. q \in Seq(StatefulBodies) /\ Len(q) \in Nat
  BY StateBodiesType, LenProperties
<1>2. JournalCodes(segs) = {} <=> \A i \in 1..Len(q) : Pass(i)
  BY CodesByTest
<1> HIDE DEF q
<1>3. \A i \in 1..Len(q) : q[i].state \in States /\ q[i].worker_invocations \in Nat
  BY <1>1, ElementOfSeq, StatefulShape
<1>4. Len(Story(q)) = Len(q) /\ \A i \in 1..Len(q) : Story(q)[i] = q[i].state
  BY <1>1 DEF Story
<1>5. \A i \in 2..Len(q) : Previous(q, i) = q[i - 1].state /\ i \in 1..Len(q) /\ i - 1 \in 1..Len(q)
  BY <1>1 DEF Previous
<1>6. \A i \in 1..Len(q) : i \in 2..Len(q) \/ i = 1
  BY <1>1
<1>7. Previous(q, 1) = None /\ None \notin States
  BY NoneIsNoState, LifecycleEntries DEF Previous
<1>8. ASSUME \A i \in 1..Len(q) : Pass(i) PROVE IsPath(Story(q)) /\ Closed(q)
  <2>1. ASSUME NEW i \in 2..Len(q) PROVE Story(q)[i] \in Lifecycle[Story(q)[i - 1]]
    <3>1. Previous(q, i) # None /\ Pass(i)
      BY <1>3, <1>5, <1>7, <1>8, <2>1
    <3>2. q[i].state \in Lifecycle[q[i - 1].state]
      BY <1>5, <3>1 DEF InvalidTransition
    <3> QED  BY <1>4, <1>5, <3>2
  <2>2. ASSUME NEW i \in 1..Len(q)
        PROVE  ~Unaccounted(q[i]) /\ (q[i].state = "refused" => q[i].worker_invocations = 0)
    BY <1>3, <1>8 DEF AfterLaunch
  <2> QED  BY <1>4, <2>1, <2>2 DEF IsPath, Closed
<1>9. ASSUME IsPath(Story(q)), Closed(q), NEW i \in 1..Len(q) PROVE Pass(i)
  <2>1. ~Unaccounted(q[i]) /\ (q[i].state = "refused" => q[i].worker_invocations = 0)
    BY <1>9 DEF Closed
  <2>2. CASE i = 1
    <3>1. ~InvalidTransition(q[i], Previous(q, i))
      BY <1>7, <2>2 DEF InvalidTransition
    <3>2. ~AfterLaunch(q[i], Previous(q, i))
      BY <1>7, <2>1, <2>2 DEF AfterLaunch, States
    <3> QED  BY <2>1, <3>1, <3>2
  <2>3. CASE i \in 2..Len(q)
    <3>1. q[i].state \in Lifecycle[q[i - 1].state] /\ Previous(q, i) = q[i - 1].state
      BY <1>4, <1>5, <1>9, <2>3 DEF IsPath
    <3>2. ~InvalidTransition(q[i], Previous(q, i))
      BY <3>1 DEF InvalidTransition
    <3>3. ~AfterLaunch(q[i], Previous(q, i))
      BY <2>1, <3>1, LifecycleEntries DEF AfterLaunch
    <3> QED  BY <2>1, <3>2, <3>3
  <2> QED  BY <1>6, <2>2, <2>3
<1> QED  BY <1>2, <1>8, <1>9 DEF q
------------------------------------------------------------------------------
(* The lifecycle has four ranks, so a path has at most four states.          *)

Refused == <<"queued", "refused">>
Finished == <<"queued", "running", "finished">>
Cancelled == <<"queued", "running", "cancelling", "finished">>

ARun(story) ==
    story = <<>> \/ \E run \in CompleteRuns :
                        \E from, to \in DOMAIN run : story = SubSeq(run, from, to)

\* The complete runs, entry by entry.
LEMMA RunEntries ==
    /\ CompleteRuns = {Refused, Finished, Cancelled}
    /\ Len(Refused) = 2 /\ Refused[1] = "queued" /\ Refused[2] = "refused"
    /\ Len(Finished) = 3 /\ Finished[1] = "queued" /\ Finished[2] = "running"
    /\ Finished[3] = "finished"
    /\ Len(Cancelled) = 4 /\ Cancelled[1] = "queued" /\ Cancelled[2] = "running"
    /\ Cancelled[3] = "cancelling" /\ Cancelled[4] = "finished"
BY DEF CompleteRuns, Refused, Finished, Cancelled

\* A complete run is a path through the lifecycle.
LEMMA RunsArePaths ==
    ASSUME NEW run \in CompleteRuns
    PROVE  run \in Seq(States) /\ IsPath(run) /\ DOMAIN run = 1..Len(run) /\ Len(run) \in Nat
<1>1. run \in Seq(States)
  <2> DEFINE T == States
  <2>1. "queued" \in T /\ "running" \in T /\ "cancelling" \in T /\ "finished" \in T /\ "refused" \in T
    BY DEF States
  <2> HIDE DEF T
  <2>2. Refused \in Seq(T) /\ Finished \in Seq(T) /\ Cancelled \in Seq(T)
    BY <2>1 DEF Refused, Finished, Cancelled
  <2> QED  BY <2>2, RunEntries DEF T
<1>2. DOMAIN run = 1..Len(run) /\ Len(run) \in Nat
  BY <1>1, LenProperties
<1>3. ASSUME NEW i \in 2..Len(run) PROVE run[i] \in Lifecycle[run[i - 1]]
  <2>1. \/ run = Refused /\ Len(run) = 2
        \/ run = Finished /\ Len(run) = 3
        \/ run = Cancelled /\ Len(run) = 4
    BY RunEntries
  <2>2. i = 2 \/ i = 3 \/ i = 4
    BY <1>2, <1>3, <2>1
  <2>3. (i = 2 => i - 1 = 1) /\ (i = 3 => i - 1 = 2) /\ (i = 4 => i - 1 = 3)
    OBVIOUS
  <2> QED  BY <2>1, <2>2, <2>3, <1>3, RunEntries, LifecycleEntries
<1> QED  BY <1>1, <1>2, <1>3 DEF IsPath

\* The story says what the run says from some state on.
Follows(story, run, from) ==
    /\ from \in 1..Len(run) /\ Len(story) >= 1 /\ from + Len(story) - 1 <= Len(run)
    /\ \A i \in 1..Len(story) : story[i] = run[from + i - 1]

LEMMA Stretch ==
    ASSUME NEW story \in Seq(States), NEW run \in CompleteRuns, NEW from,
           Follows(story, run, from)
    PROVE  ARun(story)
<1> DEFINE to == from + Len(story) - 1
<1>1. /\ run \in Seq(States) /\ DOMAIN run = 1..Len(run) /\ Len(run) \in Nat
      /\ Len(story) \in Nat
  BY RunsArePaths, LenProperties
<1>2. from \in DOMAIN run /\ to \in DOMAIN run /\ from \in Int /\ to \in Int /\ from <= to
      /\ to - from + 1 = Len(story)
  BY <1>1 DEF Follows
<1>3. \A i \in from..to : run[i] \in States
  <2> TAKE i \in from..to
  <2>1. i \in 1..Len(run)
    BY <1>1, <1>2
  <2> QED  BY <1>1, <2>1, ElementOfSeq
<1> HIDE DEF to
<1>4. /\ SubSeq(run, from, to) \in Seq(States) /\ Len(SubSeq(run, from, to)) = Len(story)
      /\ \A i \in 1..Len(story) : SubSeq(run, from, to)[i] = run[from + i - 1]
  BY <1>2, <1>3, SubSeqProperties
<1>5. \A i \in 1..Len(story) : story[i] = run[from + i - 1]
  BY DEF Follows
<1>6. story = SubSeq(run, from, to)
  BY <1>4, <1>5, SeqEqual
<1> QED  BY <1>2, <1>6 DEF ARun

\* Every path is a stretch of a complete run.
LEMMA PathIsStretch ==
    ASSUME NEW story \in Seq(States), IsPath(story)
    PROVE  ARun(story)
<1> DEFINE n == Len(story)
<1>1. n \in Nat /\ \A i \in 1..n : story[i] \in States
  BY LenProperties, ElementOfSeq
<1>2. \A i \in 2..n : story[i] \in Lifecycle[story[i - 1]]
  BY DEF IsPath
<1>3. CASE n = 0
  BY <1>3, EmptySeq DEF ARun
<1>4. CASE n = 1
  <2>1. story[1] \in States
    BY <1>1, <1>4
  <2>2. \/ Follows(story, Refused, 1) \/ Follows(story, Refused, 2)
        \/ Follows(story, Finished, 2) \/ Follows(story, Finished, 3)
        \/ Follows(story, Cancelled, 3)
    BY <1>4, <2>1, RunEntries DEF Follows, States
  <2> QED  BY <2>2, RunEntries, Stretch
<1>5. CASE n = 2
  <2>1. story[1] \in States /\ story[2] \in Lifecycle[story[1]]
    BY <1>1, <1>2, <1>5
  <2>2. \/ Follows(story, Refused, 1) \/ Follows(story, Finished, 1)
        \/ Follows(story, Finished, 2) \/ Follows(story, Cancelled, 2)
        \/ Follows(story, Cancelled, 3)
    BY <1>5, <2>1, RunEntries, LifecycleEntries DEF Follows, States
  <2> QED  BY <2>2, RunEntries, Stretch
<1>6. CASE n = 3
  <2>1. story[1] \in States /\ story[2] \in Lifecycle[story[1]] /\ story[3] \in Lifecycle[story[2]]
    BY <1>1, <1>2, <1>6
  <2>2. Follows(story, Finished, 1) \/ Follows(story, Cancelled, 1) \/ Follows(story, Cancelled, 2)
    BY <1>6, <2>1, RunEntries, LifecycleEntries DEF Follows, States
  <2> QED  BY <2>2, RunEntries, Stretch
<1>7. CASE n >= 4
  <2>1. 1 \in 1..n /\ 2 \in 2..n /\ 3 \in 2..n /\ 4 \in 2..n
    BY <1>1, <1>7
  <2>2. /\ story[1] \in States /\ story[2] \in Lifecycle[story[1]]
        /\ story[3] \in Lifecycle[story[2]] /\ story[4] \in Lifecycle[story[3]]
    BY <1>1, <1>2, <2>1
  <2>3. story[2] = "running" /\ story[3] = "cancelling" /\ story[4] = "finished"
    BY <2>2, LifecycleEntries DEF States
  <2>4. story[1] = "queued"
    BY <2>2, <2>3, LifecycleEntries DEF States
  <2>5. n = 4
    <3>1. ASSUME 5 \in 2..n PROVE FALSE
      <4>1. story[5] \in Lifecycle[story[4]]
        BY <1>2, <3>1
      <4> QED  BY <2>3, <4>1, LifecycleEntries
    <3>2. n \in Nat
      BY <1>1
    <3> HIDE DEF n
    <3> QED  BY <1>7, <3>1, <3>2
  <2>6. Follows(story, Cancelled, 1)
    BY <2>3, <2>4, <2>5, RunEntries DEF Follows
  <2> QED  BY <2>6, RunEntries, Stretch
<1>8. n = 0 \/ n = 1 \/ n = 2 \/ n = 3 \/ n >= 4
  <2>1. n \in Nat
    BY <1>1
  <2> HIDE DEF n
  <2> QED  BY <2>1
<1> QED  BY <1>3, <1>4, <1>5, <1>6, <1>7, <1>8

\* And every stretch of a complete run is a path.
LEMMA StretchIsPath ==
    ASSUME NEW story \in Seq(States), ARun(story)
    PROVE  IsPath(story)
<1>1. CASE story = <<>>
  BY <1>1, EmptySeq DEF IsPath
<1>2. CASE \E run \in CompleteRuns : \E from, to \in DOMAIN run : story = SubSeq(run, from, to)
  <2>1. PICK run \in CompleteRuns : \E from, to \in DOMAIN run : story = SubSeq(run, from, to)
    BY <1>2
  <2>2. PICK from \in DOMAIN run, to \in DOMAIN run : story = SubSeq(run, from, to)
    BY <2>1
  <2>3. /\ run \in Seq(States) /\ IsPath(run) /\ Len(run) \in Nat
        /\ from \in 1..Len(run) /\ to \in 1..Len(run)
    BY RunsArePaths, <2>2
  <2>4. \A i \in from..to : run[i] \in States
    <3> TAKE i \in from..to
    <3>1. i \in 1..Len(run)
      BY <2>3
    <3> QED  BY <2>3, <3>1, ElementOfSeq
  <2>5. /\ Len(story) = IF from <= to THEN to - from + 1 ELSE 0
        /\ \A i \in 1..(to - from + 1) : story[i] = run[from + i - 1]
    BY <2>2, <2>3, <2>4, SubSeqProperties
  <2>6. ASSUME NEW i \in 2..Len(story) PROVE story[i] \in Lifecycle[story[i - 1]]
    <3>1. /\ i \in 1..(to - from + 1) /\ i - 1 \in 1..(to - from + 1)
          /\ from + i - 1 \in 2..Len(run) /\ from + (i - 1) - 1 = (from + i - 1) - 1
      BY <2>3, <2>5, <2>6
    <3>2. story[i] = run[from + i - 1] /\ story[i - 1] = run[(from + i - 1) - 1]
      BY <2>5, <3>1
    <3>3. run[from + i - 1] \in Lifecycle[run[(from + i - 1) - 1]]
      BY <2>3, <3>1 DEF IsPath
    <3> QED  BY <3>2, <3>3
  <2> QED  BY <2>6 DEF IsPath
<1> QED  BY <1>1, <1>2 DEF ARun
------------------------------------------------------------------------------
\* What a line does to the checker's list: it is added to it, or it is an event.
LEMMA WriteEffect ==
    ASSUME TypeInv, NEW body \in Bodies, Write(body)
    PROVE  /\ TypeInv'
           /\ \/ StateBodies(segments') = StateBodies(segments)
              \/ /\ body \in StatefulBodies
                 /\ StateBodies(segments') = Append(StateBodies(segments), body)
<1>1. segments \in Seq(Seq(Bodies)) /\ segments # <<>>
  BY DEF TypeInv, Journals
<1>2. segments' = [segments EXCEPT ![Len(segments)] = Append(@, body)]
  BY DEF Write
<1>3. /\ segments' \in Seq(Seq(Bodies)) /\ segments' # <<>>
      /\ FlattenSeq(segments') = Append(FlattenSeq(segments), body)
  BY <1>1, <1>2, FlattenEdit
<1>4. FlattenSeq(segments) \in Seq(Bodies)
  BY <1>1, FlattenType
<1>5. Stateful(Append(FlattenSeq(segments), body)) =
          IF body.body_kind \in {"state", "terminal"}
          THEN Append(Stateful(FlattenSeq(segments)), body) ELSE Stateful(FlattenSeq(segments))
  BY <1>4, StatefulAppend
<1> QED  BY <1>3, <1>5 DEF TypeInv, Journals, StateBodies, StatefulBodies

\* A new segment is no line.
LEMMA RollEffect ==
    ASSUME TypeInv, Roll
    PROVE  TypeInv' /\ StateBodies(segments') = StateBodies(segments)
<1> DEFINE B == Seq(Bodies)
<1>1. segments \in Seq(B) /\ segments' = Append(segments, <<>>) /\ <<>> \in B
  BY EmptySeq DEF TypeInv, Journals, Roll
<1>2. FlattenSeq(segments) \in B /\ FlattenSeq(segments') = FlattenSeq(segments) \o <<>>
  BY <1>1, FlattenType, FlattenAppend
<1>3. FlattenSeq(segments') = FlattenSeq(segments)
  BY <1>2, ConcatEmptySeq
<1>4. segments' \in Seq(B) /\ segments' # <<>>
  <2> HIDE DEF B
  <2> QED  BY <1>1, AppendProperties
<1> QED  BY <1>3, <1>4 DEF TypeInv, Journals, StateBodies

LEMMA TypeInit == Init => TypeInv
<1> SUFFICES ASSUME Init PROVE TypeInv
  OBVIOUS
<1>1. <<>> \in Seq(Bodies)
  BY EmptySeq
<1>2. <<<<>>>> \in Seq(Seq(Bodies)) /\ <<<<>>>> # <<>>
  <2> DEFINE B == Seq(Bodies)
             none == <<>>
  <2>1. none \in B
    BY <1>1
  <2> HIDE DEF B, none
  <2>2. <<none>> \in Seq(B) /\ Len(<<none>>) = 1
    BY <2>1
  <2>3. <<none>> # <<>>
    BY <2>2, EmptySeq
  <2> QED  BY <2>2, <2>3 DEF B, none
<1> QED  BY <1>2 DEF Init, TypeInv, Journals

LEMMA TypeStep == TypeInv /\ [Next]_segments => TypeInv'
<1> SUFFICES ASSUME TypeInv, [Next]_segments PROVE TypeInv'
  OBVIOUS
<1>1. CASE Roll
  BY <1>1, RollEffect
<1>2. ASSUME NEW body \in Bodies, Write(body) PROVE TypeInv'
  BY <1>2, WriteEffect
<1>3. CASE UNCHANGED segments
  BY <1>3 DEF TypeInv
<1> QED  BY <1>1, <1>2, <1>3 DEF Next

LEMMA TypeSafe == Spec => []TypeInv
BY TypeInit, TypeStep, PTL DEF Spec

------------------------------------------------------------------------------
\* The story as the property spells it.
LEMMA StoryShape ==
    ASSUME TypeInv
    PROVE  LET bodies == StateBodies(segments)
           IN  /\ bodies \in Seq(StatefulBodies) /\ DOMAIN bodies = 1..Len(bodies)
               /\ Story(bodies) = [i \in DOMAIN bodies |-> bodies[i].state]
               /\ Story(bodies) \in Seq(States)
               /\ Len(Story(bodies)) = Len(bodies)
<1> DEFINE bodies == StateBodies(segments)
<1>1. bodies \in Seq(StatefulBodies) /\ DOMAIN bodies = 1..Len(bodies) /\ Len(bodies) \in Nat
  BY StateBodiesType, LenProperties DEF TypeInv
<1> HIDE DEF bodies
<1>2. \A i \in 1..Len(bodies) : bodies[i].state \in States
  BY <1>1, ElementOfSeq, StatefulShape
<1>3. Story(bodies) \in [1..Len(bodies) -> States]
  BY <1>2 DEF Story
<1>4. Story(bodies) \in Seq(States)
  BY <1>1, <1>3, SeqDef
<1>5. Len(Story(bodies)) = Len(bodies)
  BY <1>1 DEF Story
<1> QED  BY <1>1, <1>4, <1>5 DEF bodies, Story

\* A journal passes the checker exactly when its story is a stretch of one
\* complete run and its ends are accounted for, however long it is and however
\* it is cut into segments.
THEOREM CleanIsOneRun == Spec => []CleanMeansOneRun
<1>1. TypeInv => CleanMeansOneRun
  <2> SUFFICES ASSUME TypeInv PROVE CleanMeansOneRun
    OBVIOUS
  <2> DEFINE bodies == StateBodies(segments)
  <2>1. Clean <=> IsPath(Story(bodies)) /\ Closed(bodies)
    BY CleanIsPath DEF TypeInv, Clean
  <2>2. IsPath(Story(bodies)) <=> ARun(Story(bodies))
    BY StoryShape, PathIsStretch, StretchIsPath
  <2>3. Clean <=> ARun(Story(bodies)) /\ Closed(bodies)
    BY <2>1, <2>2
  <2>4. DOMAIN bodies = 1..Len(bodies) /\ Story(bodies) = [i \in DOMAIN bodies |-> bodies[i].state]
    BY StoryShape
  <2> QED  BY <2>3, <2>4, Zenon DEF CleanMeansOneRun, ARun, Closed
<1> QED  BY <1>1, TypeSafe, PTL

\* A refusal anywhere after a running state is diagnosed, in a journal of any
\* length.
THEOREM RefusalIsBeforeLaunch == Spec => []RefusalBeforeLaunch
<1>1. TypeInv => RefusalBeforeLaunch
  <2> DEFINE bodies == StateBodies(segments)
             story == Story(bodies)
  <2> SUFFICES ASSUME TypeInv, Clean, NEW i \in DOMAIN bodies, NEW j \in DOMAIN bodies,
                      i < j, bodies[i].state = "running", bodies[j].state = "refused"
               PROVE  FALSE
    BY DEF RefusalBeforeLaunch
  <2>1. ARun(story)
    <3>1. IsPath(story)
      BY CleanIsPath DEF TypeInv, Clean
    <3> QED  BY <3>1, StoryShape, PathIsStretch
  <2>2. /\ i \in 1..Len(story) /\ j \in 1..Len(story) /\ Len(story) \in Nat
        /\ story[i] = "running" /\ story[j] = "refused"
    BY StoryShape, LenProperties DEF Story
  <2> HIDE DEF story, bodies
  <2>3. story # <<>>
    BY <2>2, EmptySeq
  <2>4. PICK run \in CompleteRuns : \E from, to \in DOMAIN run : story = SubSeq(run, from, to)
    BY <2>1, <2>3 DEF ARun
  <2>5. PICK from \in DOMAIN run, to \in DOMAIN run : story = SubSeq(run, from, to)
    BY <2>4
  <2>6. /\ run \in Seq(States) /\ Len(run) \in Nat
        /\ from \in 1..Len(run) /\ to \in 1..Len(run)
    BY RunsArePaths, <2>5
  <2>7. \A k \in from..to : run[k] \in States
    <3> TAKE k \in from..to
    <3>1. k \in 1..Len(run)
      BY <2>6
    <3> QED  BY <2>6, <3>1, ElementOfSeq
  <2>8. /\ Len(story) = IF from <= to THEN to - from + 1 ELSE 0
        /\ \A k \in 1..(to - from + 1) : story[k] = run[from + k - 1]
    BY <2>5, <2>6, <2>7, SubSeqProperties
  <2>9. from + i - 1 \in 1..Len(run) /\ from + j - 1 \in 1..Len(run)
        /\ i \in 1..(to - from + 1) /\ j \in 1..(to - from + 1)
    <3>1. from <= to /\ Len(story) = to - from + 1
      BY <2>2, <2>8
    <3>2. i \in 1..(to - from + 1) /\ j \in 1..(to - from + 1)
      BY <2>2, <3>1
    <3> QED  BY <2>6, <3>1, <3>2
  <2>10. run[from + i - 1] = "running" /\ run[from + j - 1] = "refused"
    BY <2>2, <2>8, <2>9
  <2>11. ASSUME NEW k \in 1..Len(run), NEW l \in 1..Len(run),
                run[k] = "running", run[l] = "refused" PROVE FALSE
    <3>1. \/ run = Refused /\ Len(run) = 2
          \/ run = Finished /\ Len(run) = 3
          \/ run = Cancelled /\ Len(run) = 4
      BY RunEntries
    <3>2. (k = 1 \/ k = 2 \/ k = 3 \/ k = 4) /\ (l = 1 \/ l = 2 \/ l = 3 \/ l = 4)
      BY <2>11, <3>1
    <3> QED  BY <2>11, <3>1, <3>2, RunEntries
  <2> QED  BY <2>9, <2>10, <2>11
<1> QED  BY <1>1, TypeSafe, PTL

\* What is said of a journal by its codes is kept when the list grows.
LEMMA CodesGrow ==
    ASSUME NEW old \in Journals, NEW new \in Journals, NEW body \in StatefulBodies,
           StateBodies(new) = Append(StateBodies(old), body)
    PROVE  JournalCodes(old) \subseteq JournalCodes(new)
<1> DEFINE p == StateBodies(old)
           q == StateBodies(new)
<1>1. p \in Seq(StatefulBodies) /\ Len(p) \in Nat
  BY StateBodiesType, LenProperties
<1>2. Len(q) = Len(p) + 1 /\ \A i \in 1..Len(p) : q[i] = p[i]
  BY <1>1, AppendProperties
<1> HIDE DEF p, q
<1>3. \A i \in 1..Len(p) : i \in 1..Len(q) /\ Previous(q, i) = Previous(p, i)
  <2> TAKE i \in 1..Len(p)
  <2>1. i \in 1..Len(q) /\ (i # 1 => i - 1 \in 1..Len(p))
    BY <1>1, <1>2
  <2> QED  BY <1>2, <2>1 DEF Previous
<1>4. "refused_after_launch" \in JournalCodes(old) => "refused_after_launch" \in JournalCodes(new)
  BY <1>2, <1>3, CodesByTest DEF p, q
<1>5. "lifecycle_invalid" \in JournalCodes(old) => "lifecycle_invalid" \in JournalCodes(new)
  BY <1>2, <1>3, CodesByTest DEF p, q
<1> QED  BY <1>4, <1>5, CodesByTest

\* A diagnosis stays whatever is written after it, and cutting the journal
\* neither adds nor hides one.
THEOREM CodesAreKept == Spec => CodesStay
<1>1. TypeInv /\ [Next]_segments =>
          [/\ JournalCodes(segments) \subseteq JournalCodes(segments')
           /\ Roll => JournalCodes(segments') = JournalCodes(segments)]_segments
  <2> SUFFICES ASSUME TypeInv, Next
               PROVE  /\ JournalCodes(segments) \subseteq JournalCodes(segments')
                      /\ Roll => JournalCodes(segments') = JournalCodes(segments)
    OBVIOUS
  <2>1. ASSUME StateBodies(segments') = StateBodies(segments)
        PROVE  JournalCodes(segments') = JournalCodes(segments)
    BY <2>1 DEF JournalCodes
  <2>2. ASSUME Roll PROVE JournalCodes(segments') = JournalCodes(segments)
    BY <2>1, <2>2, RollEffect
  <2>3. ASSUME NEW body \in Bodies, Write(body)
        PROVE  JournalCodes(segments) \subseteq JournalCodes(segments')
    <3>1. segments \in Journals /\ segments' \in Journals
      BY <2>3, WriteEffect DEF TypeInv
    <3>2. CASE StateBodies(segments') = StateBodies(segments)
      BY <2>1, <3>2
    <3>3. CASE body \in StatefulBodies /\ StateBodies(segments') = Append(StateBodies(segments), body)
      BY <3>1, <3>3, CodesGrow
    <3> QED  BY <2>3, <3>2, <3>3, WriteEffect
  <2>4. JournalCodes(segments) \subseteq JournalCodes(segments')
    BY <2>2, <2>3 DEF Next
  <2> QED  BY <2>2, <2>4
<1> QED  BY <1>1, TypeSafe, PTL DEF Spec, CodesStay
==============================================================================
