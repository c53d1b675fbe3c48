----------------------------- MODULE JournalProofs -----------------------------
(***************************************************************************)
(* What the hash chain and the seq numbers buy, for journals of any length *)
(* and any number of overwrites: the last segment pins the whole journal;  *)
(* so a projection shown current is exact, and a read that is accepted is  *)
(* the journal of one moment.                                              *)
(***************************************************************************)
EXTENDS JournalProjection, JournalReader, SequenceTheorems, WellFoundedInduction, TLAPS

\* The shapes the arguments need: sequences of segments, each a record of a
\* nonempty sequence of lines and a flag.
IsSeq(q) == Len(q) \in Nat /\ q = [i \in 1..Len(q) |-> q[i]]

IsSegment(s) ==
    /\ s = [lines |-> s.lines, final_newline |-> s.final_newline]
    /\ IsSeq(s.lines) /\ Len(s.lines) >= 1

IsJournal(j) == IsSeq(j) /\ Len(j) >= 1 /\ \A i \in 1..Len(j) : IsSegment(j[i])

\* A nonempty set of naturals has a least element.
LEMMA Least ==
    ASSUME NEW S, S \subseteq Nat, S # {}
    PROVE  \E m \in S : \A n \in S : m <= n
<1>1. PICK m \in S : \A n \in S : ~(<<n, m>> \in OpToRel(<, Nat))
  BY NatLessThanWellFounded, WFMin
<1>2. \A n \in S : ~(n < m)
  BY <1>1 DEF OpToRel
<1>3. \A n \in S : n \in Nat
  OBVIOUS
<1>4. m \in Nat
  OBVIOUS
<1>5. \A n \in S : m <= n
  BY <1>2, <1>3, <1>4
<1> QED  BY <1>5

\* Induction along an interval, with the claim given as the set it holds on.
LEMMA Climb ==
    ASSUME NEW a \in Nat, NEW b \in Nat, NEW S, a \in S,
           \A n \in a..b : n \in S /\ n < b => n + 1 \in S
    PROVE  a..b \subseteq S
<1> DEFINE Miss == {n \in Nat : n \in a..b /\ n \notin S}
<1>1. SUFFICES ASSUME Miss # {} PROVE FALSE
  OBVIOUS
<1>2. PICK m \in Miss : \A n \in Miss : m <= n
  BY <1>1, Least
<1>3. m \in Nat /\ m \in a..b /\ m \notin S /\ m # a
  BY <1>2
<1>4. m - 1 \in a..b /\ m - 1 \in Nat /\ m - 1 < b /\ (m - 1) + 1 = m
  BY <1>3
<1>5. m - 1 \notin Miss
  BY <1>2, <1>3, <1>4
<1>6. m - 1 \in S
  BY <1>4, <1>5
<1>7. m \in S
  BY <1>4, <1>6
<1> QED  BY <1>3, <1>7

\* Equal digests are digests of equal segments.
LEMMA DigestInjective ==
    ASSUME NEW s, NEW t, IsSegment(s), IsSegment(t), Digest(s) = Digest(t)
    PROVE  s = t
<1>1. SegmentBytes(s) = SegmentBytes(t)
  BY DEF Digest
<1>2. s.lines = t.lines /\ s.final_newline = t.final_newline
  BY <1>1 DEF SegmentBytes
<1> QED  BY <1>2 DEF IsSegment

\* Two chained journals that agree on the segment with index n agree on every
\* segment before it: each header pins the segment before.
THEOREM SegmentPinsPrefix ==
    ASSUME NEW j, NEW k, IsJournal(j), IsJournal(k), ChainOk(j), ChainOk(k),
           NEW n \in Nat, 1 <= n, n <= Len(j), n <= Len(k), j[n] = k[n]
    PROVE  \A i \in 1..n : j[i] = k[i]
<1> DEFINE Gap == {d \in Nat : d < n /\ j[n - d] # k[n - d]}
<1>1. SUFFICES ASSUME NEW i \in 1..n, j[i] # k[i] PROVE FALSE
  OBVIOUS
<1>2. n - i \in Nat /\ n - i < n /\ n - (n - i) = i
  OBVIOUS
<1>3. n - i \in Gap
  BY <1>1, <1>2
<1>4. PICK d \in Gap : \A e \in Gap : d <= e
  BY <1>3, Least
<1>5. d \in Nat /\ d < n /\ j[n - d] # k[n - d]
  BY <1>4
<1>6. d # 0
  BY <1>5
<1>7. d - 1 \in Nat /\ d - 1 < n /\ d - 1 \notin Gap
  BY <1>4, <1>5, <1>6
<1> DEFINE m == n - d
<1>8. m \in 1..n /\ m + 1 \in 1..n /\ n - (d - 1) = m + 1
  BY <1>5, <1>6
<1>9. j[m + 1] = k[m + 1]
  BY <1>7, <1>8
<1>10. /\ DOMAIN j = 1..Len(j) /\ DOMAIN k = 1..Len(k)
       /\ Len(j) \in Nat /\ Len(k) \in Nat
  BY DEF IsJournal, IsSeq
<1>11. ASSUME NEW q, ChainOk(q), DOMAIN q = 1..Len(q), Len(q) \in Nat, n <= Len(q)
       PROVE  Header(q[m + 1]).previous_segment_sha256 = Digest(q[m])
  <2>1. m \in Nat /\ m + 1 \in DOMAIN q /\ m + 1 # 1 /\ (m + 1) - 1 = m
    BY <1>8, <1>11
  <2> HIDE DEF m
  <2>2. Header(q[m + 1]).previous_segment_sha256 = Digest(q[(m + 1) - 1])
    BY <2>1, <1>11 DEF ChainOk
  <2> QED  BY <2>1, <2>2
<1>12. Digest(j[m]) = Digest(k[m])
  BY <1>9, <1>10, <1>11
<1>13. IsSegment(j[m]) /\ IsSegment(k[m])
  BY <1>8, <1>10 DEF IsJournal
<1>14. j[m] = k[m]
  BY <1>12, <1>13, DigestInjective
<1> QED  BY <1>5, <1>14

\* Inside a segment seq counts up from the header's.
LEMMA SeqInSegment ==
    ASSUME NEW j, IsJournal(j), SeqOk(j), NEW i \in 1..Len(j),
           Header(j[i]).seq \in Nat
    PROVE  LastLine(j[i]).seq = Header(j[i]).seq + Len(j[i].lines) - 1
<1> DEFINE L == j[i].lines
           h == Header(j[i]).seq
           Good == {k \in 1..Len(L) : L[k].seq = h + k - 1}
<1>1. Len(L) \in Nat /\ Len(L) >= 1 /\ DOMAIN L = 1..Len(L) /\ i \in DOMAIN j
  BY DEF IsJournal, IsSegment, IsSeq
<1>2. 1 \in Good
  BY <1>1 DEF Header
<1>3. ASSUME NEW k \in 1..Len(L), k \in Good, k < Len(L)
      PROVE  k + 1 \in Good
  <2>1. k + 1 \in DOMAIN L /\ k + 1 > 1 /\ (k + 1) - 1 = k
    BY <1>1, <1>3
  <2>2. L[k + 1].seq = L[(k + 1) - 1].seq + 1
    BY <1>1, <2>1 DEF SeqOk
  <2>3. L[k + 1].seq = (h + k - 1) + 1
    BY <1>3, <2>1, <2>2
  <2>4. L[k + 1].seq = h + (k + 1) - 1
    BY <2>3, <1>1
  <2> QED  BY <2>1, <2>4, <1>1
<1> HIDE DEF Good
<1>4. \A k \in 1..Len(L) : k \in Good /\ k < Len(L) => k + 1 \in Good
  BY <1>3
<1>5. 1..Len(L) \subseteq Good
  BY <1>1, <1>2, <1>4, Climb
<1>6. Len(L) \in Good
  BY <1>1, <1>5
<1> QED  BY <1>6 DEF Good, LastLine

\* Every segment ends with a seq beyond that of the segment before it.
LEMMA SeqClimbs ==
    ASSUME NEW j, IsJournal(j), SeqOk(j)
    PROVE  \A n, i \in 1..Len(j) :
               n <= i => /\ LastLine(j[i]).seq \in Nat
                         /\ LastLine(j[i]).seq >= LastLine(j[n]).seq + (i - n)
<1> DEFINE e(i) == LastLine(j[i]).seq
           Whole == {i \in 1..Len(j) : e(i) \in Nat}
<1>1. Len(j) \in Nat /\ Len(j) >= 1 /\ DOMAIN j = 1..Len(j)
  BY DEF IsJournal, IsSeq
<1>2. ASSUME NEW i \in 1..Len(j)
      PROVE  /\ Len(j[i].lines) \in Nat /\ Len(j[i].lines) >= 1
             /\ Header(j[i]).seq = IF i = 1 THEN 0 ELSE e(i - 1) + 1
  <2>1. IsSegment(j[i])
    BY <1>2 DEF IsJournal
  <2> DEFINE L == j[i].lines
  <2>2. Len(L) \in Nat /\ Len(L) >= 1 /\ DOMAIN L = 1..Len(L)
    BY <2>1 DEF IsSegment, IsSeq
  <2>3. 1 \in DOMAIN L /\ ~(1 > 1) /\ i \in DOMAIN j
    BY <1>1, <2>2
  <2>4. L[1].seq = IF i = 1 THEN 0 ELSE e(i - 1) + 1
    BY <2>3 DEF SeqOk
  <2> QED  BY <2>2, <2>4 DEF Header
<1>3. 1 \in Whole
  <2>1. Header(j[1]).seq = 0 /\ Len(j[1].lines) \in Nat /\ Len(j[1].lines) >= 1
    BY <1>1, <1>2
  <2>2. e(1) = 0 + Len(j[1].lines) - 1
    BY <1>1, <2>1, SeqInSegment
  <2> QED  BY <1>1, <2>1, <2>2
<1>4. ASSUME NEW i \in 1..Len(j), i \in Whole, i < Len(j)
      PROVE  i + 1 \in Whole /\ e(i + 1) >= e(i) + 1
  <2>1. i + 1 \in 1..Len(j) /\ i + 1 # 1 /\ (i + 1) - 1 = i
    BY <1>1, <1>4
  <2>2. Header(j[i + 1]).seq = e(i) + 1
    BY <1>2, <2>1
  <2>3. e(i) \in Nat /\ Header(j[i + 1]).seq \in Nat
    BY <1>4, <2>2
  <2>4. e(i + 1) = Header(j[i + 1]).seq + Len(j[i + 1].lines) - 1
    BY <2>1, <2>3, SeqInSegment
  <2>5. Len(j[i + 1].lines) \in Nat /\ Len(j[i + 1].lines) >= 1
    BY <1>2, <2>1
  <2> QED  BY <2>1, <2>2, <2>3, <2>4, <2>5
<1> HIDE DEF e
<1>5. 1..Len(j) \subseteq Whole
  <2> HIDE DEF Whole
  <2>1. \A i \in 1..Len(j) : i \in Whole /\ i < Len(j) => i + 1 \in Whole
    BY <1>4
  <2> QED  BY <1>1, <1>3, <2>1, Climb
<1>6. \A i \in 1..Len(j) : e(i) \in Nat /\ (i < Len(j) => e(i + 1) >= e(i) + 1)
  BY <1>4, <1>5
<1>7. ASSUME NEW n \in 1..Len(j)
      PROVE  \A i \in n..Len(j) : e(i) >= e(n) + (i - n)
  <2> DEFINE Beyond == {i \in n..Len(j) : e(i) >= e(n) + (i - n)}
  <2>1. n \in Nat /\ Len(j) \in Nat /\ n \in Beyond
    BY <1>1, <1>6
  <2>2. ASSUME NEW i \in n..Len(j), i \in Beyond, i < Len(j)
        PROVE  i + 1 \in Beyond
    <3>1. i \in 1..Len(j) /\ i + 1 \in n..Len(j) /\ i + 1 \in 1..Len(j)
      BY <1>1, <2>2
    <3>2. e(i) \in Nat /\ e(i + 1) \in Nat /\ e(n) \in Nat /\ e(i + 1) >= e(i) + 1
      BY <1>6, <2>2, <3>1
    <3>3. e(i + 1) >= e(n) + ((i + 1) - n)
      BY <2>2, <3>1, <3>2
    <3> QED  BY <3>1, <3>3
  <2>3. n..Len(j) \subseteq Beyond
    <3> HIDE DEF Beyond
    <3>1. \A i \in n..Len(j) : i \in Beyond /\ i < Len(j) => i + 1 \in Beyond
      BY <2>2
    <3> QED  BY <2>1, <3>1, Climb
  <2> QED  BY <2>3
<1>8. \A n, i \in 1..Len(j) : n <= i => i \in n..Len(j)
  BY <1>1
<1>9. \A n, i \in 1..Len(j) : n <= i => e(i) \in Nat /\ e(i) >= e(n) + (i - n)
  BY <1>6, <1>7, <1>8
<1> QED  BY <1>9 DEF e

\* A journal that does not fail closed, has the tail seq of another such journal
\* and contains its last segment, is that journal.
THEOREM TailPinsJournal ==
    ASSUME NEW j, NEW s, IsJournal(j), IsJournal(s), ~FailsClosed(j), ~FailsClosed(s),
           LastSeq(j) = LastSeq(s),
           NEW i \in 1..Len(j), Digest(j[i]) = Digest(s[Len(s)])
    PROVE  j = s
<1>1. ChainOk(j) /\ ChainOk(s) /\ SeqOk(j) /\ SeqOk(s)
  BY DEF FailsClosed
<1>2. /\ Len(j) \in Nat /\ Len(j) >= 1 /\ DOMAIN j = 1..Len(j)
      /\ Len(s) \in Nat /\ Len(s) >= 1 /\ DOMAIN s = 1..Len(s)
      /\ j = [n \in 1..Len(j) |-> j[n]] /\ s = [n \in 1..Len(s) |-> s[n]]
  BY DEF IsJournal, IsSeq
<1>3. Len(s) \in 1..Len(s) /\ Len(j) \in 1..Len(j)
  BY <1>2
<1>4. IsSegment(j[i]) /\ IsSegment(s[Len(s)])
  BY <1>3 DEF IsJournal
<1>5. j[i] = s[Len(s)]
  BY <1>4, DigestInjective
<1>6. i - 1 = Len(s) - 1
  <2>1. Header(j[i]).segment_index = i - 1
    BY <1>1, <1>2 DEF ChainOk
  <2>2. Header(s[Len(s)]).segment_index = Len(s) - 1
    BY <1>1, <1>2, <1>3 DEF ChainOk
  <2> QED  BY <1>5, <2>1, <2>2
<1>7. i = Len(s)
  BY <1>2, <1>6
<1>8. \A n \in 1..i : j[n] = s[n]
  BY <1>1, <1>2, <1>5, <1>7, SegmentPinsPrefix
<1>9. Len(j) = i
  <2>1. /\ LastLine(j[Len(j)]).seq \in Nat
        /\ LastLine(j[Len(j)]).seq >= LastLine(j[i]).seq + (Len(j) - i)
        /\ LastLine(j[i]).seq \in Nat
    BY <1>1, <1>2, <1>3, SeqClimbs
  <2>2. LastLine(j[Len(j)]).seq = LastLine(j[i]).seq
    BY <1>5 DEF LastSeq
  <2> QED  BY <1>2, <2>1, <2>2
<1> QED  BY <1>2, <1>7, <1>8, <1>9

------------------------------------------------------------------------------
(* Journals stay journals under everything that happens to the files. *)

\* A function on 1..n is a sequence of length n.
LEMMA FunctionIsSeq ==
    ASSUME NEW n \in Nat, NEW q, q = [i \in 1..n |-> q[i]]
    PROVE  IsSeq(q) /\ Len(q) = n
<1> DEFINE S == {q[i] : i \in 1..n}
<1>1. q \in [1..n -> S]
  OBVIOUS
<1>2. q \in Seq(S)
  BY <1>1, SeqDef
<1>3. Len(q) \in Nat /\ DOMAIN q = 1..Len(q)
  BY <1>2, LenProperties
<1>4. Len(q) = n
  BY <1>1, <1>3
<1> QED  BY <1>4 DEF IsSeq

\* A sequence with one element more is a sequence, one longer, equal to the old one below.
LEMMA AppendIsSeq ==
    ASSUME NEW q, IsSeq(q), NEW x
    PROVE  IsSeq(Append(q, x)) /\ Len(Append(q, x)) = Len(q) + 1
           /\ (\A i \in 1..Len(q) : Append(q, x)[i] = q[i])
           /\ Append(q, x)[Len(q) + 1] = x
<1> DEFINE S == {q[i] : i \in 1..Len(q)} \cup {x}
<1>1. Len(q) \in Nat /\ q \in [1..Len(q) -> S]
  BY DEF IsSeq
<1>2. q \in Seq(S) /\ x \in S
  BY <1>1, SeqDef
<1>3. /\ Append(q, x) \in Seq(S)
      /\ Len(Append(q, x)) = Len(q) + 1
      /\ \A i \in 1..Len(q) : Append(q, x)[i] = q[i]
      /\ Append(q, x)[Len(q) + 1] = x
  BY <1>2, AppendProperties
<1>4. Append(q, x) = [i \in 1..Len(Append(q, x)) |-> Append(q, x)[i]]
  BY <1>3, LenProperties
<1> QED  BY <1>1, <1>3, <1>4 DEF IsSeq

\* Replacing one segment by another.
LEMMA EditJournal ==
    ASSUME NEW j, IsJournal(j), NEW i \in 1..Len(j), NEW t, IsSegment(t)
    PROVE  IsJournal([j EXCEPT ![i] = t])
<1> DEFINE k == [j EXCEPT ![i] = t]
<1>1. Len(j) \in Nat /\ Len(j) >= 1 /\ DOMAIN j = 1..Len(j)
  BY DEF IsJournal, IsSeq
<1>2. k = [n \in 1..Len(j) |-> k[n]]
  BY <1>1
<1>3. IsSeq(k) /\ Len(k) = Len(j)
  <2> HIDE DEF k
  <2> QED  BY <1>1, <1>2, FunctionIsSeq
<1>4. \A n \in 1..Len(j) : IsSegment(k[n])
  BY <1>1 DEF IsJournal
<1> QED  BY <1>1, <1>3, <1>4 DEF IsJournal

\* Adding a segment.
LEMMA GrowJournal ==
    ASSUME NEW j, IsJournal(j), NEW t, IsSegment(t)
    PROVE  IsJournal(Append(j, t))
<1> DEFINE k == Append(j, t)
<1>1. IsSeq(j) /\ Len(j) \in Nat /\ Len(j) >= 1
  BY DEF IsJournal, IsSeq
<1>2. /\ IsSeq(k) /\ Len(k) = Len(j) + 1
      /\ \A n \in 1..Len(j) : k[n] = j[n]
      /\ k[Len(j) + 1] = t
  BY <1>1, AppendIsSeq
<1> HIDE DEF k
<1>3. ASSUME NEW n \in 1..Len(k) PROVE IsSegment(k[n])
  <2>1. n \in 1..Len(j) \/ n = Len(j) + 1
    BY <1>1, <1>2
  <2> QED  BY <1>2, <2>1 DEF IsJournal
<1>4. IsJournal(k)
  BY <1>1, <1>2, <1>3 DEF IsJournal
<1> QED  BY <1>4 DEF k

\* A segment with one line.
LEMMA OneLine ==
    ASSUME NEW line, NEW flag
    PROVE  IsSegment([lines |-> <<line>>, final_newline |-> flag])
<1>1. Len(<<line>>) = 1 /\ <<line>> = [i \in 1..1 |-> <<line>>[i]]
  OBVIOUS
<1>2. IsSeq(<<line>>)
  BY <1>1 DEF IsSeq
<1> QED  BY <1>1, <1>2 DEF IsSegment

\* Changing one field of a segment.
LEMMA SegmentExcept ==
    ASSUME NEW x, IsSegment(x), NEW v
    PROVE  /\ [x EXCEPT !.lines = v] = [lines |-> v, final_newline |-> x.final_newline]
           /\ [x EXCEPT !.final_newline = v] = [lines |-> x.lines, final_newline |-> v]
<1>1. x = [lines |-> x.lines, final_newline |-> x.final_newline]
  BY DEF IsSegment
<1> DEFINE a == x.lines
           b == x.final_newline
<1> HIDE DEF a, b
<1>2. x = [lines |-> a, final_newline |-> b]
  BY <1>1 DEF a, b
<1>3. /\ [x EXCEPT !.lines = v] = [lines |-> v, final_newline |-> b]
      /\ [x EXCEPT !.final_newline = v] = [lines |-> a, final_newline |-> v]
  BY <1>2
<1> QED  BY <1>3 DEF a, b

\* A line appended to the open segment, with or without its newline.
LEMMA AddLineShape ==
    ASSUME NEW j, IsJournal(j), NEW line
    PROVE  IsJournal(AddLine(j, line)) /\ Len(AddLine(j, line)) = Len(j)
<1> DEFINE n == Len(j)
           t == [j[n] EXCEPT !.lines = Append(j[n].lines, line)]
<1>1. n \in Nat /\ n \in 1..Len(j) /\ DOMAIN j = 1..Len(j)
  BY DEF IsJournal, IsSeq
<1>2. IsSegment(j[n])
  BY <1>1 DEF IsJournal
<1>3. t = [lines |-> Append(j[n].lines, line), final_newline |-> j[n].final_newline]
  BY <1>2, SegmentExcept
<1>4. IsSegment(t)
  <2>1. IsSeq(Append(j[n].lines, line)) /\ Len(Append(j[n].lines, line)) >= 1
    <3>1. IsSeq(j[n].lines) /\ Len(j[n].lines) \in Nat
      BY <1>2 DEF IsSegment, IsSeq
    <3>2. /\ IsSeq(Append(j[n].lines, line))
          /\ Len(Append(j[n].lines, line)) = Len(j[n].lines) + 1
      BY <3>1, AppendIsSeq
    <3> QED  BY <3>1, <3>2
  <2> QED  BY <1>3, <2>1 DEF IsSegment
<1>5. AddLine(j, line) = [j EXCEPT ![n] = t]
  BY DEF AddLine
<1>6. IsJournal([j EXCEPT ![n] = t])
  BY <1>1, <1>4, EditJournal
<1>7. Len([j EXCEPT ![n] = t]) = Len(j)
  BY <1>1, FunctionIsSeq
<1> QED  BY <1>5, <1>6, <1>7

\* A line torn by a crash leaves a well formed journal, its last segment without a newline.
LEMMA TornLineShape ==
    ASSUME NEW j, IsJournal(j), NEW line
    PROVE  IsJournal(TornLine(j, line))
<1> DEFINE k == AddLine(j, line)
           n == Len(j)
           t == [k[n] EXCEPT !.final_newline = FALSE]
<1>1. IsJournal(k) /\ Len(k) = n /\ n \in Nat /\ n \in 1..Len(k)
  BY AddLineShape DEF IsJournal, IsSeq
<1> HIDE DEF k, n
<1>2. IsSegment(k[n])
  BY <1>1 DEF IsJournal
<1>3. t = [lines |-> k[n].lines, final_newline |-> FALSE]
  BY <1>2, SegmentExcept
<1>4. IsSegment(t)
  BY <1>2, <1>3 DEF IsSegment
<1>5. TornLine(j, line) = [k EXCEPT ![n] = t]
  BY DEF TornLine, k, n
<1>6. IsJournal([k EXCEPT ![n] = t])
  BY <1>1, <1>4, EditJournal
<1> QED  BY <1>5, <1>6

\* A body line that says something else.
LEMMA OverwriteShape ==
    ASSUME NEW j, IsJournal(j), NEW i \in 1..Len(j), NEW k \in DOMAIN j[i].lines, NEW line
    PROVE  IsJournal([j EXCEPT ![i].lines[k] = line])
<1> DEFINE L == [j[i].lines EXCEPT ![k] = line]
           t == [j[i] EXCEPT !.lines = L]
<1>1. IsSegment(j[i])
  BY DEF IsJournal
<1>2. Len(j[i].lines) \in Nat /\ Len(j[i].lines) >= 1 /\ DOMAIN j[i].lines = 1..Len(j[i].lines)
  BY <1>1 DEF IsSegment, IsSeq
<1>3. L = [n \in 1..Len(j[i].lines) |-> L[n]]
  BY <1>2
<1>4. IsSeq(L) /\ Len(L) >= 1
  <2> HIDE DEF L
  <2> QED  BY <1>2, <1>3, FunctionIsSeq
<1>5. t = [lines |-> L, final_newline |-> j[i].final_newline]
  BY <1>1 DEF IsSegment
<1>6. IsSegment(t)
  BY <1>4, <1>5 DEF IsSegment
<1>7. IsJournal([j EXCEPT ![i] = t])
  BY <1>6, EditJournal
<1>8. [j EXCEPT ![i].lines[k] = line] = [j EXCEPT ![i] = t]
  OBVIOUS
<1> QED  BY <1>7, <1>8
------------------------------------------------------------------------------
(* The projection. *)

\* Inductive invariant: the files are always a journal in shape, whole or not,
\* and the projection carries the tail of the whole journal it was derived from.
Derived ==
    /\ IsJournal(source)
    /\ ~FailsClosed(source)
    /\ projection.journal_seq = LastSeq(source)
    /\ projection.segment_sha256 = Digest(source[Len(source)])

PInv == IsJournal(journal) /\ (projection # None => Derived)

\* The journal starts as one segment with its header.
LEMMA InitShape == ProjectionInit => PInv
<1> SUFFICES ASSUME ProjectionInit PROVE PInv
  OBVIOUS
<1>1. journal = <<FirstSegment>> /\ projection = None
  BY DEF ProjectionInit, DiskInit
<1>2. IsSegment(FirstSegment)
  BY OneLine DEF FirstSegment
<1>3. IsJournal(<<FirstSegment>>)
  <2>1. Len(<<FirstSegment>>) = 1
        /\ <<FirstSegment>> = [i \in 1..1 |-> <<FirstSegment>>[i]]
        /\ <<FirstSegment>>[1] = FirstSegment
    OBVIOUS
  <2> QED  BY <1>2, <2>1 DEF IsJournal, IsSeq
<1> QED  BY <1>1, <1>3 DEF PInv

\* Whatever the writer, a crash or an overwrite does, the files stay a journal
\* in shape.
LEMMA DiskStepShape == IsJournal(journal) /\ DiskStep => IsJournal(journal')
<1> SUFFICES ASSUME IsJournal(journal), DiskStep PROVE IsJournal(journal')
  OBVIOUS
<1>1. ASSUME NEW line, AppendLine(line) PROVE IsJournal(journal')
  BY <1>1, AddLineShape DEF AppendLine
<1>2. CASE Roll
  <2>1. journal' = AddSegment(journal)
    BY <1>2 DEF Roll
  <2> QED  BY <2>1, OneLine, GrowJournal DEF AddSegment
<1>3. CASE Exit
  BY <1>3 DEF Exit
<1>4. CASE CrashInAppend
  <2>1. CASE \E line \in NextLines \cup {Raw} : journal' = TornLine(journal, line)
    BY <2>1, TornLineShape
  <2>2. CASE journal' = TornSegment(journal)
    BY <2>2, OneLine, GrowJournal DEF TornSegment
  <2> QED  BY <1>4, <2>1, <2>2 DEF CrashInAppend
<1>5. CASE ReusePid
  BY <1>5 DEF ReusePid
<1>6. ASSUME NEW i \in DOMAIN journal, NEW k \in DOMAIN journal[i].lines, Overwrite(i, k)
      PROVE  IsJournal(journal')
  <2>1. i \in 1..Len(journal)
    BY DEF IsJournal, IsSeq
  <2>2. PICK line : journal' = [journal EXCEPT ![i].lines[k] = line]
    BY <1>6 DEF Overwrite
  <2> QED  BY <2>1, <2>2, OverwriteShape
<1> QED  BY <1>1, <1>2, <1>3, <1>4, <1>5, <1>6 DEF DiskStep

\* Every step of writer, crash, overwriting and derivation keeps journal and source well formed.
LEMMA StepShape == PInv /\ [ProjectionNext]_projectionVars => PInv'
<1> SUFFICES ASSUME PInv, [ProjectionNext]_projectionVars PROVE PInv'
  OBVIOUS
<1>1. CASE DiskStep /\ UNCHANGED <<projection, source>>
  <2>1. IsJournal(journal')
    BY <1>1, DiskStepShape DEF PInv
  <2> QED  BY <1>1, <2>1 DEF PInv, Derived
<1>2. CASE Derive
  <2>1. /\ source' = journal /\ journal' = journal
        /\ projection'.journal_seq = LastSeq(journal)
        /\ projection'.segment_sha256 = Digest(journal[Len(journal)])
        /\ ~FailsClosed(journal)
    BY <1>2 DEF Derive, disk, Open
  <2> QED  BY <2>1 DEF PInv, Derived
<1>3. CASE UNCHANGED projectionVars
  BY <1>3 DEF projectionVars, disk, PInv, Derived
<1> QED  BY <1>1, <1>2, <1>3 DEF ProjectionNext

\* The shape invariant and the two pinning theorems give CurrentProjectionIsExact.
LEMMA ProjectionIsExact == PInv => CurrentProjectionIsExact
<1> SUFFICES ASSUME PInv, projection # None, ~FailsClosed(journal),
                    ProjectionShown = "current"
             PROVE  journal = source
  BY DEF CurrentProjectionIsExact
<1>1. IsJournal(journal) /\ Derived
  BY DEF PInv
<1>2. /\ ~(projection.journal_seq < LastSeq(journal))
      /\ ~(projection.journal_seq > LastSeq(journal))
      /\ \E i \in DOMAIN journal : Digest(journal[i]) = projection.segment_sha256
  BY DEF ProjectionShown, NotFromJournal
<1>3. DOMAIN journal = 1..Len(journal)
  BY <1>1 DEF IsJournal, IsSeq
<1>4. PICK i \in 1..Len(journal) : Digest(journal[i]) = Digest(source[Len(source)])
  BY <1>1, <1>2, <1>3 DEF Derived
<1>5. ASSUME NEW j, IsJournal(j), ~FailsClosed(j)
      PROVE  LastSeq(j) \in Nat
  <2>1. Len(j) \in 1..Len(j)
    BY <1>5 DEF IsJournal, IsSeq
  <2>2. Len(j) <= Len(j)
    BY <2>1
  <2> QED  BY <1>5, <2>1, <2>2, SeqClimbs DEF FailsClosed, LastSeq
<1>6. LastSeq(journal) \in Nat /\ LastSeq(source) \in Nat
  BY <1>1, <1>5 DEF Derived
<1>7. LastSeq(journal) = LastSeq(source)
  BY <1>1, <1>2, <1>6 DEF Derived
<1> QED  BY <1>1, <1>4, <1>7, TailPinsJournal DEF Derived

\* In every behaviour, for any number of lines, segments and overwrites: a
\* projection shown current speaks for a journal that is, byte for byte, the one
\* the projection was derived from.
THEOREM ProjectionExact == ProjectionSpec => []CurrentProjectionIsExact
<1>1. ProjectionSpec => []PInv
  BY InitShape, StepShape, PTL DEF ProjectionSpec
<1> QED  BY <1>1, ProjectionIsExact, PTL

------------------------------------------------------------------------------
(* What the writer, a crash and an overwrite do to each segment. *)

\* A line more: the other segments stay, the last keeps its header.
LEMMA AddLineFacts ==
    ASSUME NEW j, IsJournal(j), NEW line
    PROVE  LET n == Len(j)
               k == AddLine(j, line)
           IN  /\ IsJournal(k) /\ Len(k) = n
               /\ \A i \in 1..n : i # n => k[i] = j[i]
               /\ Len(k[n].lines) = Len(j[n].lines) + 1
               /\ \A m \in 1..Len(j[n].lines) : k[n].lines[m] = j[n].lines[m]
               /\ k[n].lines[Len(j[n].lines) + 1] = line
               /\ k[n].final_newline = j[n].final_newline
               /\ Header(k[n]) = Header(j[n]) /\ LastLine(k[n]) = line
<1> DEFINE n == Len(j)
           k == AddLine(j, line)
           old == j[n].lines
           new == Append(old, line)
           t == [lines |-> new, final_newline |-> j[n].final_newline]
<1>1. IsJournal(k) /\ Len(k) = n
  BY AddLineShape
<1>2. n \in Nat /\ n \in 1..Len(j) /\ DOMAIN j = 1..Len(j) /\ IsSegment(j[n])
  BY DEF IsJournal, IsSeq
<1>3. IsSeq(old) /\ Len(old) \in Nat /\ Len(old) >= 1
  BY <1>2 DEF IsSegment, IsSeq
<1>4. /\ IsSeq(new) /\ Len(new) = Len(old) + 1
      /\ \A m \in 1..Len(old) : new[m] = old[m]
      /\ new[Len(old) + 1] = line
  BY <1>3, AppendIsSeq
<1>5. [j[n] EXCEPT !.lines = new] = t
  BY <1>2, SegmentExcept
<1>6. k = [j EXCEPT ![n] = t]
  BY <1>5 DEF AddLine
<1> HIDE DEF k, n, old, new
<1>7. k[n] = t /\ \A i \in 1..n : i # n => k[i] = j[i]
  BY <1>2, <1>6 DEF n
<1>8. k[n].lines = new /\ k[n].final_newline = j[n].final_newline
  BY <1>7
<1>9. Header(k[n]) = Header(j[n]) /\ LastLine(k[n]) = line
  BY <1>3, <1>4, <1>8 DEF Header, LastLine, old
<1> QED  BY <1>1, <1>3, <1>4, <1>7, <1>8, <1>9 DEF n, k, old

\* A torn line is a line more, without its newline.
LEMMA TornLineFacts ==
    ASSUME NEW j, IsJournal(j), NEW line
    PROVE  LET n == Len(j)
               k == TornLine(j, line)
           IN  /\ IsJournal(k) /\ Len(k) = n
               /\ \A i \in 1..n : i # n => k[i] = j[i]
               /\ k[n].lines = AddLine(j, line)[n].lines
               /\ ~k[n].final_newline
               /\ LastLine(k[n]) = line
<1> DEFINE n == Len(j)
           a == AddLine(j, line)
           k == TornLine(j, line)
           t == [lines |-> a[n].lines, final_newline |-> FALSE]
<1>1. /\ IsJournal(a) /\ Len(a) = n /\ LastLine(a[n]) = line
      /\ \A i \in 1..n : i # n => a[i] = j[i]
  BY AddLineFacts
<1>2. n \in Nat /\ n \in 1..n /\ DOMAIN a = 1..n /\ IsSegment(a[n])
  BY <1>1 DEF IsJournal, IsSeq
<1>3. IsJournal(k)
  BY TornLineShape
<1> HIDE DEF a, k, n
<1>4. [a[n] EXCEPT !.final_newline = FALSE] = t
  BY <1>2, SegmentExcept
<1>5. k = [a EXCEPT ![n] = t]
  BY <1>4 DEF TornLine, k, a, n
<1>6. k[n] = t /\ (\A i \in 1..n : i # n => k[i] = a[i]) /\ DOMAIN k = 1..n
  BY <1>2, <1>5
<1>7. Len(k) = n
  <2>1. DOMAIN k = 1..Len(k) /\ Len(k) \in Nat
    BY <1>3 DEF IsJournal, IsSeq
  <2> QED  BY <1>2, <1>6, <2>1
<1>8. k[n].lines = a[n].lines /\ ~k[n].final_newline
  BY <1>6
<1>9. LastLine(k[n]) = line
  BY <1>1, <1>8 DEF LastLine
<1> QED  BY <1>1, <1>3, <1>6, <1>7, <1>8, <1>9 DEF n, k, a

\* A segment more: the others stay.
LEMMA GrowFacts ==
    ASSUME NEW j, IsJournal(j), NEW line, NEW flag
    PROVE  LET n == Len(j)
               t == [lines |-> <<line>>, final_newline |-> flag]
               k == Append(j, t)
           IN  /\ IsJournal(k) /\ Len(k) = n + 1
               /\ \A i \in 1..n : k[i] = j[i]
               /\ k[n + 1] = t
               /\ Header(k[n + 1]) = line /\ LastLine(k[n + 1]) = line
               /\ Len(k[n + 1].lines) = 1 /\ k[n + 1].lines[1] = line
<1> DEFINE n == Len(j)
           t == [lines |-> <<line>>, final_newline |-> flag]
           k == Append(j, t)
<1>1. IsSegment(t)
  BY OneLine
<1>2. IsJournal(k)
  BY <1>1, GrowJournal
<1>3. IsSeq(j)
  BY DEF IsJournal
<1> HIDE DEF t
<1>4. Len(k) = n + 1 /\ (\A i \in 1..n : k[i] = j[i]) /\ k[n + 1] = t
  BY <1>3, AppendIsSeq
<1>5. Len(t.lines) = 1 /\ t.lines[1] = line
  BY DEF t
<1>6. Header(t) = line /\ LastLine(t) = line
  BY <1>5 DEF Header, LastLine
<1> HIDE DEF k
<1> QED  BY <1>2, <1>4, <1>5, <1>6 DEF k, t

Overwritten(j, i, m, line) == [j EXCEPT ![i].lines[m] = line]

\* An overwritten line: everything else stays.
LEMMA OverwriteFacts ==
    ASSUME NEW j, IsJournal(j), NEW i \in 1..Len(j), NEW m \in DOMAIN j[i].lines, NEW line
    PROVE  LET k == Overwritten(j, i, m, line)
           IN  /\ IsJournal(k) /\ Len(k) = Len(j)
               /\ \A g \in 1..Len(j) : g # i => k[g] = j[g]
               /\ Len(k[i].lines) = Len(j[i].lines)
               /\ \A g \in 1..Len(j[i].lines) :
                      k[i].lines[g] = IF g = m THEN line ELSE j[i].lines[g]
               /\ k[i].final_newline = j[i].final_newline
<1> DEFINE k == Overwritten(j, i, m, line)
           L == [j[i].lines EXCEPT ![m] = line]
           t == [lines |-> L, final_newline |-> j[i].final_newline]
<1>1. IsJournal(k)
  BY OverwriteShape DEF Overwritten
<1>2. /\ IsSegment(j[i]) /\ Len(j) \in Nat /\ DOMAIN j = 1..Len(j)
      /\ Len(j[i].lines) \in Nat /\ DOMAIN j[i].lines = 1..Len(j[i].lines)
  BY DEF IsJournal, IsSegment, IsSeq
<1>3. [j[i] EXCEPT !.lines = L] = t
  BY <1>2, SegmentExcept
<1>4. k = [j EXCEPT ![i] = [j[i] EXCEPT !.lines = L]]
  BY DEF Overwritten
<1>5. k = [j EXCEPT ![i] = t]
  BY <1>3, <1>4
<1> HIDE DEF k
<1>6. k[i] = t /\ (\A g \in 1..Len(j) : g # i => k[g] = j[g]) /\ DOMAIN k = 1..Len(j)
  BY <1>2, <1>5
<1>7. Len(k) = Len(j)
  <2>1. DOMAIN k = 1..Len(k) /\ Len(k) \in Nat
    BY <1>1 DEF IsJournal, IsSeq
  <2> QED  BY <1>2, <1>6, <2>1
<1>8. /\ \A g \in 1..Len(j[i].lines) : L[g] = IF g = m THEN line ELSE j[i].lines[g]
      /\ L = [g \in 1..Len(j[i].lines) |-> L[g]]
  BY <1>2
<1> HIDE DEF L
<1>9. Len(L) = Len(j[i].lines)
  BY <1>2, <1>8, FunctionIsSeq
<1>10. k[i].lines = L /\ k[i].final_newline = j[i].final_newline
  BY <1>6
<1> QED  BY <1>1, <1>6, <1>7, <1>8, <1>9, <1>10 DEF k

------------------------------------------------------------------------------
(* What the writer writes does not fail closed. *)

\* The indices of a journal.
LEMMA Indices ==
    ASSUME NEW j, IsJournal(j)
    PROVE  /\ Len(j) \in Nat /\ Len(j) >= 1 /\ Len(j) \in 1..Len(j)
           /\ DOMAIN j = 1..Len(j)
           /\ \A i \in 1..Len(j) :
                  /\ Len(j[i].lines) \in Nat /\ Len(j[i].lines) >= 1
                  /\ DOMAIN j[i].lines = 1..Len(j[i].lines)
<1>1. IsSeq(j) /\ Len(j) >= 1 /\ \A i \in 1..Len(j) : IsSegment(j[i])
  BY DEF IsJournal
<1>2. Len(j) \in Nat /\ Len(j) \in 1..Len(j) /\ DOMAIN j = 1..Len(j)
  BY <1>1 DEF IsSeq
<1>3. ASSUME NEW i \in 1..Len(j)
      PROVE  /\ Len(j[i].lines) \in Nat /\ Len(j[i].lines) >= 1
             /\ DOMAIN j[i].lines = 1..Len(j[i].lines)
  BY <1>1 DEF IsSegment, IsSeq
<1> QED  BY <1>1, <1>2, <1>3

\* The index before an index that is not the first.
LEMMA IndexBefore ==
    ASSUME NEW n \in Nat, NEW i \in 1..n, i # 1
    PROVE  i - 1 \in 1..n /\ i - 1 # n
OBVIOUS

\* The chain is in the headers and the sealed segments.
LEMMA ChainOfSealed ==
    ASSUME NEW j, NEW k, IsJournal(j), IsJournal(k), Len(k) = Len(j),
           \A i \in 1..Len(j) : i # Len(j) => k[i] = j[i],
           Header(k[Len(j)]) = Header(j[Len(j)]),
           ChainOk(j)
    PROVE  ChainOk(k)
<1> DEFINE n == Len(j)
<1>1. n \in Nat /\ DOMAIN j = 1..n /\ DOMAIN k = 1..n
  BY Indices
<1> SUFFICES ASSUME NEW i \in 1..n
             PROVE  /\ Header(k[i]).segment_index = i - 1
                    /\ Header(k[i]).previous_segment_sha256 =
                           IF i = 1 THEN None ELSE Digest(k[i - 1])
  BY <1>1 DEF ChainOk
<1>2. Header(k[i]) = Header(j[i])
  OBVIOUS
<1>3. i # 1 => k[i - 1] = j[i - 1]
  <2>1. i # 1 => i - 1 \in 1..n /\ i - 1 # n
    BY <1>1, IndexBefore
  <2> QED  BY <2>1
<1> QED  BY <1>1, <1>2, <1>3 DEF ChainOk

\* The next line by seq keeps the count.
LEMMA SeqOfLonger ==
    ASSUME NEW j, IsJournal(j), SeqOk(j), NEW line, line.seq = LastSeq(j) + 1
    PROVE  SeqOk(AddLine(j, line))
<1> DEFINE n == Len(j)
           k == AddLine(j, line)
<1>1. /\ n \in Nat /\ n \in 1..n /\ DOMAIN j = 1..n
      /\ \A i \in 1..n : Len(j[i].lines) \in Nat /\ Len(j[i].lines) >= 1
                         /\ DOMAIN j[i].lines = 1..Len(j[i].lines)
  BY Indices
<1>2. /\ IsJournal(k) /\ Len(k) = n
      /\ \A i \in 1..n : i # n => k[i] = j[i]
      /\ Len(k[n].lines) = Len(j[n].lines) + 1
      /\ \A m \in 1..Len(j[n].lines) : k[n].lines[m] = j[n].lines[m]
      /\ k[n].lines[Len(j[n].lines) + 1] = line
      /\ Header(k[n]) = Header(j[n])
  BY AddLineFacts
<1> HIDE DEF k
<1>3. DOMAIN k = 1..n /\ DOMAIN k[n].lines = 1..(Len(j[n].lines) + 1)
  BY <1>1, <1>2, Indices
<1> SUFFICES ASSUME NEW i \in 1..n
             PROVE  /\ Header(k[i]).previous_last_seq =
                           IF i = 1 THEN None ELSE LastLine(k[i - 1]).seq
                    /\ \A m \in DOMAIN k[i].lines :
                           k[i].lines[m].seq =
                               IF m > 1 THEN k[i].lines[m - 1].seq + 1
                               ELSE IF i = 1 THEN 0
                               ELSE LastLine(k[i - 1]).seq + 1
  BY <1>3 DEF SeqOk, k
<1>4. Header(k[i]) = Header(j[i]) /\ (i # 1 => k[i - 1] = j[i - 1])
  <2>1. i # 1 => i - 1 \in 1..n /\ i - 1 # n
    BY <1>1, IndexBefore
  <2> HIDE DEF n
  <2> QED  BY <1>2, <2>1
<1>5. /\ Header(j[i]).previous_last_seq =
             IF i = 1 THEN None ELSE LastLine(j[i - 1]).seq
      /\ \A m \in DOMAIN j[i].lines :
             j[i].lines[m].seq =
                 IF m > 1 THEN j[i].lines[m - 1].seq + 1
                 ELSE IF i = 1 THEN 0
                 ELSE LastLine(j[i - 1]).seq + 1
  BY <1>1 DEF SeqOk
<1>6. CASE i # n
  BY <1>2, <1>4, <1>5, <1>6
<1>7. CASE i = n
  <2>1. ASSUME NEW m \in 1..Len(j[n].lines)
        PROVE  k[n].lines[m].seq =
                   IF m > 1 THEN k[n].lines[m - 1].seq + 1
                   ELSE IF i = 1 THEN 0
                   ELSE LastLine(k[i - 1]).seq + 1
    <3>1. m > 1 => k[n].lines[m - 1] = j[n].lines[m - 1]
      <4>1. m > 1 => m - 1 \in 1..Len(j[n].lines)
        BY <1>1
      <4> HIDE DEF n
      <4> QED  BY <1>2, <4>1
    <3> QED  BY <1>1, <1>2, <1>4, <1>5, <1>7, <3>1
  <2>2. LET m == Len(j[n].lines) + 1
        IN  m > 1 /\ k[n].lines[m].seq = k[n].lines[m - 1].seq + 1
    <3>1. LastSeq(j) = j[n].lines[Len(j[n].lines)].seq
      BY DEF LastSeq, LastLine
    <3> HIDE DEF n
    <3> DEFINE c == Len(j[n].lines)
    <3>2. c \in Nat /\ c >= 1 /\ c \in 1..c /\ (c + 1) - 1 = c /\ c + 1 > 1
      BY <1>1
    <3>3. k[n].lines[c] = j[n].lines[c] /\ k[n].lines[c + 1].seq = LastSeq(j) + 1
      BY <1>2, <3>2
    <3> HIDE DEF c
    <3>4. k[n].lines[c + 1].seq = k[n].lines[(c + 1) - 1].seq + 1 /\ c + 1 > 1
      BY <3>1, <3>2, <3>3 DEF c
    <3> QED  BY <3>4 DEF c
  <2>3. \A m \in DOMAIN k[n].lines :
            m \in 1..Len(j[n].lines) \/ m = Len(j[n].lines) + 1
    BY <1>1, <1>3
  <2> QED  BY <1>4, <1>5, <1>7, <2>1, <2>2, <2>3
<1> QED  BY <1>6, <1>7

\* A new segment whose header continues the count keeps it.
LEMMA SeqOfGrown ==
    ASSUME NEW j, IsJournal(j), SeqOk(j)
    PROVE  SeqOk(AddSegment(j))
<1> DEFINE n == Len(j)
           h == HeaderLine(n, Digest(j[n]), LastSeq(j), LastSeq(j) + 1)
           k == AddSegment(j)
<1>1. n \in Nat /\ n >= 1 /\ DOMAIN j = 1..n
  BY Indices
<1>2. k = Append(j, [lines |-> <<h>>, final_newline |-> TRUE])
  BY DEF AddSegment
<1> HIDE DEF k
<1>3. /\ IsJournal(k) /\ Len(k) = n + 1
      /\ \A i \in 1..n : k[i] = j[i]
      /\ Header(k[n + 1]) = h
      /\ Len(k[n + 1].lines) = 1 /\ k[n + 1].lines[1] = h
  <2> HIDE DEF h
  <2> QED  BY <1>2, GrowFacts
<1>4. DOMAIN k = 1..(n + 1) /\ DOMAIN k[n + 1].lines = 1..1
  <2>1. n + 1 \in 1..Len(k)
    BY <1>1, <1>3
  <2> QED  BY <1>3, <2>1, Indices
<1> SUFFICES ASSUME NEW i \in 1..(n + 1)
             PROVE  /\ Header(k[i]).previous_last_seq =
                           IF i = 1 THEN None ELSE LastLine(k[i - 1]).seq
                    /\ \A m \in DOMAIN k[i].lines :
                           k[i].lines[m].seq =
                               IF m > 1 THEN k[i].lines[m - 1].seq + 1
                               ELSE IF i = 1 THEN 0
                               ELSE LastLine(k[i - 1]).seq + 1
  BY <1>4 DEF SeqOk, k
<1>5. CASE i \in 1..n
  <2>1. k[i] = j[i] /\ (i # 1 => k[i - 1] = j[i - 1])
    BY <1>1, <1>3, <1>5
  <2> QED  BY <1>1, <1>5, <2>1 DEF SeqOk
<1>6. CASE i = n + 1
  <2>1. k[i - 1] = j[n] /\ i # 1
    BY <1>1, <1>3, <1>6
  <2>2. /\ Header(k[i]).previous_last_seq = LastLine(j[n]).seq
        /\ k[i].lines[1].seq = LastLine(j[n]).seq + 1
    BY <1>3, <1>6 DEF HeaderLine, LastSeq
  <2>3. \A m \in DOMAIN k[i].lines : m = 1
    BY <1>4, <1>6
  <2> HIDE DEF h
  <2> QED  BY <2>1, <2>2, <2>3
<1> QED  BY <1>1, <1>5, <1>6

\* So does the chain.
LEMMA ChainOfGrown ==
    ASSUME NEW j, IsJournal(j), ChainOk(j)
    PROVE  ChainOk(AddSegment(j))
<1> DEFINE n == Len(j)
           h == HeaderLine(n, Digest(j[n]), LastSeq(j), LastSeq(j) + 1)
           k == AddSegment(j)
<1>1. n \in Nat /\ n >= 1 /\ DOMAIN j = 1..n
  BY Indices
<1>2. k = Append(j, [lines |-> <<h>>, final_newline |-> TRUE])
  BY DEF AddSegment
<1> HIDE DEF k
<1>3. /\ IsJournal(k) /\ Len(k) = n + 1
      /\ \A i \in 1..n : k[i] = j[i]
      /\ Header(k[n + 1]) = h
  <2> HIDE DEF h
  <2> QED  BY <1>2, GrowFacts
<1>4. DOMAIN k = 1..(n + 1)
  BY <1>3, Indices
<1> SUFFICES ASSUME NEW i \in 1..(n + 1)
             PROVE  /\ Header(k[i]).segment_index = i - 1
                    /\ Header(k[i]).previous_segment_sha256 =
                           IF i = 1 THEN None ELSE Digest(k[i - 1])
  BY <1>4 DEF ChainOk, k
<1>5. CASE i \in 1..n
  <2>1. k[i] = j[i] /\ (i # 1 => k[i - 1] = j[i - 1])
    BY <1>1, <1>3, <1>5
  <2> QED  BY <1>1, <1>5, <2>1 DEF ChainOk
<1>6. CASE i = n + 1
  <2>1. k[i - 1] = j[n] /\ i # 1 /\ i - 1 = n
    BY <1>1, <1>3, <1>6
  <2>2. Header(k[i]).segment_index = n /\ Header(k[i]).previous_segment_sha256 = Digest(j[n])
    BY <1>3, <1>6 DEF HeaderLine
  <2> HIDE DEF h
  <2> QED  BY <2>1, <2>2
<1> QED  BY <1>1, <1>5, <1>6

\* What is put down next continues the count and parses.
LEMMA NextLineShape ==
    ASSUME NEW line \in NextLines
    PROVE  line.seq = LastSeq(journal) + 1 /\ line # Raw
<1>1. line.seq = LastSeq(journal) + 1 /\ line.line_kind # "raw"
  BY DEF NextLines, StateLine, Line, EventLine
<1> QED  BY <1>1 DEF Raw

\* A line that parses does not tear a journal.
LEMMA TornOfLonger ==
    ASSUME NEW j, IsJournal(j), ~Torn(j), NEW line, line # Raw
    PROVE  ~Torn(AddLine(j, line))
<1> DEFINE k == AddLine(j, line)
<1>1. /\ IsJournal(k) /\ Len(k) = Len(j)
      /\ \A i \in 1..Len(j) : i # Len(j) => k[i] = j[i]
      /\ k[Len(j)].final_newline = j[Len(j)].final_newline
      /\ LastLine(k[Len(j)]) = line
  BY AddLineFacts
<1> HIDE DEF k
<1>2. DOMAIN k = 1..Len(j) /\ DOMAIN j = 1..Len(j)
  BY <1>1, Indices
<1>3. ~Torn(k)
  BY <1>1, <1>2 DEF Torn
<1> QED  BY <1>3 DEF k

\* Nor does a segment with its header.
LEMMA TornOfGrown ==
    ASSUME NEW j, IsJournal(j), ~Torn(j), NEW line, line # Raw
    PROVE  ~Torn(Append(j, [lines |-> <<line>>, final_newline |-> TRUE]))
<1> DEFINE k == Append(j, [lines |-> <<line>>, final_newline |-> TRUE])
<1>1. /\ IsJournal(k) /\ Len(k) = Len(j) + 1
      /\ \A i \in 1..Len(j) : k[i] = j[i]
      /\ k[Len(j) + 1] = [lines |-> <<line>>, final_newline |-> TRUE]
      /\ LastLine(k[Len(j) + 1]) = line
  BY GrowFacts
<1> HIDE DEF k
<1>2. Len(j) \in Nat /\ DOMAIN k = 1..(Len(j) + 1) /\ DOMAIN j = 1..Len(j)
  BY <1>1, Indices
<1>3. \A i \in 1..(Len(j) + 1) : i \in 1..Len(j) \/ i = Len(j) + 1
  BY <1>2
<1>4. ~Torn(k)
  BY <1>1, <1>2, <1>3 DEF Torn
<1> QED  BY <1>4 DEF k

\* The segment a roll adds.
LEMMA RolledSegment ==
    ASSUME NEW j
    PROVE  LET h == HeaderLine(Len(j), Digest(j[Len(j)]), LastSeq(j), LastSeq(j) + 1)
           IN  /\ AddSegment(j) = Append(j, [lines |-> <<h>>, final_newline |-> TRUE])
               /\ h # Raw /\ h.line_kind = "header" /\ h.seq = LastSeq(j) + 1
<1> DEFINE h == HeaderLine(Len(j), Digest(j[Len(j)]), LastSeq(j), LastSeq(j) + 1)
<1>1. AddSegment(j) = Append(j, [lines |-> <<h>>, final_newline |-> TRUE])
  BY DEF AddSegment
<1>2. h.line_kind = "header" /\ h.seq = LastSeq(j) + 1 /\ Raw.line_kind = "raw"
  BY DEF HeaderLine, Raw
<1> HIDE DEF h
<1>3. h # Raw
  BY <1>2
<1> QED  BY <1>1, <1>2, <1>3 DEF h

\* A line put down next to a whole journal leaves it whole.
LEMMA WholeWithLine ==
    ASSUME NEW j, IsJournal(j), ~FailsClosed(j), NEW line,
           line.seq = LastSeq(j) + 1, line # Raw
    PROVE  ~FailsClosed(AddLine(j, line))
<1> DEFINE k == AddLine(j, line)
<1>1. /\ IsJournal(k) /\ Len(k) = Len(j)
      /\ \A i \in 1..Len(j) : i # Len(j) => k[i] = j[i]
      /\ Header(k[Len(j)]) = Header(j[Len(j)])
  BY AddLineFacts
<1>2. ChainOk(j) /\ SeqOk(j) /\ ~Torn(j)
  BY DEF FailsClosed
<1>3. SeqOk(k) /\ ~Torn(k)
  BY <1>2, SeqOfLonger, TornOfLonger
<1> HIDE DEF k
<1>4. ChainOk(k)
  BY <1>1, <1>2, ChainOfSealed
<1>5. ~FailsClosed(k)
  BY <1>3, <1>4 DEF FailsClosed
<1> QED  BY <1>5 DEF k

\* A segment rolled to leaves it whole.
LEMMA WholeWithSegment ==
    ASSUME NEW j, IsJournal(j), ~FailsClosed(j)
    PROVE  ~FailsClosed(AddSegment(j))
<1>1. ChainOk(j) /\ SeqOk(j) /\ ~Torn(j)
  BY DEF FailsClosed
<1>2. ~Torn(AddSegment(j))
  BY <1>1, RolledSegment, TornOfGrown
<1>3. ChainOk(AddSegment(j)) /\ SeqOk(AddSegment(j))
  BY <1>1, ChainOfGrown, SeqOfGrown
<1> QED  BY <1>2, <1>3 DEF FailsClosed

------------------------------------------------------------------------------
(* A journal and its continuations. *)

\* A prefix, element by element.
LEMMA PrefixByElement ==
    ASSUME NEW s, NEW t, IsSeq(s), IsSeq(t)
    PROVE  IsPrefix(s, t) <=> Len(s) <= Len(t) /\ \A i \in 1..Len(s) : s[i] = t[i]
<1>1. Len(s) \in Nat /\ Len(t) \in Nat
  BY DEF IsSeq
<1>2. ASSUME NEW q
      PROVE  SubSeq(q, 1, Len(s)) = [i \in 1..Len(s) |-> q[i]]
  <2> DEFINE S == {q[i] : i \in 1..Len(s)}
             u == SubSeq(q, 1, Len(s))
  <2>1. /\ u \in Seq(S)
        /\ Len(u) = IF 1 <= Len(s) THEN Len(s) - 1 + 1 ELSE 0
        /\ \A i \in 1..(Len(s) - 1 + 1) : u[i] = q[1 + i - 1]
    <3>1. \A i \in 1..Len(s) : q[i] \in S
      OBVIOUS
    <3> HIDE DEF S
    <3> QED  BY <1>1, <3>1, SubSeqProperties
  <2> HIDE DEF u
  <2>2. Len(u) = Len(s) /\ \A i \in 1..Len(s) : u[i] = q[i]
    BY <1>1, <2>1
  <2>3. u = [i \in 1..Len(u) |-> u[i]]
    BY <2>1, LenProperties
  <2>4. u = [i \in 1..Len(s) |-> q[i]]
    BY <2>2, <2>3
  <2> QED  BY <2>4 DEF u
<1>3. IsPrefix(s, t) <=> Len(s) <= Len(t) /\ [i \in 1..Len(s) |-> s[i]] = [i \in 1..Len(s) |-> t[i]]
  BY <1>2 DEF IsPrefix
<1> QED  BY <1>3

\* The continuations of a journal, segment by segment and line by line.
LEMMA ExtendsByElement ==
    ASSUME NEW a, NEW b, IsJournal(a), IsJournal(b)
    PROVE  Extends(b, a) <=>
               /\ Len(a) <= Len(b)
               /\ \A i \in 1..Len(a) : i # Len(a) => b[i] = a[i]
               /\ LET n == Len(a)
                  IN  /\ Len(a[n].lines) <= Len(b[n].lines)
                      /\ \A m \in 1..Len(a[n].lines) : b[n].lines[m] = a[n].lines[m]
<1> DEFINE n == Len(a)
<1>1. n \in Nat /\ n \in 1..n /\ DOMAIN a = 1..n /\ Len(b) \in Nat
  BY Indices
<1>2. n <= Len(b) => IsSeq(a[n].lines) /\ IsSeq(b[n].lines)
  <2>1. n <= Len(b) => n \in 1..Len(b)
    BY <1>1
  <2> QED  BY <1>1, <2>1 DEF IsJournal, IsSegment
<1>3. n <= Len(b) =>
          (IsPrefix(a[n].lines, b[n].lines) <=>
               /\ Len(a[n].lines) <= Len(b[n].lines)
               /\ \A m \in 1..Len(a[n].lines) : a[n].lines[m] = b[n].lines[m])
  BY <1>2, PrefixByElement
<1>4. Extends(b, a) <=>
          /\ n <= Len(b)
          /\ \A i \in 1..n : i # n => b[i] = a[i]
          /\ IsPrefix(a[n].lines, b[n].lines)
  BY <1>1 DEF Extends
<1> HIDE DEF n
<1>5. Extends(b, a) <=>
          /\ n <= Len(b)
          /\ \A i \in 1..n : i # n => b[i] = a[i]
          /\ Len(a[n].lines) <= Len(b[n].lines)
          /\ \A m \in 1..Len(a[n].lines) : b[n].lines[m] = a[n].lines[m]
  BY <1>3, <1>4
<1> QED  BY <1>5 DEF n

\* Extends is a preorder on journals.
LEMMA ExtendsReflexive ==
    ASSUME NEW a, IsJournal(a)
    PROVE  Extends(a, a)
<1>1. Len(a) \in Nat /\ Len(a) \in 1..Len(a) /\ Len(a[Len(a)].lines) \in Nat
  BY Indices
<1> QED  BY <1>1, ExtendsByElement

\* A continuation of a continuation.
LEMMA ExtendsTransitive ==
    ASSUME NEW a, NEW b, NEW c, IsJournal(a), IsJournal(b), IsJournal(c),
           Extends(b, a), Extends(c, b)
    PROVE  Extends(c, a)
<1> DEFINE n == Len(a)
<1>1. n \in Nat /\ n \in 1..n /\ Len(b) \in Nat /\ Len(c) \in Nat
  BY Indices
<1>2. /\ n <= Len(b)
      /\ \A i \in 1..n : i # n => b[i] = a[i]
      /\ Len(a[n].lines) <= Len(b[n].lines)
      /\ \A m \in 1..Len(a[n].lines) : b[n].lines[m] = a[n].lines[m]
  BY ExtendsByElement
<1>3. /\ Len(b) <= Len(c)
      /\ \A i \in 1..Len(b) : i # Len(b) => c[i] = b[i]
      /\ Len(b[Len(b)].lines) <= Len(c[Len(b)].lines)
      /\ \A m \in 1..Len(b[Len(b)].lines) : c[Len(b)].lines[m] = b[Len(b)].lines[m]
  BY ExtendsByElement
<1> HIDE DEF n
<1>4. n <= Len(c)
  BY <1>1, <1>2, <1>3
<1>5. n \in 1..Len(b) /\ n \in 1..Len(c)
  BY <1>1, <1>2, <1>4
<1>6. \A i \in 1..n : i # n => c[i] = a[i]
  <2> SUFFICES ASSUME NEW i \in 1..n, i # n PROVE c[i] = a[i]
    OBVIOUS
  <2>1. i \in 1..Len(b) /\ i # Len(b)
    BY <1>1, <1>2
  <2> QED  BY <1>2, <1>3, <2>1
<1>7. /\ Len(a[n].lines) \in Nat /\ Len(b[n].lines) \in Nat /\ Len(c[n].lines) \in Nat
  <2>1. n \in 1..Len(a)
    BY <1>1 DEF n
  <2> QED  BY <1>5, <2>1, Indices
<1>8. /\ Len(a[n].lines) <= Len(c[n].lines)
      /\ \A m \in 1..Len(a[n].lines) : c[n].lines[m] = a[n].lines[m]
  <2>1. CASE n = Len(b)
    <3>1. Len(b[n].lines) <= Len(c[n].lines)
          /\ \A m \in 1..Len(b[n].lines) : c[n].lines[m] = b[n].lines[m]
      BY <1>3, <2>1
    <3>2. \A m \in 1..Len(a[n].lines) : m \in 1..Len(b[n].lines)
      BY <1>2, <1>7
    <3> QED  BY <1>2, <1>7, <3>1, <3>2
  <2>2. CASE n # Len(b)
    <3>1. c[n] = b[n]
      BY <1>3, <1>5, <2>2
    <3> QED  BY <1>2, <3>1
  <2> QED  BY <2>1, <2>2
<1> QED  BY <1>4, <1>6, <1>8, ExtendsByElement DEF n

\* A line more, whole or torn, continues the journal.
LEMMA LongerExtends ==
    ASSUME NEW j, IsJournal(j), NEW line, NEW k, k \in {AddLine(j, line), TornLine(j, line)}
    PROVE  Extends(k, j)
<1> DEFINE n == Len(j)
           a == AddLine(j, line)
<1>1. /\ IsJournal(a) /\ Len(a) = n
      /\ \A i \in 1..n : i # n => a[i] = j[i]
      /\ Len(a[n].lines) = Len(j[n].lines) + 1
      /\ \A m \in 1..Len(j[n].lines) : a[n].lines[m] = j[n].lines[m]
  BY AddLineFacts
<1>2. k = TornLine(j, line) =>
          /\ IsJournal(k) /\ Len(k) = n
          /\ \A i \in 1..n : i # n => k[i] = j[i]
          /\ k[n].lines = a[n].lines
  BY TornLineFacts
<1>3. n \in Nat /\ n \in 1..n /\ Len(j[n].lines) \in Nat
  BY Indices
<1> HIDE DEF a
<1>4. /\ IsJournal(k) /\ Len(k) = n
      /\ \A i \in 1..n : i # n => k[i] = j[i]
      /\ k[n].lines = a[n].lines
  BY <1>1, <1>2 DEF a
<1>5. Len(j[n].lines) <= Len(k[n].lines)
  BY <1>1, <1>3, <1>4
<1>6. \A m \in 1..Len(j[n].lines) : k[n].lines[m] = j[n].lines[m]
  BY <1>1, <1>4
<1>7. n <= Len(k)
  BY <1>3, <1>4
<1> QED  BY <1>4, <1>5, <1>6, <1>7, ExtendsByElement

\* So does a segment more.
LEMMA GrownExtends ==
    ASSUME NEW j, IsJournal(j), NEW line, NEW flag
    PROVE  Extends(Append(j, [lines |-> <<line>>, final_newline |-> flag]), j)
<1> DEFINE n == Len(j)
           k == Append(j, [lines |-> <<line>>, final_newline |-> flag])
<1>1. IsJournal(k) /\ Len(k) = n + 1 /\ \A i \in 1..n : k[i] = j[i]
  BY GrowFacts
<1>2. n \in Nat /\ n \in 1..n /\ Len(j[n].lines) \in Nat
  BY Indices
<1> HIDE DEF k
<1>3. n <= Len(k) /\ k[n] = j[n] /\ Len(j[n].lines) <= Len(k[n].lines)
  BY <1>1, <1>2
<1>4. Extends(k, j)
  BY <1>1, <1>3, ExtendsByElement
<1> QED  BY <1>4 DEF k

------------------------------------------------------------------------------
(* The writer and its files. *)

\* Inductive invariant of every disk step: the writer writes a whole journal until
\* it crashes, and what is on disk differs from it in overwritten body lines only.
DiskInv ==
    /\ IsJournal(journal) /\ IsJournal(written)
    /\ Len(journal) = Len(written)
    /\ overwrites \in Nat
    /\ LastSeq(journal) = LastSeq(written)
    /\ \A i \in 1..Len(journal) : Header(journal[i]).line_kind \in {"header", "raw"}
    /\ process = "owner" =>
           written[Len(written)].final_newline /\ journal[Len(journal)].final_newline
    /\ written[Len(written)].final_newline => ~FailsClosed(written)
    /\ journal[Len(journal)].final_newline => SeqOk(journal) /\ ~Torn(journal)
    /\ ~tailHit => journal[Len(journal)] = written[Len(written)]
    /\ overwrites = 0 => journal = written /\ ~tailHit

\* An overwritten body line takes another state, and leaves headers, seqs, ends of
\* lines and unparsed lines where they were.
LEMMA OverwriteKeepsShape ==
    ASSUME NEW j, IsJournal(j), NEW i \in 1..Len(j), NEW m \in DOMAIN j[i].lines,
           j[i].lines[m].line_kind \notin {"header", "raw"},
           \A g \in 1..Len(j) : Header(j[g]).line_kind \in {"header", "raw"},
           NEW line, line.line_kind = "state", line.seq = j[i].lines[m].seq,
           NEW k, k = Overwritten(j, i, m, line)
    PROVE  /\ IsJournal(k) /\ Len(k) = Len(j)
           /\ \A g \in 1..Len(j) :
                  /\ Header(k[g]) = Header(j[g])
                  /\ k[g].final_newline = j[g].final_newline
                  /\ LastLine(k[g]) = Raw <=> LastLine(j[g]) = Raw
                  /\ LastLine(k[g]).seq = LastLine(j[g]).seq
                  /\ Len(k[g].lines) = Len(j[g].lines)
                  /\ \A h \in 1..Len(j[g].lines) : k[g].lines[h].seq = j[g].lines[h].seq
           /\ \A g \in 1..Len(j) : g # i => k[g] = j[g]
<1>1. /\ IsJournal(k) /\ Len(k) = Len(j)
      /\ \A g \in 1..Len(j) : g # i => k[g] = j[g]
      /\ Len(k[i].lines) = Len(j[i].lines)
      /\ \A g \in 1..Len(j[i].lines) :
             k[i].lines[g] = IF g = m THEN line ELSE j[i].lines[g]
      /\ k[i].final_newline = j[i].final_newline
  BY OverwriteFacts
<1>2. Len(j[i].lines) \in Nat /\ Len(j[i].lines) >= 1 /\ m \in 1..Len(j[i].lines)
  BY Indices
<1>3. m # 1 /\ Header(k[i]) = Header(j[i])
  BY <1>1, <1>2 DEF Header
<1>4. \A h \in 1..Len(j[i].lines) : k[i].lines[h].seq = j[i].lines[h].seq
  BY <1>1
<1>5. LastLine(k[i]).seq = LastLine(j[i]).seq
  BY <1>1, <1>2, <1>4 DEF LastLine
<1>6. LastLine(k[i]) = Raw <=> LastLine(j[i]) = Raw
  BY <1>1, <1>2 DEF LastLine, Raw
<1> QED  BY <1>1, <1>3, <1>4, <1>5, <1>6

\* So the count is kept, and a journal is torn as it was.
LEMMA SameShape ==
    ASSUME NEW j, NEW k, IsJournal(j), IsJournal(k), Len(k) = Len(j),
           \A g \in 1..Len(j) :
                  /\ Header(k[g]) = Header(j[g])
                  /\ k[g].final_newline = j[g].final_newline
                  /\ LastLine(k[g]) = Raw <=> LastLine(j[g]) = Raw
                  /\ LastLine(k[g]).seq = LastLine(j[g]).seq
                  /\ Len(k[g].lines) = Len(j[g].lines)
                  /\ \A h \in 1..Len(j[g].lines) : k[g].lines[h].seq = j[g].lines[h].seq
    PROVE  /\ SeqOk(j) => SeqOk(k)
           /\ Torn(k) <=> Torn(j)
           /\ LastSeq(k) = LastSeq(j)
<1>1. /\ Len(j) \in Nat /\ Len(j) \in 1..Len(j)
      /\ DOMAIN j = 1..Len(j) /\ DOMAIN k = 1..Len(j)
      /\ \A g \in 1..Len(j) :
             /\ Len(j[g].lines) \in Nat
             /\ DOMAIN j[g].lines = 1..Len(j[g].lines)
             /\ DOMAIN k[g].lines = 1..Len(j[g].lines)
  BY Indices
<1>2. Torn(k) <=> Torn(j)
  BY <1>1 DEF Torn
<1>3. LastSeq(k) = LastSeq(j)
  BY <1>1 DEF LastSeq
<1>4. ASSUME SeqOk(j) PROVE SeqOk(k)
  <2> SUFFICES ASSUME NEW i \in 1..Len(j)
               PROVE  /\ Header(k[i]).previous_last_seq =
                             IF i = 1 THEN None ELSE LastLine(k[i - 1]).seq
                      /\ \A m \in 1..Len(j[i].lines) :
                             k[i].lines[m].seq =
                                 IF m > 1 THEN k[i].lines[m - 1].seq + 1
                                 ELSE IF i = 1 THEN 0
                                 ELSE LastLine(k[i - 1]).seq + 1
    BY <1>1 DEF SeqOk
  <2>1. /\ Header(j[i]).previous_last_seq =
               IF i = 1 THEN None ELSE LastLine(j[i - 1]).seq
        /\ \A m \in 1..Len(j[i].lines) :
               j[i].lines[m].seq =
                   IF m > 1 THEN j[i].lines[m - 1].seq + 1
                   ELSE IF i = 1 THEN 0
                   ELSE LastLine(j[i - 1]).seq + 1
    BY <1>1, <1>4 DEF SeqOk
  <2>2. i # 1 => LastLine(k[i - 1]).seq = LastLine(j[i - 1]).seq
    <3>1. i # 1 => i - 1 \in 1..Len(j)
      BY <1>1, IndexBefore
    <3> QED  BY <3>1
  <2>3. Header(k[i]).previous_last_seq = IF i = 1 THEN None ELSE LastLine(k[i - 1]).seq
    BY <2>1, <2>2
  <2>4. ASSUME NEW m \in 1..Len(j[i].lines)
        PROVE  k[i].lines[m].seq =
                   IF m > 1 THEN k[i].lines[m - 1].seq + 1
                   ELSE IF i = 1 THEN 0
                   ELSE LastLine(k[i - 1]).seq + 1
    <3>1. m > 1 => m - 1 \in 1..Len(j[i].lines)
      BY <1>1
    <3>2. m > 1 => k[i].lines[m - 1].seq = j[i].lines[m - 1].seq
      BY <3>1
    <3>3. k[i].lines[m].seq = j[i].lines[m].seq
      OBVIOUS
    <3> QED  BY <2>1, <2>2, <3>2, <3>3
  <2> QED  BY <2>3, <2>4
<1> QED  BY <1>2, <1>3, <1>4

\* What Overwrite does to the journal, named.
LEMMA OverwriteStep ==
    ASSUME DiskInv, NEW i \in DOMAIN journal, NEW m \in DOMAIN journal[i].lines,
           Overwrite(i, m)
    PROVE  /\ i \in 1..Len(journal)
           /\ IsJournal(journal') /\ Len(journal') = Len(journal)
           /\ \A g \in 1..Len(journal) :
                  /\ Header(journal'[g]) = Header(journal[g])
                  /\ journal'[g].final_newline = journal[g].final_newline
                  /\ LastLine(journal'[g]) = Raw <=> LastLine(journal[g]) = Raw
                  /\ g # i => journal'[g] = journal[g]
           /\ journal' # journal
           /\ SeqOk(journal) => SeqOk(journal')
           /\ Torn(journal') <=> Torn(journal)
           /\ LastSeq(journal') = LastSeq(journal)
           /\ overwrites' = overwrites + 1
           /\ tailHit' = (tailHit \/ i = Len(journal))
           /\ process' = process /\ written' = written
<1>1. IsJournal(journal) /\ i \in 1..Len(journal)
      /\ \A g \in 1..Len(journal) : Header(journal[g]).line_kind \in {"header", "raw"}
  BY Indices DEF DiskInv
<1>2. \E s \in DOMAIN Lifecycle :
          journal' = [journal EXCEPT ![i].lines[m] =
                          [line_kind |-> "state", seq |-> journal[i].lines[m].seq, state |-> s]]
  BY Zenon DEF Overwrite
<1>3. PICK s \in DOMAIN Lifecycle :
          journal' = [journal EXCEPT ![i].lines[m] =
                          [line_kind |-> "state", seq |-> journal[i].lines[m].seq, state |-> s]]
  BY <1>2
<1> DEFINE line == [line_kind |-> "state", seq |-> journal[i].lines[m].seq, state |-> s]
<1>4. line.line_kind = "state" /\ line.seq = journal[i].lines[m].seq
  OBVIOUS
<1>5. journal[i].lines[m].line_kind \notin {"header", "raw"}
  BY DEF Overwrite
<1>6. journal' = Overwritten(journal, i, m, line)
  BY <1>3 DEF Overwritten
<1> HIDE DEF line
<1>7. /\ IsJournal(journal') /\ Len(journal') = Len(journal)
      /\ \A g \in 1..Len(journal) :
             /\ Header(journal'[g]) = Header(journal[g])
             /\ journal'[g].final_newline = journal[g].final_newline
             /\ LastLine(journal'[g]) = Raw <=> LastLine(journal[g]) = Raw
             /\ LastLine(journal'[g]).seq = LastLine(journal[g]).seq
             /\ Len(journal'[g].lines) = Len(journal[g].lines)
             /\ \A h \in 1..Len(journal[g].lines) :
                    journal'[g].lines[h].seq = journal[g].lines[h].seq
      /\ \A g \in 1..Len(journal) : g # i => journal'[g] = journal[g]
  BY <1>1, <1>4, <1>5, <1>6, OverwriteKeepsShape
<1>8. /\ SeqOk(journal) => SeqOk(journal')
      /\ Torn(journal') <=> Torn(journal)
      /\ LastSeq(journal') = LastSeq(journal)
  BY <1>1, <1>7, SameShape
<1>9. /\ journal' # journal
      /\ overwrites' = overwrites + 1
      /\ tailHit' = (tailHit \/ i = Len(journal))
      /\ process' = process /\ written' = written
  BY DEF Overwrite, Open
<1> QED  BY <1>1, <1>7, <1>8, <1>9

\* The end of a journal with a line more depends on its end only.
LEMMA SameTails ==
    ASSUME NEW j, NEW w, IsJournal(j), IsJournal(w), Len(j) = Len(w),
           j[Len(j)] = w[Len(w)], NEW line
    PROVE  /\ AddLine(j, line)[Len(j)] = AddLine(w, line)[Len(w)]
           /\ TornLine(j, line)[Len(j)] = TornLine(w, line)[Len(w)]
<1> DEFINE n == Len(j)
           x == j[n]
           longer == [x EXCEPT !.lines = Append(x.lines, line)]
           torn == [longer EXCEPT !.final_newline = FALSE]
<1>1. n \in DOMAIN j /\ n \in DOMAIN w /\ w[n] = x /\ Len(w) = n
  BY Indices
<1>2. AddLine(j, line) = [j EXCEPT ![n] = longer]
      /\ AddLine(w, line) = [w EXCEPT ![n] = longer]
  BY <1>1 DEF AddLine
<1>3. AddLine(j, line)[n] = longer /\ AddLine(w, line)[n] = longer
  <2> HIDE DEF longer, n
  <2> QED  BY <1>1, <1>2
<1>4. n \in DOMAIN AddLine(j, line) /\ n \in DOMAIN AddLine(w, line)
  BY <1>1, <1>2
<1>5. TornLine(j, line) = [AddLine(j, line) EXCEPT ![n] = torn]
      /\ TornLine(w, line) = [AddLine(w, line) EXCEPT ![n] = torn]
  <2> HIDE DEF longer
  <2> QED  BY <1>1, <1>3 DEF TornLine
<1>6. TornLine(j, line)[n] = torn /\ TornLine(w, line)[n] = torn
  <2> HIDE DEF torn, n
  <2> QED  BY <1>4, <1>5
<1> QED  BY <1>1, <1>3, <1>6

\* The first segment, and its journal.
LEMMA DiskInvInit == DiskInit => DiskInv
<1> SUFFICES ASSUME DiskInit PROVE DiskInv
  OBVIOUS
<1> DEFINE j == <<FirstSegment>>
           h == HeaderLine(0, None, None, 0)
<1>1. journal = j /\ written = j /\ overwrites = 0 /\ tailHit = FALSE
  BY DEF DiskInit
<1>2. FirstSegment = [lines |-> <<h>>, final_newline |-> TRUE]
  BY DEF FirstSegment
<1>3. /\ Len(j) = 1 /\ j = [i \in 1..1 |-> j[i]] /\ j[1] = FirstSegment
      /\ Len(FirstSegment.lines) = 1 /\ FirstSegment.lines[1] = h
      /\ FirstSegment.final_newline
  <2> HIDE DEF h
  <2> QED  BY <1>2
<1>4. IsJournal(j)
  <2>1. IsSegment(FirstSegment)
    BY <1>2, OneLine
  <2> QED  BY <1>3, <2>1 DEF IsJournal, IsSeq
<1>5. DOMAIN j = 1..1 /\ DOMAIN FirstSegment.lines = 1..1
  <2>1. Len(j) = 1 /\ 1 \in 1..Len(j)
    BY <1>3
  <2> QED  BY <1>3, <1>4, <2>1, Indices
<1>6. Header(j[1]) = h /\ LastLine(j[1]) = h
  BY <1>3 DEF Header, LastLine
<1>7. /\ h.line_kind = "header" /\ h.seq = 0 /\ h.segment_index = 0
      /\ h.previous_segment_sha256 = None /\ h.previous_last_seq = None
      /\ Raw.line_kind = "raw"
  BY DEF HeaderLine, Raw
<1> HIDE DEF j, h
<1>8. \A i \in DOMAIN j : i = 1
  BY <1>5
<1>9. ChainOk(j)
  BY <1>6, <1>7, <1>8 DEF ChainOk
<1>10. SeqOk(j)
  <2>1. \A k \in DOMAIN j[1].lines : k = 1 /\ j[1].lines[k].seq = 0
    BY <1>3, <1>5, <1>7
  <2> QED  BY <1>6, <1>7, <1>8, <2>1 DEF SeqOk
<1>11. ~Torn(j)
  <2>1. h # Raw
    BY <1>7
  <2> QED  BY <1>3, <1>6, <1>8, <2>1 DEF Torn
<1>12. ~FailsClosed(j)
  BY <1>9, <1>10, <1>11 DEF FailsClosed
<1> QED  BY <1>1, <1>3, <1>4, <1>6, <1>7, <1>10, <1>11, <1>12 DEF DiskInv

\* An append.
LEMMA AppendKeepsDiskInv ==
    ASSUME DiskInv, Writing, NEW line \in NextLines, AppendLine(line)
    PROVE  DiskInv'
<1> DEFINE n == Len(journal)
<1>1. /\ IsJournal(journal) /\ IsJournal(written) /\ Len(written) = n
      /\ LastSeq(journal) = LastSeq(written)
      /\ written[n].final_newline /\ journal[n].final_newline
      /\ ~FailsClosed(written) /\ SeqOk(journal) /\ ~Torn(journal)
      /\ \A i \in 1..n : Header(journal[i]).line_kind \in {"header", "raw"}
      /\ ~tailHit => journal[n] = written[n]
      /\ overwrites = 0 => journal = written /\ ~tailHit
  BY DEF DiskInv, Writing
<1>2. line.seq = LastSeq(journal) + 1 /\ line # Raw
  BY NextLineShape
<1>3. /\ journal' = AddLine(journal, line) /\ written' = AddLine(written, line)
      /\ process' = process /\ overwrites' = overwrites /\ tailHit' = tailHit
  BY DEF AppendLine, faults
<1>4. /\ IsJournal(journal') /\ Len(journal') = n
      /\ \A i \in 1..n : i # n => journal'[i] = journal[i]
      /\ journal'[n].final_newline = journal[n].final_newline
      /\ Header(journal'[n]) = Header(journal[n])
      /\ LastLine(journal'[n]) = line
  <2> DEFINE k == AddLine(journal, line)
  <2>1. /\ IsJournal(k) /\ Len(k) = n
        /\ \A i \in 1..n : i # n => k[i] = journal[i]
        /\ k[n].final_newline = journal[n].final_newline
        /\ Header(k[n]) = Header(journal[n])
        /\ LastLine(k[n]) = line
    <3>1. IsJournal(journal)
      BY <1>1
    <3> QED  BY <3>1, AddLineFacts
  <2> QED  BY <1>3, <2>1
<1>5. /\ IsJournal(written') /\ Len(written') = n
      /\ written'[n].final_newline = written[n].final_newline
      /\ LastLine(written'[n]) = line
  <2> DEFINE k == AddLine(written, line)
             m == Len(written)
  <2>1. /\ IsJournal(k) /\ Len(k) = m
        /\ k[m].final_newline = written[m].final_newline
        /\ LastLine(k[m]) = line
    BY <1>1, AddLineFacts
  <2> HIDE DEF k, n
  <2>2. /\ IsJournal(k) /\ Len(k) = n
        /\ k[n].final_newline = written[n].final_newline
        /\ LastLine(k[n]) = line
    BY <1>1, <2>1
  <2> QED  BY <1>3, <2>2 DEF k
<1>6. LastSeq(journal') = line.seq /\ LastSeq(written') = line.seq
  BY <1>4, <1>5 DEF LastSeq
<1>7. ~FailsClosed(written')
  BY <1>1, <1>2, <1>3, WholeWithLine
<1>8. SeqOk(journal') /\ ~Torn(journal')
  BY <1>1, <1>2, <1>3, SeqOfLonger, TornOfLonger
<1>9. ~tailHit => journal'[n] = written'[n]
  BY <1>1, <1>3, SameTails
<1>10. \A i \in 1..n : Header(journal'[i]).line_kind \in {"header", "raw"}
  BY <1>1, <1>4
<1>11. overwrites = 0 => journal' = written' /\ ~tailHit
  BY <1>1, <1>3
<1> HIDE DEF n
<1> QED  BY <1>1, <1>3, <1>4, <1>5, <1>6, <1>7, <1>8, <1>9, <1>10, <1>11 DEF DiskInv

\* A roll.
LEMMA RollKeepsDiskInv ==
    ASSUME DiskInv, Roll
    PROVE  DiskInv'
<1> DEFINE n == Len(journal)
           hj == HeaderLine(n, Digest(journal[n]), LastSeq(journal), LastSeq(journal) + 1)
           hw == HeaderLine(Len(written), Digest(written[Len(written)]),
                            LastSeq(written), LastSeq(written) + 1)
<1>1. /\ IsJournal(journal) /\ IsJournal(written) /\ Len(written) = n
      /\ LastSeq(journal) = LastSeq(written)
      /\ ~FailsClosed(written) /\ SeqOk(journal) /\ ~Torn(journal)
      /\ \A i \in 1..n : Header(journal[i]).line_kind \in {"header", "raw"}
      /\ ~tailHit => journal[n] = written[n]
      /\ overwrites = 0 => journal = written /\ ~tailHit
  BY DEF DiskInv, Roll, Writing
<1>2. /\ journal' = AddSegment(journal) /\ written' = AddSegment(written)
      /\ process' = process /\ overwrites' = overwrites /\ tailHit' = tailHit
  BY DEF Roll, faults
<1>3. /\ journal' = Append(journal, [lines |-> <<hj>>, final_newline |-> TRUE])
      /\ hj # Raw /\ hj.line_kind = "header" /\ hj.seq = LastSeq(journal) + 1
  BY <1>2, RolledSegment
<1>4. /\ written' = Append(written, [lines |-> <<hw>>, final_newline |-> TRUE])
      /\ hw.seq = LastSeq(written) + 1
  BY <1>2, RolledSegment
<1>5. ~tailHit => hj = hw
  BY <1>1
<1> HIDE DEF hj, hw
<1>6. /\ IsJournal(journal') /\ Len(journal') = n + 1
      /\ \A i \in 1..n : journal'[i] = journal[i]
      /\ journal'[n + 1] = [lines |-> <<hj>>, final_newline |-> TRUE]
      /\ Header(journal'[n + 1]) = hj /\ LastLine(journal'[n + 1]) = hj
  BY <1>1, <1>3, GrowFacts
<1>7. /\ IsJournal(written') /\ Len(written') = n + 1
      /\ written'[n + 1] = [lines |-> <<hw>>, final_newline |-> TRUE]
      /\ LastLine(written'[n + 1]) = hw
  BY <1>1, <1>4, GrowFacts
<1>8. LastSeq(journal') = LastSeq(written')
  BY <1>1, <1>3, <1>4, <1>6, <1>7 DEF LastSeq
<1>9. ~FailsClosed(written')
  BY <1>1, <1>2, WholeWithSegment
<1>10. SeqOk(journal') /\ ~Torn(journal')
  BY <1>1, <1>2, <1>3, SeqOfGrown, TornOfGrown
<1>11. ~tailHit => journal'[n + 1] = written'[n + 1]
  BY <1>5, <1>6, <1>7
<1>12. \A i \in 1..(n + 1) : Header(journal'[i]).line_kind \in {"header", "raw"}
  <2>1. \A i \in 1..(n + 1) : i \in 1..n \/ i = n + 1
    BY <1>1, Indices
  <2> QED  BY <1>1, <1>3, <1>6, <2>1
<1>13. journal'[n + 1].final_newline /\ written'[n + 1].final_newline
  BY <1>6, <1>7
<1>14. overwrites = 0 => journal' = written' /\ ~tailHit
  BY <1>1, <1>2
<1>15. overwrites \in Nat
  BY DEF DiskInv
<1> HIDE DEF n
<1> QED  BY <1>2, <1>6, <1>7, <1>8, <1>9, <1>10, <1>11, <1>12, <1>13, <1>14, <1>15 DEF DiskInv

\* A crash inside an append or inside a new segment's header.
LEMMA CrashKeepsDiskInv ==
    ASSUME DiskInv, CrashInAppend
    PROVE  DiskInv'
<1> DEFINE n == Len(journal)
<1>1. /\ IsJournal(journal) /\ IsJournal(written) /\ Len(written) = n
      /\ \A i \in 1..n : Header(journal[i]).line_kind \in {"header", "raw"}
      /\ ~tailHit => journal[n] = written[n]
      /\ overwrites = 0 => journal = written /\ ~tailHit
      /\ overwrites \in Nat
  BY DEF DiskInv
<1>2. process' = "nobody" /\ overwrites' = overwrites /\ tailHit' = tailHit
  BY DEF CrashInAppend, faults
<1>3. ASSUME NEW line, journal' = TornLine(journal, line), written' = TornLine(written, line)
      PROVE  DiskInv'
  <2>1. /\ IsJournal(journal') /\ Len(journal') = n
        /\ \A i \in 1..n : i # n => journal'[i] = journal[i]
        /\ journal'[n].lines = AddLine(journal, line)[n].lines
        /\ ~journal'[n].final_newline /\ LastLine(journal'[n]) = line
    BY <1>1, <1>3, TornLineFacts
  <2>2. /\ IsJournal(written') /\ Len(written') = n
        /\ ~written'[n].final_newline /\ LastLine(written'[n]) = line
    BY <1>1, <1>3, TornLineFacts
  <2>3. LastSeq(journal') = LastSeq(written')
    BY <2>1, <2>2 DEF LastSeq
  <2>4. Header(journal'[n]) = Header(journal[n])
    <3>1. Header(AddLine(journal, line)[n]) = Header(journal[n])
      BY <1>1, AddLineFacts
    <3> QED  BY <2>1, <3>1 DEF Header
  <2>5. \A i \in 1..n : Header(journal'[i]).line_kind \in {"header", "raw"}
    BY <1>1, <2>1, <2>4
  <2>6. ~tailHit => journal'[n] = written'[n]
    BY <1>1, <1>3, SameTails
  <2>7. overwrites = 0 => journal' = written' /\ ~tailHit
    BY <1>1, <1>3
  <2> HIDE DEF n
  <2> QED  BY <1>1, <1>2, <2>1, <2>2, <2>3, <2>5, <2>6, <2>7 DEF DiskInv
<1>4. ASSUME journal' = TornSegment(journal), written' = TornSegment(written)
      PROVE  DiskInv'
  <2>1. /\ IsJournal(journal') /\ Len(journal') = n + 1
        /\ \A i \in 1..n : journal'[i] = journal[i]
        /\ journal'[n + 1] = [lines |-> <<Raw>>, final_newline |-> FALSE]
        /\ Header(journal'[n + 1]) = Raw /\ LastLine(journal'[n + 1]) = Raw
    BY <1>1, <1>4, GrowFacts DEF TornSegment
  <2>2. /\ IsJournal(written') /\ Len(written') = n + 1
        /\ written'[n + 1] = [lines |-> <<Raw>>, final_newline |-> FALSE]
        /\ LastLine(written'[n + 1]) = Raw
    BY <1>1, <1>4, GrowFacts DEF TornSegment
  <2>3. LastSeq(journal') = LastSeq(written')
    BY <2>1, <2>2 DEF LastSeq
  <2>4. \A i \in 1..(n + 1) : Header(journal'[i]).line_kind \in {"header", "raw"}
    <3>1. \A i \in 1..(n + 1) : i \in 1..n \/ i = n + 1
      BY <1>1, Indices
    <3>2. Raw.line_kind = "raw"
      BY DEF Raw
    <3> QED  BY <1>1, <2>1, <3>1, <3>2
  <2>5. /\ ~journal'[n + 1].final_newline /\ ~written'[n + 1].final_newline
        /\ journal'[n + 1] = written'[n + 1]
    BY <2>1, <2>2
  <2>6. overwrites = 0 => journal' = written' /\ ~tailHit
    BY <1>1, <1>4
  <2> HIDE DEF n
  <2> QED  BY <1>1, <1>2, <2>1, <2>2, <2>3, <2>4, <2>5, <2>6 DEF DiskInv
<1> QED  BY <1>3, <1>4 DEF CrashInAppend

\* An overwrite.
LEMMA OverwriteKeepsDiskInv ==
    ASSUME DiskInv, NEW i \in DOMAIN journal, NEW m \in DOMAIN journal[i].lines,
           Overwrite(i, m)
    PROVE  DiskInv'
<1> DEFINE n == Len(journal)
<1>1. /\ IsJournal(journal') /\ Len(journal') = n
      /\ \A g \in 1..n :
             /\ Header(journal'[g]) = Header(journal[g])
             /\ journal'[g].final_newline = journal[g].final_newline
             /\ g # i => journal'[g] = journal[g]
      /\ SeqOk(journal) => SeqOk(journal')
      /\ Torn(journal') <=> Torn(journal)
      /\ LastSeq(journal') = LastSeq(journal)
      /\ overwrites' = overwrites + 1
      /\ tailHit' = (tailHit \/ i = n)
      /\ process' = process /\ written' = written
  BY OverwriteStep
<1>2. n \in 1..n /\ IsJournal(journal)
  BY Indices DEF DiskInv
<1>3. journal'[n].final_newline = journal[n].final_newline
  BY <1>1, <1>2
<1>4. ~tailHit' => journal'[n] = written[n]
  BY <1>1, <1>2 DEF DiskInv
<1>5. \A g \in 1..n : Header(journal'[g]).line_kind \in {"header", "raw"}
  BY <1>1 DEF DiskInv
<1>6. overwrites' \in Nat /\ overwrites' # 0
  BY <1>1 DEF DiskInv
<1> HIDE DEF n
<1> QED  BY <1>1, <1>3, <1>4, <1>5, <1>6 DEF DiskInv, n

\* Every step of the writer, a crash and an overwrite.
LEMMA DiskInvStep == DiskInv /\ DiskStep => DiskInv'
<1>1. DiskInv /\ Exit => DiskInv'
  BY DEF DiskInv, Exit, faults
<1>2. DiskInv /\ ReusePid => DiskInv'
  BY DEF DiskInv, ReusePid, faults
<1> QED  BY <1>1, <1>2, AppendKeepsDiskInv, RollKeepsDiskInv, CrashKeepsDiskInv,
            OverwriteKeepsDiskInv DEF DiskStep

\* The writer only adds to what it wrote, and never behind a terminal line.
LEMMA WriterAppends ==
    ASSUME DiskInv, DiskStep
    PROVE  /\ Extends(written', written)
           /\ StateOf(written) \in {"finished", "refused"} => written' = written
<1>1. IsJournal(written)
  BY DEF DiskInv
<1>2. StateOf(written) \in {"finished", "refused"} => NextLines = {} /\ StateOf(written) \notin NonTerminal
  BY NoneIsNoState DEF NextLines, NextStates, Lifecycle, NonTerminal
<1>3. ASSUME NEW line \in NextLines, AppendLine(line)
      PROVE  Extends(written', written)
  BY <1>1, <1>3, LongerExtends DEF AppendLine
<1>4. CASE Roll
  <2>1. Extends(written', written)
    BY <1>1, <1>4, GrownExtends, RolledSegment DEF Roll
  <2> QED  BY <1>2, <1>4, <2>1 DEF Roll
<1>5. CASE CrashInAppend
  <2>1. Extends(TornSegment(written), written)
    BY <1>1, GrownExtends DEF TornSegment
  <2>2. \A line : Extends(TornLine(written, line), written)
    BY <1>1, LongerExtends
  <2> QED  BY <1>2, <1>5, <2>1, <2>2 DEF CrashInAppend
<1>6. CASE UNCHANGED written
  BY <1>1, <1>6, ExtendsReflexive
<1> QED  BY <1>2, <1>3, <1>4, <1>5, <1>6 DEF DiskStep, Exit, ReusePid, Overwrite

\* Counters and flags of the faults only go up.
LEMMA FaultsStay ==
    ASSUME DiskInv, DiskStep
    PROVE  /\ tailHit => tailHit'
           /\ overwrites' >= overwrites /\ overwrites \in Nat
<1>1. overwrites \in Nat
  BY DEF DiskInv
<1>2. CASE UNCHANGED faults
  BY <1>1, <1>2 DEF faults
<1>3. ASSUME NEW i, NEW k, Overwrite(i, k)
      PROVE  /\ tailHit => tailHit'
             /\ overwrites' >= overwrites
  <2>1. overwrites' = overwrites + 1 /\ tailHit' = (tailHit \/ i = Open)
    BY <1>3, Zenon DEF Overwrite
  <2>2. tailHit => tailHit'
    BY <2>1, Zenon
  <2>3. overwrites' >= overwrites
    BY <1>1, <2>1
  <2> QED  BY <2>2, <2>3
<1> QED  BY <1>1, <1>2, <1>3 DEF DiskStep, AppendLine, Roll, Exit, CrashInAppend, ReusePid

------------------------------------------------------------------------------
(* The reader. *)

Terminal == {"finished", "refused"}

\* A journal the writer had written at one moment of the read, and that the last
\* segment read ends; behind a terminal line nothing was written since.
Moment(w) ==
    /\ IsJournal(w) /\ ChainOk(w)
    /\ Len(w) = Len(read) /\ w[Len(w)] = read[Len(read)]
    /\ Extends(written, w) /\ Extends(w, began)
    /\ StateOf(w) \in Terminal => written = w

\* Inductive invariant of a read: once its last segment is the last there is, and
\* neither torn nor overwritten, it stems from one moment.
ReadInv ==
    /\ atEnd => read # None /\ Len(read) >= 1
    /\ read # None =>
           /\ IsSeq(read) /\ \A i \in 1..Len(read) : IsSegment(read[i])
           /\ Len(read) <= Len(journal)
           /\ IsJournal(began) /\ Extends(written, began)
           /\ (/\ Len(read) >= 1 /\ ~tailHit
               /\ Len(read) = Len(journal) \/ atEnd
               /\ read[Len(read)].final_newline)
              => \E w : Moment(w)

\* Such a read is accepted only when it is the journal of that moment.
LEMMA AcceptedIsMoment ==
    ASSUME ReadInv, atEnd, ~FailsClosed(read), ~tailHit
    PROVE  IsJournal(read) /\ Moment(read)
<1> DEFINE n == Len(read)
<1>1. /\ IsSeq(read) /\ n >= 1 /\ \A i \in 1..n : IsSegment(read[i])
  BY DEF ReadInv
<1>2. IsJournal(read)
  BY <1>1 DEF IsJournal
<1>3. n \in Nat /\ n \in 1..n /\ DOMAIN read = 1..n
  BY <1>2, Indices
<1>4. ChainOk(read) /\ read[n].final_newline
  BY <1>3 DEF FailsClosed, Torn
<1>5. PICK w : Moment(w)
  BY <1>1, <1>4 DEF ReadInv
<1>6. /\ IsJournal(w) /\ ChainOk(w) /\ Len(w) = n /\ w[n] = read[n]
  BY <1>5 DEF Moment
<1>7. \A i \in 1..n : w[i] = read[i]
  <2>1. 1 <= n /\ n <= Len(w) /\ n <= Len(read)
    BY <1>1, <1>3, <1>6
  <2> HIDE DEF n
  <2> QED  BY <1>2, <1>3, <1>4, <1>6, <2>1, SegmentPinsPrefix
<1>8. w = read
  <2>1. w = [i \in 1..n |-> w[i]] /\ read = [i \in 1..n |-> read[i]]
    BY <1>2, <1>6 DEF IsJournal, IsSeq
  <2> QED  BY <1>7, <2>1
<1> QED  BY <1>2, <1>5, <1>8

\* A read under way while the files change.
LEMMA ReadInvDisk ==
    ASSUME DiskInv, DiskInv', ReadInv, DiskStep, UNCHANGED <<read, atEnd, shown, began>>
    PROVE  ReadInv'
<1>1. /\ IsJournal(written) /\ IsJournal(written')
      /\ Len(journal) = Len(written) /\ Len(journal') = Len(written')
  BY DEF DiskInv
<1>2. /\ Extends(written', written)
      /\ StateOf(written) \in Terminal => written' = written
  BY WriterAppends DEF Terminal
<1>3. Len(written) \in Nat /\ Len(written') \in Nat /\ Len(written) <= Len(written')
  BY <1>1, <1>2, Indices DEF Extends
<1>4. tailHit => tailHit'
  BY FaultsStay
<1>5. read' = read /\ atEnd' = atEnd /\ began' = began
  OBVIOUS
<1>6. ASSUME NEW w, Moment(w) PROVE Moment(w)'
  <2>1. IsJournal(w) /\ Extends(written, w) /\ (StateOf(w) \in Terminal => written = w)
    BY <1>6 DEF Moment
  <2>2. Extends(written', w)
    BY <1>1, <1>2, <2>1, ExtendsTransitive
  <2>3. StateOf(w) \in Terminal => written' = w
    BY <1>2, <2>1
  <2> QED  BY <1>5, <1>6, <2>2, <2>3 DEF Moment
<1>7. ASSUME read # None PROVE Extends(written', began)
  <2>1. IsJournal(began) /\ Extends(written, began)
    BY <1>7 DEF ReadInv
  <2> QED  BY <1>1, <1>2, <2>1, ExtendsTransitive
<1>8. ASSUME read # None
      PROVE  /\ Len(read) \in Nat /\ Len(read) <= Len(journal')
             /\ Len(read) = Len(journal') => Len(read) = Len(journal)
  <2>1. IsSeq(read) /\ Len(read) <= Len(journal)
    BY <1>8 DEF ReadInv
  <2>2. Len(read) \in Nat
    BY <2>1 DEF IsSeq
  <2> QED  BY <1>1, <1>3, <2>1, <2>2
<1>9. ASSUME read # None, Len(read) >= 1, ~tailHit',
             Len(read) = Len(journal') \/ atEnd, read[Len(read)].final_newline
      PROVE  \E w : Moment(w)'
  <2>1. PICK w : Moment(w)
    BY <1>4, <1>8, <1>9 DEF ReadInv
  <2> QED  BY <1>6, <2>1
<1>10. /\ atEnd' => read' # None /\ Len(read') >= 1
       /\ read' # None =>
              /\ IsSeq(read') /\ \A i \in 1..Len(read') : IsSegment(read'[i])
              /\ IsJournal(began')
  BY <1>5 DEF ReadInv
<1> QED  BY <1>5, <1>7, <1>8, <1>9, <1>10 DEF ReadInv

\* A read that opens its next segment; the last one makes the present the moment.
LEMMA ReadInvOpen ==
    ASSUME DiskInv, ReadInv, OpenSegment
    PROVE  ReadInv'
<1> DEFINE n == Len(read) + 1
<1>1. /\ read # None /\ ~atEnd /\ Len(read) < Len(journal)
      /\ read' = Append(read, journal[n]) /\ atEnd' = atEnd /\ began' = began
      /\ journal' = journal /\ written' = written /\ tailHit' = tailHit
  BY DEF OpenSegment, disk
<1>2. /\ IsSeq(read) /\ \A i \in 1..Len(read) : IsSegment(read[i])
      /\ IsJournal(began) /\ Extends(written, began)
  BY <1>1 DEF ReadInv
<1>3. Len(read) \in Nat
  BY <1>2 DEF IsSeq
<1>4. IsJournal(journal) /\ Len(journal) \in Nat /\ n \in 1..Len(journal)
  BY <1>1, <1>3, Indices DEF DiskInv
<1>5. IsSegment(journal[n])
  BY <1>4 DEF IsJournal
<1>6. /\ IsSeq(read') /\ Len(read') = n
      /\ \A i \in 1..Len(read) : read'[i] = read[i]
      /\ read'[n] = journal[n]
  BY <1>1, <1>2, AppendIsSeq
<1>7. \A i \in 1..n : i \in 1..Len(read) \/ i = n
  BY <1>3
<1>8. \A i \in 1..n : IsSegment(read'[i])
  BY <1>2, <1>5, <1>6, <1>7
<1>9. ASSUME ~tailHit, n = Len(journal), journal[n].final_newline
      PROVE  Moment(written)'
  <2>1. /\ IsJournal(written) /\ Len(written) = n /\ written[n] = journal[n]
        /\ ~FailsClosed(written)
    BY <1>9 DEF DiskInv
  <2>2. ChainOk(written)
    BY <2>1 DEF FailsClosed
  <2>3. Extends(written, written)
    BY <2>1, ExtendsReflexive
  <2> HIDE DEF n
  <2> QED  BY <1>1, <1>2, <1>6, <2>1, <2>2, <2>3 DEF Moment
<1> HIDE DEF n
<1>10. (/\ ~tailHit' /\ (Len(read') = Len(journal') \/ atEnd')
        /\ read'[Len(read')].final_newline) => \E w : Moment(w)'
  BY <1>1, <1>6, <1>9
<1>11. n <= Len(journal')
  BY <1>1, <1>4
<1> QED  BY <1>1, <1>2, <1>6, <1>8, <1>10, <1>11 DEF ReadInv

\* Every step.
LEMMA ReadInvStep ==
    ASSUME DiskInv, DiskInv', ReadInv, [Next]_vars
    PROVE  ReadInv'
<1>1. CASE BeginRead
  <2>1. /\ read' = <<>> /\ atEnd' = FALSE /\ began' = written
        /\ journal' = journal /\ written' = written
    BY <1>1 DEF BeginRead, disk
  <2>2. IsJournal(written) /\ IsJournal(journal) /\ Len(journal) >= 1
    BY Indices DEF DiskInv
  <2>3. IsSeq(<<>>) /\ Len(<<>>) = 0 /\ Len(journal) \in Nat
    BY <2>2, Indices DEF IsSeq
  <2>4. Extends(written, written)
    BY <2>2, ExtendsReflexive
  <2>5. IsSeq(read') /\ Len(read') = 0 /\ Len(read') <= Len(journal')
    BY <2>1, <2>3
  <2>6. \A i \in 1..Len(read') : IsSegment(read'[i])
    BY <2>5
  <2>7. ~(Len(read') >= 1)
    BY <2>5
  <2> QED  BY <2>1, <2>2, <2>4, <2>5, <2>6, <2>7 DEF ReadInv
<1>2. CASE NoMoreSegments
  <2>1. /\ read # None /\ Len(read) = Len(journal) /\ read' = read /\ began' = began
        /\ journal' = journal /\ written' = written /\ tailHit' = tailHit
    BY <1>2 DEF NoMoreSegments, disk
  <2>2. Len(journal) >= 1
    BY Indices DEF DiskInv
  <2>3. \A w : Moment(w)' <=> Moment(w)
    BY <2>1 DEF Moment
  <2> QED  BY <2>1, <2>2, <2>3 DEF ReadInv
<1>3. CASE Show
  BY <1>3 DEF Show, ReadInv
<1>4. CASE UNCHANGED vars
  <2>1. /\ read' = read /\ began' = began /\ atEnd' = atEnd
        /\ journal' = journal /\ written' = written /\ tailHit' = tailHit
    BY <1>4 DEF vars, disk
  <2>2. \A w : Moment(w)' <=> Moment(w)
    BY <2>1 DEF Moment
  <2> QED  BY <2>1, <2>2 DEF ReadInv
<1> QED  BY <1>1, <1>2, <1>3, <1>4, ReadInvDisk, ReadInvOpen DEF Next, ReaderStep

\* Both invariants at the start.
LEMMA ReaderInit == Init => DiskInv /\ ReadInv
BY DiskInvInit DEF Init, ReadInv

\* The reader changes nothing on disk.
LEMMA DiskInvNext == DiskInv /\ [Next]_vars => DiskInv'
<1>1. DiskInv /\ UNCHANGED disk => DiskInv'
  BY DEF DiskInv, disk
<1> QED  BY <1>1, DiskInvStep DEF Next, ReaderStep, BeginRead, OpenSegment, NoMoreSegments, Show, vars

\* The disk and the read, together.
LEMMA ReaderSafe == Spec => [](DiskInv /\ ReadInv)
<1>1. DiskInv /\ ReadInv /\ [Next]_vars => (DiskInv /\ ReadInv)'
  BY DiskInvNext, ReadInvStep
<1> QED  BY <1>1, ReaderInit, PTL DEF Spec

\* In every behaviour, for any bounds: a read the reader accepts is the journal
\* exactly as it stood at one moment between the beginning of the read and now,
\* whatever was appended, rolled to, torn or overwritten (the open segment apart)
\* while it was going on.
THEOREM AcceptedIsSnapshot == Spec => []AcceptedReadIsSnapshot
<1>1. ASSUME ~FailsClosed(read), NEW i \in DOMAIN read
      PROVE  read[i].final_newline
  BY <1>1, Zenon DEF FailsClosed, Torn
<1>2. ReadInv => AcceptedReadIsSnapshot
  BY <1>1, AcceptedIsMoment DEF AcceptedReadIsSnapshot, Moment
<1> QED  BY <1>2, ReaderSafe, PTL

------------------------------------------------------------------------------
(* What was shown finished or refused. *)

\* Inductive invariant, without overwrites: the journal ended in what is shown, and
\* a read under way holds it as it is.
ShownInv ==
    (overwrites = 0 /\ shown \in Terminal) =>
        /\ StateOf(written) = shown /\ ~FailsClosed(written)
        /\ read # None => \A i \in 1..Len(read) : read[i] = written[i]
        /\ atEnd => Len(read) = Len(written)

\* Nothing is shown at first, and None is no state.
LEMMA ShownInvInit == Init => ShownInv
<1>1. "finished" \in DOMAIN Lifecycle /\ "refused" \in DOMAIN Lifecycle
  BY DEF Lifecycle
<1> QED  BY <1>1, NoneIsNoState DEF Init, ShownInv, Terminal

\* Every step keeps what was shown finished or refused true.
LEMMA ShownInvStep ==
    ASSUME DiskInv, ReadInv, ShownInv, [Next]_vars
    PROVE  ShownInv'
<1>1. CASE DiskStep /\ UNCHANGED <<read, atEnd, shown, began>>
  <2> SUFFICES ASSUME overwrites' = 0, shown' \in Terminal
               PROVE  /\ StateOf(written') = shown' /\ ~FailsClosed(written')
                      /\ read' # None => \A i \in 1..Len(read') : read'[i] = written'[i]
                      /\ atEnd' => Len(read') = Len(written')
    BY DEF ShownInv
  <2>1. overwrites = 0 /\ shown = shown' /\ read' = read /\ atEnd' = atEnd
    BY <1>1, FaultsStay
  <2>2. StateOf(written) = shown
    BY <2>1 DEF ShownInv
  <2>3. written' = written
    BY <1>1, <2>1, <2>2, WriterAppends DEF Terminal
  <2> QED  BY <2>1, <2>3 DEF ShownInv
<1>2. CASE BeginRead
  <2>1. /\ read' = <<>> /\ atEnd' = FALSE /\ shown' = shown
        /\ written' = written /\ overwrites' = overwrites
    BY <1>2 DEF BeginRead, disk
  <2>2. Len(read') = 0
    BY <2>1
  <2> QED  BY <2>1, <2>2 DEF ShownInv
<1>3. CASE OpenSegment
  <2> SUFFICES ASSUME overwrites = 0, shown \in Terminal
               PROVE  /\ StateOf(written) = shown /\ ~FailsClosed(written)
                      /\ \A i \in 1..Len(read') : read'[i] = written[i]
                      /\ ~atEnd'
    BY <1>3 DEF ShownInv, OpenSegment, disk
  <2>1. read # None /\ ~atEnd' /\ read' = Append(read, journal[Len(read) + 1])
    BY <1>3 DEF OpenSegment
  <2>2. IsSeq(read) /\ Len(read) \in Nat
    BY <2>1 DEF ReadInv, IsSeq
  <2>3. /\ Len(read') = Len(read) + 1
        /\ \A i \in 1..Len(read) : read'[i] = read[i]
        /\ read'[Len(read) + 1] = journal[Len(read) + 1]
    BY <2>1, <2>2, AppendIsSeq
  <2>4. journal = written
    BY DEF DiskInv
  <2>5. \A i \in 1..Len(read') : i \in 1..Len(read) \/ i = Len(read) + 1
    BY <2>2, <2>3
  <2> QED  BY <2>1, <2>3, <2>4, <2>5 DEF ShownInv
<1>4. CASE NoMoreSegments
  BY <1>4 DEF NoMoreSegments, disk, ShownInv, DiskInv
<1>5. CASE Show
  <2> SUFFICES ASSUME overwrites = 0, shown' \in Terminal
               PROVE  StateOf(written) = shown' /\ ~FailsClosed(written)
    BY <1>5 DEF Show, ShownInv, disk
  <2>1. atEnd /\ shown' = Display(read, OwnerLive)
    BY <1>5 DEF Show
  <2>2. ~FailsClosed(read) /\ StateOf(read) = shown'
    BY <2>1 DEF Display, Terminal
  <2>3. ~tailHit
    BY DEF DiskInv
  <2>4. Moment(read)
    BY <2>1, <2>2, <2>3, AcceptedIsMoment
  <2>5. written = read
    BY <2>2, <2>4 DEF Moment
  <2> QED  BY <2>2, <2>5
<1>6. CASE UNCHANGED vars
  BY <1>6 DEF vars, disk, ShownInv
<1> QED  BY <1>1, <1>2, <1>3, <1>4, <1>5, <1>6 DEF Next, ReaderStep

\* A step that shows again shows the same.
LEMMA ShownAgain ==
    ASSUME DiskInv, ReadInv, ShownInv, [Next]_vars, overwrites = 0, shown \in Terminal
    PROVE  shown' = shown
<1>1. CASE Show
  <2>1. atEnd /\ shown' = Display(read, OwnerLive)
    BY <1>1 DEF Show
  <2>2. /\ read # None /\ IsSeq(read) /\ IsSeq(written)
        /\ Len(read) = Len(written) /\ \A i \in 1..Len(read) : read[i] = written[i]
    BY <2>1 DEF ReadInv, ShownInv, DiskInv, IsJournal
  <2>3. read = written
    <3>1. read = [i \in 1..Len(read) |-> read[i]] /\ written = [i \in 1..Len(read) |-> written[i]]
      BY <2>2 DEF IsSeq
    <3> QED  BY <2>2, <3>1
  <2>4. ~FailsClosed(read) /\ StateOf(read) = shown
    BY <2>3 DEF ShownInv
  <2> QED  BY <2>1, <2>4 DEF Display, Terminal, NonTerminal
<1>2. CASE UNCHANGED shown
  BY <1>2
<1> QED  BY <1>1, <1>2 DEF Next, ReaderStep, BeginRead, OpenSegment, NoMoreSegments, vars

\* In every behaviour, for any bounds: as long as no file was overwritten, an
\* attempt once shown finished or refused is never shown as anything else.
THEOREM ShownIsFinal == Spec => TerminalShownIsFinal
<1>1. DiskInv /\ ReadInv /\ ShownInv /\ [Next]_vars => ShownInv'
  BY ShownInvStep
<1>2. Spec => []ShownInv
  BY <1>1, ShownInvInit, ReaderSafe, PTL DEF Spec
<1>3. DiskInv /\ ReadInv /\ ShownInv /\ [Next]_vars
      => [(overwrites = 0 /\ shown \in {"finished", "refused"}) => shown' = shown]_vars
  BY ShownAgain DEF Terminal
<1> QED  BY <1>2, <1>3, ReaderSafe, PTL DEF Spec, TerminalShownIsFinal

------------------------------------------------------------------------------
(* False alarms. *)

\* One overwrite of a sealed segment leaves the chain broken for good.
Flawed == ~ChainOk(journal) \/ Torn(journal) \/ overwrites >= 2

\* The last segment read still begins like the one on disk, and was whole.
SameStart ==
    LET n == Len(read)
    IN  /\ Header(read[n]) = Header(journal[n])
        /\ read[n].final_newline /\ LastLine(read[n]) # Raw
        /\ \A m \in DOMAIN read[n].lines :
               m > 1 => read[n].lines[m].seq = read[n].lines[m - 1].seq + 1

\* Inductive invariant: while the writer has not rolled, what was read is what is
\* on disk, but for lines added since, or the journal on disk is flawed.
AlarmInv ==
    /\ (read # None /\ Len(journal) = Len(began)) =>
           /\ \A i \in 1..Len(read) : i # Len(journal) => read[i] = journal[i] \/ Flawed
           /\ Len(read) = Len(journal) => Torn(journal) \/ SameStart
    /\ (atEnd /\ Len(journal) = Len(began)) => Len(read) = Len(journal)

\* The next segment's header tells an overwritten segment from the one it sealed.
LEMMA OverwriteShows ==
    ASSUME DiskInv, NEW i \in DOMAIN journal, NEW m \in DOMAIN journal[i].lines,
           Overwrite(i, m), i # Len(journal), overwrites = 0, ~Torn(journal)
    PROVE  ~ChainOk(journal')
<1> DEFINE n == Len(journal)
<1>1. /\ i \in 1..n
      /\ IsJournal(journal') /\ Len(journal') = n
      /\ \A g \in 1..n : Header(journal'[g]) = Header(journal[g])
                         /\ (g # i => journal'[g] = journal[g])
      /\ journal' # journal
  BY OverwriteStep
<1>2. IsJournal(journal) /\ n \in Nat /\ n \in 1..n /\ DOMAIN journal = 1..n
  BY Indices DEF DiskInv
<1>3. DOMAIN journal' = 1..n
  BY <1>1, Indices
<1>4. ChainOk(journal)
  <2>1. journal[n].final_newline
    BY <1>2 DEF Torn
  <2> QED  BY <2>1 DEF DiskInv, FailsClosed
<1>5. journal'[i] # journal[i]
  <2>1. journal = [g \in 1..n |-> journal[g]] /\ journal' = [g \in 1..n |-> journal'[g]]
    BY <1>1, <1>2 DEF IsJournal, IsSeq
  <2>2. \E g \in 1..n : journal'[g] # journal[g]
    <3> HIDE DEF n
    <3> QED  BY <1>1, <2>1
  <2> QED  BY <1>1, <2>2
<1>6. i + 1 \in 1..n /\ i + 1 # 1 /\ (i + 1) - 1 = i
  BY <1>1, <1>2
<1>7. ASSUME NEW q, ChainOk(q), DOMAIN q = 1..n
      PROVE  Header(q[i + 1]).previous_segment_sha256 = Digest(q[i])
  <2> DEFINE k == i + 1
  <2>1. k \in DOMAIN q /\ k # 1 /\ k - 1 = i
    BY <1>6, <1>7
  <2> HIDE DEF k
  <2>2. Header(q[k]).previous_segment_sha256 = Digest(q[k - 1])
    BY <2>1, <1>7 DEF ChainOk
  <2>3. Header(q[k]).previous_segment_sha256 = Digest(q[i])
    BY <2>1, <2>2
  <2> QED  BY <2>3 DEF k
<1>8. SUFFICES ASSUME ChainOk(journal') PROVE FALSE
  OBVIOUS
<1>9. Digest(journal'[i]) = Digest(journal[i])
  <2>1. Header(journal'[i + 1]) = Header(journal[i + 1])
    BY <1>1, <1>6
  <2> QED  BY <1>2, <1>3, <1>4, <1>7, <1>8, <2>1
<1>10. IsSegment(journal[i]) /\ IsSegment(journal'[i])
  BY <1>1, <1>2 DEF IsJournal
<1> QED  BY <1>5, <1>9, <1>10, DigestInjective

\* What a disk step that adds no segment does to the segments there are.
LEMMA FlawsStay ==
    ASSUME DiskInv, DiskStep, Len(journal') = Len(journal)
    PROVE  /\ Flawed => Flawed'
           /\ \A g \in 1..Len(journal) :
                  g # Len(journal) => journal'[g] = journal[g] \/ Flawed'
           /\ Torn(journal) => Torn(journal')
           /\ ~Torn(journal') => Header(journal'[Len(journal)]) = Header(journal[Len(journal)])
<1> DEFINE n == Len(journal)
<1>1. /\ IsJournal(journal) /\ n \in Nat /\ n \in 1..n /\ DOMAIN journal = 1..n
      /\ overwrites \in Nat
  BY Indices DEF DiskInv
<1>2. ASSUME Writing, NEW line \in NextLines, AppendLine(line)
      PROVE  /\ ~Torn(journal) /\ overwrites' = overwrites
             /\ ChainOk(journal') => ChainOk(journal)
             /\ \A g \in 1..n : g # n => journal'[g] = journal[g]
             /\ Header(journal'[n]) = Header(journal[n])
  <2>1. ~Torn(journal)
    BY <1>2 DEF DiskInv, Writing
  <2>2. journal' = AddLine(journal, line) /\ overwrites' = overwrites
    BY <1>2 DEF AppendLine, faults
  <2>3. /\ IsJournal(journal') /\ Len(journal') = n
        /\ \A g \in 1..n : g # n => journal'[g] = journal[g]
        /\ Header(journal'[n]) = Header(journal[n])
    <3> DEFINE k == AddLine(journal, line)
    <3>1. /\ IsJournal(k) /\ Len(k) = n
          /\ \A i \in 1..n : i # n => k[i] = journal[i]
          /\ Header(k[n]) = Header(journal[n])
      <4>1. IsJournal(journal)
        BY <1>1
      <4> QED  BY <4>1, AddLineFacts
    <3> QED  BY <2>2, <3>1
  <2>4. ChainOk(journal') => ChainOk(journal)
    BY <1>1, <2>3, ChainOfSealed
  <2> QED  BY <2>1, <2>2, <2>3, <2>4
<1>3. ASSUME Roll PROVE FALSE
  <2> DEFINE h == HeaderLine(n, Digest(journal[n]), LastSeq(journal), LastSeq(journal) + 1)
  <2>1. Len(journal') = n + 1
    <3>1. AddSegment(journal) = Append(journal, [lines |-> <<h>>, final_newline |-> TRUE])
      BY RolledSegment
    <3> HIDE DEF h
    <3>2. Len(AddSegment(journal)) = n + 1
      BY <1>1, <3>1, GrowFacts
    <3> QED  BY <1>3, <3>2 DEF Roll
  <2> QED  BY <1>1, <2>1
<1>4. ASSUME CrashInAppend
      PROVE  /\ Torn(journal')
             /\ \A g \in 1..n : g # n => journal'[g] = journal[g]
  <2>1. journal' # TornSegment(journal)
    <3>1. Len(TornSegment(journal)) = n + 1
      BY <1>1, GrowFacts DEF TornSegment
    <3> QED  BY <1>1, <3>1
  <2>2. PICK line : journal' = TornLine(journal, line)
    BY <1>4, <2>1, Zenon DEF CrashInAppend
  <2>3. /\ IsJournal(journal') /\ Len(journal') = n
        /\ \A i \in 1..n : i # n => journal'[i] = journal[i]
        /\ ~journal'[n].final_newline
    BY <1>1, <2>2, TornLineFacts
  <2>4. n \in DOMAIN journal'
    BY <1>1, <2>3, Indices
  <2> QED  BY <2>3, <2>4 DEF Torn
<1>5. ASSUME NEW i \in DOMAIN journal, NEW m \in DOMAIN journal[i].lines, Overwrite(i, m)
      PROVE  /\ Flawed => Flawed'
             /\ \A g \in 1..n : g # n => journal'[g] = journal[g] \/ Flawed'
             /\ Torn(journal) <=> Torn(journal')
             /\ Header(journal'[n]) = Header(journal[n])
  <2>1. /\ i \in 1..n
        /\ \A g \in 1..n : Header(journal'[g]) = Header(journal[g])
                           /\ (g # i => journal'[g] = journal[g])
        /\ Torn(journal') <=> Torn(journal)
        /\ overwrites' = overwrites + 1
    BY <1>5, OverwriteStep
  <2>2. CASE overwrites >= 1
    <3>1. overwrites' >= 2
      BY <1>1, <2>1, <2>2
    <3> QED  BY <1>1, <2>1, <3>1 DEF Flawed
  <2>3. CASE overwrites = 0 /\ Torn(journal)
    BY <1>1, <2>1, <2>3 DEF Flawed
  <2>4. CASE overwrites = 0 /\ ~Torn(journal)
    <3>1. ~Flawed
      <4>1. journal[n].final_newline
        BY <1>1, <2>4 DEF Torn
      <4>2. ChainOk(journal)
        BY <2>4, <4>1 DEF DiskInv, FailsClosed
      <4> QED  BY <2>4, <4>2 DEF Flawed
    <3>2. i # n => ~ChainOk(journal')
      BY <1>5, <2>4, OverwriteShows
    <3>3. \A g \in 1..n : g # n => journal'[g] = journal[g] \/ Flawed'
      BY <2>1, <3>2 DEF Flawed
    <3> QED  BY <1>1, <2>1, <3>1, <3>3
  <2> QED  BY <1>1, <2>2, <2>3, <2>4
<1>6. CASE Exit \/ ReusePid
  BY <1>6 DEF Exit, ReusePid, faults, Flawed
<1>7. CASE Writing /\ \E line \in NextLines : AppendLine(line)
  BY <1>2, <1>7 DEF Flawed
<1>8. CASE CrashInAppend
  BY <1>4, <1>8 DEF Flawed
<1>9. CASE \E i \in DOMAIN journal : \E m \in DOMAIN journal[i].lines : Overwrite(i, m)
  BY <1>5, <1>9
<1> QED  BY <1>3, <1>6, <1>7, <1>8, <1>9 DEF DiskStep

\* The journal on disk does not shrink; what is longer than the journal the read
\* began with stays so.
LEMMA NotShorter ==
    ASSUME DiskInv, DiskInv', DiskStep
    PROVE  Len(journal) <= Len(journal') /\ Len(journal) \in Nat /\ Len(journal') \in Nat
<1>1. Extends(written', written)
  BY WriterAppends
<1> QED  BY <1>1, Indices DEF Extends, DiskInv

\* The files change under a read.
LEMMA AlarmInvDisk ==
    ASSUME DiskInv, DiskInv', ReadInv, AlarmInv, DiskStep,
           UNCHANGED <<read, atEnd, shown, began>>
    PROVE  AlarmInv'
<1>1. read' = read /\ atEnd' = atEnd /\ began' = began
  OBVIOUS
<1>2. Len(journal) <= Len(journal') /\ Len(journal) \in Nat /\ Len(journal') \in Nat
  BY NotShorter
<1> SUFFICES ASSUME read # None, Len(journal') = Len(began)
             PROVE  /\ \A i \in 1..Len(read) :
                           i # Len(journal') => read[i] = journal'[i] \/ Flawed'
                    /\ Len(read) = Len(journal') => Torn(journal') \/ SameStart'
                    /\ atEnd => Len(read) = Len(journal')
  BY <1>1 DEF AlarmInv, ReadInv
<1>3. Len(journal) = Len(began) /\ Len(journal') = Len(journal)
  <2>1. IsJournal(began) /\ Extends(written, began) /\ Len(written) = Len(journal)
    BY DEF ReadInv, DiskInv
  <2>2. Len(began) \in Nat /\ Len(began) <= Len(journal)
    BY <2>1, Indices DEF Extends
  <2> QED  BY <1>2, <2>2
<1>4. /\ \A i \in 1..Len(read) : i # Len(journal) => read[i] = journal[i] \/ Flawed
      /\ Len(read) = Len(journal) => Torn(journal) \/ SameStart
      /\ atEnd => Len(read) = Len(journal)
  BY <1>3 DEF AlarmInv
<1>5. /\ Flawed => Flawed'
      /\ \A g \in 1..Len(journal) : g # Len(journal) => journal'[g] = journal[g] \/ Flawed'
      /\ Torn(journal) => Torn(journal')
      /\ ~Torn(journal') => Header(journal'[Len(journal)]) = Header(journal[Len(journal)])
  BY <1>3, FlawsStay
<1>6. ASSUME NEW i \in 1..Len(read), i # Len(journal)
      PROVE  read[i] = journal'[i] \/ Flawed'
  <2>1. i \in 1..Len(journal)
    <3>1. Len(read) <= Len(journal) /\ Len(read) \in Nat
      BY DEF ReadInv, IsSeq
    <3> QED  BY <1>2, <3>1
  <2> QED  BY <1>4, <1>5, <1>6, <2>1
<1>7. ASSUME Len(read) = Len(journal), ~Torn(journal') PROVE SameStart'
  <2>1. SameStart
    BY <1>4, <1>5, <1>7
  <2>2. Header(journal'[Len(read)]) = Header(journal[Len(read)])
    BY <1>5, <1>7
  <2> QED  BY <1>1, <2>1, <2>2 DEF SameStart
<1> QED  BY <1>3, <1>4, <1>6, <1>7

\* The read goes on.
LEMMA AlarmInvOpen ==
    ASSUME DiskInv, ReadInv, AlarmInv, OpenSegment
    PROVE  AlarmInv'
<1> DEFINE n == Len(read) + 1
<1>1. /\ read # None /\ ~atEnd /\ Len(read) < Len(journal)
      /\ read' = Append(read, journal[n]) /\ atEnd' = atEnd /\ began' = began
      /\ journal' = journal /\ overwrites' = overwrites
  BY DEF OpenSegment, disk
<1>2. IsSeq(read) /\ Len(read) \in Nat
  BY <1>1 DEF ReadInv, IsSeq
<1>3. IsJournal(journal) /\ Len(journal) \in Nat /\ n \in 1..Len(journal) /\ DOMAIN journal = 1..Len(journal)
  BY <1>1, <1>2, Indices DEF DiskInv
<1>4. /\ Len(read') = n
      /\ \A i \in 1..Len(read) : read'[i] = read[i]
      /\ read'[n] = journal[n]
  BY <1>1, <1>2, AppendIsSeq
<1>5. \A i \in 1..n : i \in 1..Len(read) \/ i = n
  BY <1>2
<1>6. ASSUME n = Len(journal), ~Torn(journal) PROVE SameStart'
  <2>1. journal[n].final_newline /\ LastLine(journal[n]) # Raw
    BY <1>3, <1>6 DEF Torn
  <2>2. SeqOk(journal)
    BY <1>6, <2>1 DEF DiskInv
  <2>3. \A m \in DOMAIN journal[n].lines :
            m > 1 => journal[n].lines[m].seq = journal[n].lines[m - 1].seq + 1
    BY <1>3, <2>2 DEF SeqOk
  <2> HIDE DEF n
  <2> QED  BY <1>1, <1>4, <2>1, <2>3 DEF SameStart
<1>7. Flawed' <=> Flawed
  BY <1>1 DEF Flawed
<1> HIDE DEF n
<1>8. Len(journal) = Len(began) =>
          \A i \in 1..n : i # Len(journal) => read'[i] = journal[i] \/ Flawed
  BY <1>1, <1>4, <1>5 DEF AlarmInv
<1> QED  BY <1>1, <1>4, <1>6, <1>7, <1>8 DEF AlarmInv

\* Every step keeps AlarmInv.
LEMMA AlarmInvStep ==
    ASSUME DiskInv, DiskInv', ReadInv, AlarmInv, [Next]_vars
    PROVE  AlarmInv'
<1>1. CASE BeginRead
  <2>1. read' = <<>> /\ atEnd' = FALSE /\ journal' = journal
    BY <1>1 DEF BeginRead, disk
  <2>2. Len(read') = 0 /\ Len(journal') >= 1
    BY <2>1, Indices DEF DiskInv
  <2> QED  BY <2>1, <2>2 DEF AlarmInv
<1>2. CASE NoMoreSegments
  <2>1. /\ read' = read /\ began' = began /\ journal' = journal /\ overwrites' = overwrites
        /\ Len(read) = Len(journal) /\ read # None
    BY <1>2 DEF NoMoreSegments, disk
  <2>2. (Flawed' <=> Flawed) /\ (SameStart' <=> SameStart)
    BY <2>1 DEF Flawed, SameStart
  <2> QED  BY <2>1, <2>2 DEF AlarmInv
<1>3. CASE Show
  BY <1>3 DEF Show, AlarmInv
<1>4. CASE UNCHANGED vars
  <2>1. /\ read' = read /\ began' = began /\ journal' = journal /\ overwrites' = overwrites
        /\ atEnd' = atEnd
    BY <1>4 DEF vars, disk
  <2>2. (Flawed' <=> Flawed) /\ (SameStart' <=> SameStart)
    BY <2>1 DEF Flawed, SameStart
  <2> QED  BY <2>1, <2>2 DEF AlarmInv
<1> QED  BY <1>1, <1>2, <1>3, <1>4, AlarmInvDisk, AlarmInvOpen DEF Next, ReaderStep

\* A segment that begins like the last one of a counted journal and counts on is
\* counted too.
LEMMA SeqOfSealed ==
    ASSUME NEW j, NEW k, IsJournal(j), IsJournal(k), Len(k) = Len(j), SeqOk(j),
           \A i \in 1..Len(j) : i # Len(j) => k[i] = j[i],
           Header(k[Len(j)]) = Header(j[Len(j)]),
           \A m \in DOMAIN k[Len(j)].lines :
               m > 1 => k[Len(j)].lines[m].seq = k[Len(j)].lines[m - 1].seq + 1
    PROVE  SeqOk(k)
<1> DEFINE n == Len(j)
<1>1. /\ n \in Nat /\ n \in 1..n /\ DOMAIN j = 1..n /\ DOMAIN k = 1..n
      /\ \A i \in 1..n :
             /\ Len(j[i].lines) \in Nat /\ Len(j[i].lines) >= 1
             /\ DOMAIN j[i].lines = 1..Len(j[i].lines)
             /\ Len(k[i].lines) \in Nat /\ Len(k[i].lines) >= 1
             /\ DOMAIN k[i].lines = 1..Len(k[i].lines)
  BY Indices
<1> SUFFICES ASSUME NEW i \in 1..n
             PROVE  /\ Header(k[i]).previous_last_seq =
                           IF i = 1 THEN None ELSE LastLine(k[i - 1]).seq
                    /\ \A m \in DOMAIN k[i].lines :
                           k[i].lines[m].seq =
                               IF m > 1 THEN k[i].lines[m - 1].seq + 1
                               ELSE IF i = 1 THEN 0
                               ELSE LastLine(k[i - 1]).seq + 1
  BY <1>1 DEF SeqOk
<1>2. Header(k[i]) = Header(j[i])
  OBVIOUS
<1>3. i # 1 => k[i - 1] = j[i - 1]
  <2>1. i # 1 => i - 1 \in 1..n /\ i - 1 # n
    BY <1>1, IndexBefore
  <2> QED  BY <2>1
<1>4. /\ Header(j[i]).previous_last_seq =
             IF i = 1 THEN None ELSE LastLine(j[i - 1]).seq
      /\ \A m \in DOMAIN j[i].lines :
             j[i].lines[m].seq =
                 IF m > 1 THEN j[i].lines[m - 1].seq + 1
                 ELSE IF i = 1 THEN 0
                 ELSE LastLine(j[i - 1]).seq + 1
  BY <1>1 DEF SeqOk
<1> HIDE DEF n
<1>5. CASE i # n
  <2>1. k[i] = j[i]
    BY <1>5 DEF n
  <2> QED  BY <1>3, <1>4, <2>1
<1>6. CASE i = n
  <2>1. Header(j[i]).seq = IF i = 1 THEN 0 ELSE LastLine(j[i - 1]).seq + 1
    <3>1. 1 \in DOMAIN j[i].lines /\ ~(1 > 1)
      BY <1>1
    <3> QED  BY <1>4, <3>1 DEF Header
  <2>2. ASSUME NEW m \in DOMAIN k[i].lines
        PROVE  k[i].lines[m].seq =
                   IF m > 1 THEN k[i].lines[m - 1].seq + 1
                   ELSE IF i = 1 THEN 0
                   ELSE LastLine(k[i - 1]).seq + 1
    <3>1. CASE m > 1
      BY <1>6, <3>1 DEF n
    <3>2. CASE ~(m > 1)
      <4>1. m = 1
        BY <1>1, <3>2
      <4> QED  BY <1>2, <1>3, <2>1, <4>1 DEF Header
    <3> QED  BY <3>1, <3>2
  <2> QED  BY <1>2, <1>3, <1>4, <2>2
<1> QED  BY <1>5, <1>6

\* What AlarmInv says of a finished read.
LEMMA AlarmCause ==
    ASSUME DiskInv, ReadInv, AlarmInv, atEnd, overwrites < 2, ~FailsClosed(journal),
           ~(Len(written) > Len(began))
    PROVE  ~FailsClosed(read)
<1> DEFINE n == Len(journal)
<1>1. /\ read # None /\ IsSeq(read) /\ Len(read) >= 1
      /\ \A i \in 1..Len(read) : IsSegment(read[i])
      /\ IsJournal(began) /\ Extends(written, began)
  BY DEF ReadInv
<1>2. IsJournal(journal) /\ IsJournal(written) /\ Len(written) = n /\ overwrites \in Nat
  BY DEF DiskInv
<1>3. n = Len(began)
  <2>1. Len(began) \in Nat /\ Len(written) \in Nat /\ Len(began) <= Len(written)
    BY <1>1, <1>2, Indices DEF Extends
  <2> QED  BY <1>2, <2>1
<1>4. ~Torn(journal) /\ ChainOk(journal) /\ SeqOk(journal) /\ ~Flawed
  BY <1>2 DEF FailsClosed, Flawed
<1>5. /\ Len(read) = n /\ SameStart
      /\ \A i \in 1..n : i # n => read[i] = journal[i]
  BY <1>1, <1>3, <1>4 DEF AlarmInv
<1>6. IsJournal(read)
  BY <1>1 DEF IsJournal
<1>7. /\ Header(read[n]) = Header(journal[n])
      /\ read[n].final_newline /\ LastLine(read[n]) # Raw
      /\ \A m \in DOMAIN read[n].lines :
             m > 1 => read[n].lines[m].seq = read[n].lines[m - 1].seq + 1
  BY <1>5 DEF SameStart
<1>8. ChainOk(read)
  BY <1>2, <1>4, <1>5, <1>6, <1>7, ChainOfSealed
<1>9. SeqOk(read)
  BY <1>2, <1>4, <1>5, <1>6, <1>7, SeqOfSealed
<1>10. ~Torn(read)
  <2>1. DOMAIN read = 1..n /\ DOMAIN journal = 1..n
    BY <1>2, <1>5, <1>6, Indices
  <2> QED  BY <1>4, <1>5, <1>7, <2>1 DEF Torn
<1> QED  BY <1>8, <1>9, <1>10 DEF FailsClosed

\* In every behaviour, for any bounds: a read fails closed while the journal on
\* disk is whole only when the writer rolled to a new segment during the read, or
\* after a second overwrite.
THEOREM AlarmsHaveCauses == Spec => []AlarmHasCause
<1>1. Init => AlarmInv
  BY DEF Init, AlarmInv
<1>2. DiskInv /\ DiskInv' /\ ReadInv /\ AlarmInv /\ [Next]_vars => AlarmInv'
  BY AlarmInvStep
<1>3. DiskInv /\ ReadInv /\ AlarmInv => AlarmHasCause
  BY AlarmCause DEF AlarmHasCause
<1> QED  BY <1>1, <1>2, <1>3, ReaderSafe, PTL DEF Spec
==============================================================================
