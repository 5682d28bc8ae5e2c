----------------------------- MODULE StringLemmas -----------------------------
(***************************************************************************)
(* What the proofs need to know of the operators on strings, paths and     *)
(* frames: pieces of a sequence, what Find returns, what SplitN cuts, what *)
(* CanonicalizePath makes of the components of a path, what the components *)
(* of a path are that is put together, and which lines and request lines   *)
(* the cuts make.                                                          *)
(***************************************************************************)
EXTENDS HttpMessages, HtAccess, SequenceLemmas, FiniteSetTheorems

-----------------------------------------------------------------------------
(* Pieces of a sequence, by the positions they begin and end at.           *)

Slice(s, from, to) == SubSeq(s, from + 1, to)

\* a..b is a piece of s.
Within(s, a, b) == a \in Nat /\ b \in Nat /\ a <= b /\ b <= Len(s)

\* What a piece is.
LEMMA SliceIs ==
  ASSUME NEW S, NEW s \in Seq(S), NEW a, NEW b, Within(s, a, b)
  PROVE  /\ Slice(s, a, b) \in Seq(S) /\ Len(Slice(s, a, b)) = b - a
         /\ \A i \in 1..(b - a) : Slice(s, a, b)[i] = s[a + i]
<1>1. \A i \in 1..Len(s) : s[i] \in S
    OBVIOUS
<1>2. a \in Nat /\ b \in Nat /\ a <= b /\ \A i \in (a + 1)..b : s[i] \in S
    BY <1>1 DEF Within
<1>3. /\ SubSeq(s, a + 1, b) \in Seq(S) /\ Len(SubSeq(s, a + 1, b)) = b - a
      /\ \A i \in 1..(b - a) : SubSeq(s, a + 1, b)[i] = s[a + i]
    BY <1>2, SubSeqProperties
<1>4. QED
    BY <1>3 DEF Slice

\* Where the elements of a piece come from.
LEMMA SliceElement ==
  ASSUME NEW S, NEW s \in Seq(S), NEW a \in Nat, NEW b \in Nat, Within(s, a, b),
         NEW i \in 1..(b - a)
  PROVE  Slice(s, a, b)[i] = s[a + i]
BY SliceIs, SMTT(60)

\* Two adjacent pieces are one.
LEMMA SlicesJoin ==
  ASSUME NEW S, NEW s \in Seq(S), NEW a, NEW b, NEW c, Within(s, a, b), Within(s, b, c)
  PROVE  Slice(s, a, b) \o Slice(s, b, c) = Slice(s, a, c)
<1>1. PICK m : m = a + 1
    OBVIOUS
<1>2. m \in 1..(Len(s) + 1) /\ b \in (m - 1)..Len(s) /\ c \in b..Len(s)
    BY <1>1 DEF Within
<1>3. SubSeq(s, m, b) \o SubSeq(s, b + 1, c) = SubSeq(s, m, c)
    BY <1>2, ConcatAdjacentSubSeq
<1>4. QED
    BY <1>1, <1>3 DEF Slice

\* All of a sequence.
LEMMA SliceAll == ASSUME NEW S, NEW s \in Seq(S) PROVE Slice(s, 0, Len(s)) = s
<1>1. SubSeq(s, 1, Len(s)) = s
    BY SubSeqFull
<1>2. QED
    BY <1>1 DEF Slice

-----------------------------------------------------------------------------
(* Find and Has.                                                           *)

\* sep occurs in s after the first p symbols.
Occurs(s, sep, p) == p \in 0..(Len(s) - Len(sep)) /\ SubSeq(s, p + 1, p + Len(sep)) = sep

\* Has and Find in terms of that.
LEMMA HasIs == ASSUME NEW s, NEW sep PROVE Has(s, sep) <=> \E p : Occurs(s, sep, p)
BY DEF Has, Occurs

\* Find returns the first occurrence, or the length.
LEMMA FindIs ==
  ASSUME NEW S, NEW s \in Seq(S), NEW sep \in Seq(S)
  PROVE  LET end == Find(s, sep, 0) IN
           \/ Occurs(s, sep, end) /\ \A p \in 0..(end - 1) : ~Occurs(s, sep, p)
           \/ end = Len(s) /\ \A p : ~Occurs(s, sep, p)
<1> DEFINE T == {p \in 0..(Len(s) - Len(sep)) : SubSeq(s, p + 1, p + Len(sep)) = sep}
<1>1. Find(s, sep, 0) = IF T = {} THEN Len(s) ELSE Min(T)
    BY DEF Find
<1>2. \A p : p \in T <=> Occurs(s, sep, p)
    BY DEF Occurs
<1>3. T \in SUBSET Nat
    OBVIOUS
<1> HIDE DEF T
<1>4. CASE T = {}
    BY <1>1, <1>2, <1>4
<1>5. CASE T # {}
  <2>1. PICK end : end = Find(s, sep, 0)
        OBVIOUS
  <2>2. end \in T /\ \A p \in T : end <= p
        BY <1>1, <1>3, <1>5, <2>1, MinIsLeast, ZenonT(60)
  <2>3. \A p \in 0..(end - 1) : p \notin T
        BY <1>3, <2>2
  <2>4. QED
        BY <1>2, <2>1, <2>2, <2>3
<1>6. QED
    BY <1>4, <1>5

\* What is cut off, the separator and the rest are what there was.
LEMMA CutIs ==
  ASSUME NEW S, NEW s \in Seq(S), NEW sep \in Seq(S), NEW end, Occurs(s, sep, end)
  PROVE  /\ end \in Nat /\ end + Len(sep) \in Nat /\ end + Len(sep) <= Len(s)
         /\ Popped(s, end) \in Seq(S) /\ Len(Popped(s, end)) = end
         /\ Remaining(s, end, Len(sep)) \in Seq(S)
         /\ Popped(s, end) \o sep = Slice(s, 0, end + Len(sep))
         /\ (Popped(s, end) \o sep) \o Remaining(s, end, Len(sep)) = s
<1>1. PICK L \in Nat : L = Len(s)
    OBVIOUS
<1>2. PICK n \in Nat : n = Len(sep)
    OBVIOUS
<1>3. end \in Nat /\ end + n <= L /\ SubSeq(s, end + 1, end + n) = sep
    BY <1>1, <1>2 DEF Occurs
<1>4. PICK to \in Nat : to = end + n
    BY <1>3
<1>5. Within(s, 0, end) /\ Within(s, end, to) /\ Within(s, 0, to) /\ Within(s, to, L)
    BY <1>1, <1>3, <1>4 DEF Within
<1>6. /\ Slice(s, 0, end) \in Seq(S) /\ Len(Slice(s, 0, end)) = end - 0
      /\ Slice(s, to, L) \in Seq(S)
    BY <1>5, SliceIs
<1>7. Slice(s, 0, end) \o Slice(s, end, to) = Slice(s, 0, to)
    BY <1>5, SlicesJoin
<1>8. Slice(s, 0, to) \o Slice(s, to, L) = s
    BY <1>1, <1>5, SlicesJoin, SliceAll, SMTT(60)
<1>9. /\ Slice(s, 0, end) = Popped(s, end) /\ Slice(s, end, to) = sep
      /\ Slice(s, to, L) = Remaining(s, end, n)
    BY <1>1, <1>3, <1>4 DEF Slice, Popped, Remaining
<1>10. end \in Nat /\ end + Len(sep) = to /\ to <= Len(s)
    BY <1>1, <1>2, <1>3, <1>4
<1>11. /\ Popped(s, end) \in Seq(S) /\ Len(Popped(s, end)) = end
       /\ Remaining(s, end, n) \in Seq(S)
    BY <1>3, <1>6, <1>9
<1>12. /\ Popped(s, end) \o sep = Slice(s, 0, to)
       /\ (Popped(s, end) \o sep) \o Remaining(s, end, n) = s
    BY <1>7, <1>8, <1>9
<1>13. QED
    BY <1>2, <1>10, <1>11, <1>12

\* A longer sequence has the same occurrences near its beginning.
LEMMA OccursInBeginning ==
  ASSUME NEW S, NEW s \in Seq(S), NEW sep \in Seq(S), NEW to, Within(s, 0, to),
         NEW t, t = Slice(s, 0, to), NEW p \in Nat, p + Len(sep) <= to
  PROVE  Occurs(t, sep, p) <=> Occurs(s, sep, p)
<1>1. PICK L \in Nat : L = Len(s)
    OBVIOUS
<1>2. PICK n \in Nat : n = Len(sep)
    OBVIOUS
<1>3. to \in Nat /\ to <= L /\ p + n <= to
    BY <1>1, <1>2 DEF Within
<1>4. t \in Seq(S) /\ Len(t) = to - 0 /\ \A i \in 1..(to - 0) : t[i] = s[0 + i]
    BY SliceIs
<1>5. t \in Seq(S) /\ Len(t) = to /\ \A i \in 1..to : t[i] = s[i]
    BY <1>3, <1>4
<1>6. PICK b \in Nat : b = p + n
    BY <1>3
<1>7. Within(t, p, b) /\ Within(s, p, b)
    BY <1>1, <1>3, <1>5, <1>6 DEF Within
<1>8. Slice(t, p, b) \in Seq(S)
    BY <1>5, <1>7, SliceIs
<1>8a. Len(Slice(t, p, b)) = b - p
    BY <1>5, <1>7, SliceIs
<1>8b. \A i \in 1..(b - p) : Slice(t, p, b)[i] = t[p + i]
    BY <1>5, <1>7, SliceElement
<1>9. Slice(s, p, b) \in Seq(S)
    BY <1>7, SliceIs
<1>9a. Len(Slice(s, p, b)) = b - p
    BY <1>7, SliceIs
<1>9b. \A i \in 1..(b - p) : Slice(s, p, b)[i] = s[p + i]
    BY <1>7, SliceElement
<1>x. PICK x \in Seq(S) : x = Slice(t, p, b)
    BY <1>8
<1>y. PICK y \in Seq(S) : y = Slice(s, p, b)
    BY <1>9
<1>a. x \in Seq(S) /\ Len(x) = b - p /\ \A i \in 1..(b - p) : x[i] = t[p + i]
    BY <1>x, <1>8a, <1>8b
<1>b. y \in Seq(S) /\ Len(y) = b - p /\ \A i \in 1..(b - p) : y[i] = s[p + i]
    BY <1>y, <1>9a, <1>9b
<1>10. \A i \in 1..(b - p) : p + i \in 1..to
    BY <1>3, <1>6
<1>11. \A i \in 1..Len(x) : x[i] = y[i]
    BY <1>5, <1>a, <1>b, <1>10
<1>12. x = y
    BY <1>a, <1>b, <1>11, SeqEqual
<1>13. SubSeq(t, p + 1, p + n) = SubSeq(s, p + 1, p + n)
    BY <1>6, <1>x, <1>y, <1>12 DEF Slice
<1>14. p \in 0..(L - n) /\ p \in 0..(to - n)
    BY <1>1, <1>2, <1>3
<1>15. QED
    BY <1>1, <1>2, <1>5, <1>13, <1>14 DEF Occurs

\* The first occurrence in what is cut off, with the separator, is at its end.
LEMMA CutAtFirst ==
  ASSUME NEW S, NEW s \in Seq(S), NEW sep \in Seq(S), NEW end, end = Find(s, sep, 0), Has(s, sep)
  PROVE  Occurs(s, sep, end) /\ Find(Popped(s, end) \o sep, sep, 0) = end
<1>1. Occurs(s, sep, end) /\ \A p \in 0..(end - 1) : ~Occurs(s, sep, p)
    BY FindIs, HasIs
<1>2. end \in Nat /\ end + Len(sep) \in Nat /\ end + Len(sep) <= Len(s)
    BY <1>1, CutIs
<1>c. Popped(s, end) \o sep = Slice(s, 0, end + Len(sep))
  <2>1. Occurs(s, sep, end)
        BY <1>1
  <2>2. QED
        BY ONLY <2>1, CutIs, s \in Seq(S), sep \in Seq(S)
<1>3. PICK to \in Nat : to = end + Len(sep) /\ to <= Len(s)
    BY <1>2
<1>4. PICK t : t = Slice(s, 0, to) /\ t = Popped(s, end) \o sep
    BY <1>c, <1>3
<1>5. Within(s, 0, to)
    BY <1>3 DEF Within
<1>6. t \in Seq(S)
    BY <1>4, <1>5, SliceIs
<1>7. \A p \in Nat : p <= end => p + Len(sep) <= to
    BY <1>2, <1>3
<1>8. \A p \in Nat : p <= end => (Occurs(t, sep, p) <=> Occurs(s, sep, p))
    BY <1>4, <1>5, <1>7, OccursInBeginning
<1>9. Occurs(t, sep, end) /\ \A p \in 0..(end - 1) : ~Occurs(t, sep, p)
    BY <1>1, <1>2, <1>8
<1>10. PICK first : first = Find(t, sep, 0)
    OBVIOUS
<1>11. Occurs(t, sep, first) /\ \A p \in 0..(first - 1) : ~Occurs(t, sep, p)
    BY <1>6, <1>9, <1>10, FindIs
<1>12. first \in Nat
    BY <1>6, <1>11, CutIs
<1>13. first = end
    BY <1>2, <1>9, <1>11, <1>12
<1>14. QED
    BY <1>1, <1>4, <1>10, <1>13

-----------------------------------------------------------------------------
(* A frame more is cut.                                                    *)

Delimited(cuts, sep) == [k \in DOMAIN cuts |-> cuts[k] \o sep]
Whole(cuts, sep, rest) == FlattenSeq(Delimited(cuts, sep)) \o rest
AllCut(cuts, sep) == \A k \in DOMAIN cuts : Find(cuts[k] \o sep, sep, 0) = Len(cuts[k])

\* Delimited frames are sequences.
LEMMA DelimitedType ==
  ASSUME NEW S, NEW cuts \in Seq(Seq(S)), NEW sep \in Seq(S)
  PROVE  /\ Delimited(cuts, sep) \in Seq(Seq(S)) /\ Len(Delimited(cuts, sep)) = Len(cuts)
         /\ \A k \in 1..Len(cuts) : Delimited(cuts, sep)[k] = cuts[k] \o sep
         /\ FlattenSeq(Delimited(cuts, sep)) \in Seq(S)
<1>1. PICK n \in Nat : n = Len(cuts) /\ DOMAIN cuts = 1..n
    BY LenProperties
<1>2. \A k \in 1..n : cuts[k] \in Seq(S)
    BY <1>1, ElementOfSeq
<1>3. \A k \in 1..n : cuts[k] \o sep \in Seq(S)
    BY <1>2, ConcatProperties
<1>4. PICK d : d = Delimited(cuts, sep)
    OBVIOUS
<1>5. d = [k \in 1..n |-> cuts[k] \o sep]
    BY <1>1, <1>4 DEF Delimited
<1>6. d \in [1..n -> Seq(S)]
    BY <1>3, <1>5
<1>7. d \in Seq(Seq(S)) /\ Len(d) = n
    BY <1>6
<1>8. \A k \in 1..n : d[k] = cuts[k] \o sep
    BY <1>5
<1>9. FlattenSeq(d) \in Seq(S)
    BY <1>7, FlattenSeqType
<1>10. QED
    BY <1>1, <1>4, <1>7, <1>8, <1>9

\* The first frame in bytes is cut off, and this is the rest.
CutOff(bytes, sep, cuts, more, rest) ==
  /\ Has(bytes, sep)
  /\ more = Append(cuts, Popped(bytes, Find(bytes, sep, 0)))
  /\ rest = Remaining(bytes, Find(bytes, sep, 0), Len(sep))

\* Cutting the first frame off moves bytes from the buffer to the frames, and no
\* byte before or behind them.
LEMMA CutNext ==
  ASSUME NEW S, NEW cuts \in Seq(Seq(S)), NEW sep \in Seq(S), NEW bytes \in Seq(S),
         AllCut(cuts, sep), NEW more, NEW rest, CutOff(bytes, sep, cuts, more, rest)
  PROVE  AllCut(more, sep) /\ Whole(more, sep, rest) = Whole(cuts, sep, bytes)
<1>0. PICK end : end = Find(bytes, sep, 0)
    OBVIOUS
<1>f. PICK frame : frame = Popped(bytes, end)
    OBVIOUS
<1>p. /\ Has(bytes, sep) /\ frame = Popped(bytes, end) /\ more = Append(cuts, frame)
      /\ rest = Remaining(bytes, end, Len(sep))
    BY <1>0, <1>f DEF CutOff
<1>1. Occurs(bytes, sep, end) /\ Find(frame \o sep, sep, 0) = end
    BY <1>0, <1>p, CutAtFirst
<1>2. frame \in Seq(S) /\ Len(frame) = end
    BY <1>1, <1>p, CutIs
<1>3. rest \in Seq(S)
    BY <1>1, <1>p, CutIs
<1>4. (frame \o sep) \o rest = bytes
  <2>1. (Popped(bytes, end) \o sep) \o Remaining(bytes, end, Len(sep)) = bytes
    <3>1. Occurs(bytes, sep, end)
          BY <1>1
    <3>2. QED
          BY ONLY <3>1, CutIs, bytes \in Seq(S), sep \in Seq(S)
  <2>2. QED
        BY <1>p, <2>1
<1>5. more \in Seq(Seq(S)) /\ more = Append(cuts, frame)
  <2>1. PICK T : T = Seq(S)
        OBVIOUS
  <2>2. Append(cuts, frame) \in Seq(T)
        BY <1>2, <2>1, AppendProperties
  <2>3. QED
        BY <1>p, <2>1, <2>2
<1>6. PICK n \in Nat : n = Len(cuts)
    OBVIOUS
<1>7. Len(more) = n + 1 /\ more[n + 1] = frame /\ \A k \in 1..n : more[k] = cuts[k]
    BY <1>2, <1>5, <1>6
<1>8. AllCut(more, sep)
  <2>1. DOMAIN more = 1..(n + 1) /\ DOMAIN cuts = 1..n
        BY <1>5, <1>6, <1>7, LenProperties
  <2>2. ASSUME NEW k \in 1..(n + 1) PROVE Find(more[k] \o sep, sep, 0) = Len(more[k])
    <3>1. CASE k = n + 1
          BY <1>1, <1>2, <1>7, <3>1
    <3>2. CASE k # n + 1
      <4>1. k \in 1..n
            BY <3>2
      <4>2. QED
            BY <1>7, <2>1, <4>1 DEF AllCut
    <3>3. QED
          BY <3>1, <3>2
  <2>3. QED
        BY <2>1, <2>2 DEF AllCut
<1>9. PICK d \in Seq(Seq(S)) : d = Delimited(cuts, sep)
    BY DelimitedType
<1>10. PICK e \in Seq(Seq(S)) : e = Delimited(more, sep)
    BY <1>5, DelimitedType
<1>11. Len(d) = n /\ \A k \in 1..n : d[k] = cuts[k] \o sep
    BY <1>6, <1>9, DelimitedType
<1>12. Len(e) = n + 1 /\ \A k \in 1..(n + 1) : e[k] = more[k] \o sep
  <2>1. Len(e) = Len(more) /\ \A k \in 1..Len(more) : e[k] = more[k] \o sep
        BY <1>5, <1>10, DelimitedType
  <2>2. QED
        BY <1>7, <2>1
<1>13. ASSUME NEW k \in 1..n PROVE e[k] = d[k]
  <2>1. k \in 1..(n + 1) /\ more[k] = cuts[k]
        BY <1>7
  <2>2. QED
        BY <1>11, <1>12, <2>1
<1>14. PICK last \in 1..(n + 1) : last = n + 1
    OBVIOUS
<1>a. e[last] = frame \o sep
    BY <1>7, <1>12, <1>14
<1>15. FlattenSeq(e) = FlattenSeq(d) \o (frame \o sep)
  <2>1. Len(e) = Len(d) + 1 /\ \A k \in 1..Len(d) : e[k] = d[k]
        BY <1>11, <1>12, <1>13
  <2>2. FlattenSeq(e) = FlattenSeq(d) \o e[Len(e)]
        BY <2>1, FlattenSeqAppend
  <2>3. QED
        BY <1>12, <1>14, <1>a, <2>2
<1>16. PICK done \in Seq(S) : done = FlattenSeq(d)
    BY FlattenSeqType
<1>17. PICK cut \in Seq(S) : cut = frame \o sep
    BY <1>2, ConcatProperties
<1>18. (done \o cut) \o rest = done \o (cut \o rest)
  <2>1. PICK left \in Seq(S) : left = rest
        BY <1>3
  <2>2. PICK v, w : v = done \o cut /\ w = cut \o left
        OBVIOUS
  <2>3. v \o left = done \o w
        BY ONLY <2>2, done \in Seq(S), cut \in Seq(S), left \in Seq(S), ConcatRegroup, SMTT(60)
  <2>4. QED
        BY <2>1, <2>2, <2>3
<1>19. QED
    BY <1>3, <1>4, <1>5, <1>8, <1>9, <1>10, <1>15, <1>16, <1>17, <1>18 DEF Whole

-----------------------------------------------------------------------------
(* Sets of numbers in ascending order.                                     *)

\* e lists the elements of T from the least to the greatest.
Ascending(e, T) ==
  /\ e \in Seq(Nat) /\ T = {e[j] : j \in 1..Len(e)}
  /\ \A i, j \in 1..Len(e) : i < j => e[i] < e[j]

\* Its j-th element is the Nth, which has j elements up to itself.
LEMMA NthOfAscending ==
  ASSUME NEW e, NEW T, Ascending(e, T)
  PROVE  /\ IsFiniteSet(T) /\ Cardinality(T) = Len(e)
         /\ \A j \in 1..Len(e) : Nth(T, j) = e[j]
<1>1. PICK m \in Nat : m = Len(e)
    BY DEF Ascending
<1>2. /\ \A i \in 1..m : e[i] \in Nat
      /\ \A i, j \in 1..m : i < j => e[i] < e[j]
      /\ T = {e[j] : j \in 1..m}
    BY <1>1 DEF Ascending
<1>3. ASSUME NEW k \in 0..m
      PROVE  IsFiniteSet({e[j] : j \in 1..k}) /\ Cardinality({e[j] : j \in 1..k}) = k
  <2> DEFINE f == [j \in 1..k |-> e[j]]
             U == {e[j] : j \in 1..k}
  <2>1. \A i, j \in 1..k : e[i] = e[j] => i = j
        BY <1>2
  <2>2. f \in Bijection(1..k, U)
        BY <2>1 DEF Bijection, Injection, Surjection, IsInjective
  <2>3. IsFiniteSet(1..k) /\ Cardinality(1..k) = k
        BY FS_Interval
  <2>4. QED
    <3> HIDE DEF f, U
    <3>1. ExistsBijection(1..k, U)
          BY <2>2 DEF ExistsBijection
    <3>2. IsFiniteSet(U) /\ Cardinality(U) = Cardinality(1..k)
          BY <2>3, <3>1, FS_Bijection
    <3>3. QED
          BY <2>3, <3>2 DEF U
<1>4. IsFiniteSet(T) /\ Cardinality(T) = m
    BY <1>2, <1>3
<1>5. ASSUME NEW j \in 1..m
      PROVE  Cardinality({y \in T : y <= e[j]}) = j
  <2>1. {y \in T : y <= e[j]} = {e[i] : i \in 1..j}
        BY <1>2
  <2>2. QED
        BY <1>3, <2>1
<1>6. ASSUME NEW j \in 1..m
      PROVE  Nth(T, j) = e[j]
  <2>1. e[j] \in T /\ Cardinality({y \in T : y <= e[j]}) = j
        BY <1>2, <1>5
  <2>2. \A x \in T : Cardinality({y \in T : y <= x}) = j => x = e[j]
    <3> SUFFICES ASSUME NEW x \in T, Cardinality({y \in T : y <= x}) = j PROVE x = e[j]
        OBVIOUS
    <3>1. PICK i \in 1..m : x = e[i]
          BY <1>2
    <3>2. Cardinality({y \in T : y <= x}) = i
          BY <1>5, <3>1
    <3>3. QED
          BY <3>1, <3>2
  <2>3. QED
        BY <2>1, <2>2 DEF Nth
<1>7. QED
    BY <1>1, <1>4, <1>6

-----------------------------------------------------------------------------
(* SplitN.                                                                 *)

\* One turn of a loop that cuts piece by piece, as split() does, and its first n turns.
CutFrom(s, sep, done) ==
  LET end == IF sep = <<>> THEN done.start + 1 ELSE Find(s, sep, done.start) IN
  IF end < Len(s)
  THEN [start |-> end + Len(sep), strs |-> Append(done.strs, SubSeq(s, done.start + 1, end))]
  ELSE done
NothingCut == [start |-> 0, strs |-> <<>>]
CutStep(f, s, sep, n) ==
  f = [k \in 0..n |-> IF k = 0 THEN NothingCut ELSE CutFrom(s, sep, f[k - 1])]
Cuts(s, sep, n) == CHOOSE f : CutStep(f, s, sep, n)

\* The loop has turns one by one.
LEMMA CutsExist ==
  ASSUME NEW s, NEW sep, NEW n \in Nat
  PROVE  CutStep(Cuts(s, sep, n), s, sep, n)
<1> DEFINE T == {m \in Nat : \E f : CutStep(f, s, sep, m)}
<1>1. 0 \in T
  <2>1. CutStep([k \in 0..0 |-> NothingCut], s, sep, 0)
        BY DEF CutStep
  <2>2. QED
        BY <2>1
<1>2. ASSUME NEW m \in Nat, m \in T PROVE m + 1 \in T
  <2>1. PICK f : CutStep(f, s, sep, m)
        BY <1>2
  <2> DEFINE g == [k \in 0..(m + 1) |-> IF k = 0 THEN NothingCut ELSE CutFrom(s, sep, f[k - 1])]
  <2>2. f = [k \in 0..m |-> IF k = 0 THEN NothingCut ELSE CutFrom(s, sep, f[k - 1])]
        BY <2>1 DEF CutStep
  <2>3. \A k \in 0..m : g[k] = f[k]
        BY <2>2
  <2>4. \A k \in 0..(m + 1) : k # 0 => k - 1 \in 0..m
        OBVIOUS
  <2>5. CutStep(g, s, sep, m + 1)
        BY <2>3, <2>4 DEF CutStep
  <2>6. QED
        BY <2>5
<1>3. n \in T
  <2> HIDE DEF T
  <2>1. QED
        BY <1>1, <1>2, NatSetInduction
<1>4. QED
    BY <1>3 DEF Cuts

\* Each turn goes on from the one before.
LEMMA CutsAre ==
  ASSUME NEW s, NEW sep, NEW n \in Nat
  PROVE  /\ Cuts(s, sep, n)[0] = NothingCut
         /\ \A k \in 1..n : Cuts(s, sep, n)[k] = CutFrom(s, sep, Cuts(s, sep, n)[k - 1])
<1> DEFINE f == Cuts(s, sep, n)
<1>1. f = [k \in 0..n |-> IF k = 0 THEN NothingCut ELSE CutFrom(s, sep, f[k - 1])]
    BY CutsExist DEF CutStep
<1> HIDE DEF f
<1>2. f[0] = NothingCut
    BY <1>1
<1>3. ASSUME NEW k \in 1..n PROVE f[k] = CutFrom(s, sep, f[k - 1])
  <2>1. k \in 0..n /\ k # 0
        OBVIOUS
  <2>2. QED
        BY <1>1, <2>1
<1>4. QED
    BY <1>2, <1>3 DEF f

\* What holds before the first turn and of one more turn if it held of one less
\* holds after n; T[k] is what may be so after k turns.
LEMMA CutsKeep ==
  ASSUME NEW s, NEW sep, NEW n \in Nat, NEW T, NothingCut \in T[0],
         \A k \in Nat : \A done \in T[k] : CutFrom(s, sep, done) \in T[k + 1]
  PROVE  Cuts(s, sep, n)[n] \in T[n]
<1> DEFINE f == Cuts(s, sep, n)
           K == {k \in Nat : k \in 0..n => f[k] \in T[k]}
<1>1. f[0] = NothingCut /\ \A k \in 1..n : f[k] = CutFrom(s, sep, f[k - 1])
    BY CutsAre
<1> HIDE DEF f
<1>2. 0 \in K
    BY <1>1
<1>3. ASSUME NEW k \in Nat, k \in K PROVE k + 1 \in K
  <2> SUFFICES ASSUME k + 1 \in 0..n PROVE f[k + 1] \in T[k + 1]
      OBVIOUS
  <2>1. k \in 0..n /\ k + 1 \in 1..n /\ (k + 1) - 1 = k
        OBVIOUS
  <2>2. f[k] \in T[k]
        BY <1>3, <2>1
  <2>3. f[k + 1] = CutFrom(s, sep, f[k])
        BY <1>1, <2>1
  <2>4. QED
        BY <2>2, <2>3
<1>4. n \in K
  <2> HIDE DEF K
  <2>1. QED
        BY <1>2, <1>3, NatSetInduction
<1>5. QED
    BY <1>4 DEF f

\* What Find returns from a start within the text.
LEMMA FindFrom ==
  ASSUME NEW S, NEW s \in Seq(S), NEW V, NEW sep \in Seq(V), NEW start \in 0..Len(s)
  PROVE  LET end == Find(s, sep, start) IN
           /\ end \in 0..Len(s)
           /\ end < Len(s) =>
                 /\ start <= end /\ end + Len(sep) <= Len(s)
                 /\ SubSeq(s, end + 1, end + Len(sep)) = sep
           /\ \A p \in start..(Len(s) - Len(sep)) :
                p < end => SubSeq(s, p + 1, p + Len(sep)) # sep
<1> DEFINE T == {p \in start..(Len(s) - Len(sep)) : SubSeq(s, p + 1, p + Len(sep)) = sep}
<1>1. PICK end : end = Find(s, sep, start)
    OBVIOUS
<1>2. end = IF T = {} THEN Len(s) ELSE Min(T)
    BY <1>1 DEF Find
<1>3. PICK L \in Nat : L = Len(s)
    OBVIOUS
<1>4. PICK n \in Nat : n = Len(sep)
    OBVIOUS
<1>5. T \in SUBSET Nat
    BY <1>3, <1>4
<1>6. CASE T = {}
  <2>1. end = Len(s)
        BY <1>2, <1>6
  <2>2. \A p \in start..(Len(s) - Len(sep)) : SubSeq(s, p + 1, p + Len(sep)) # sep
        BY <1>6
  <2>3. end \in 0..Len(s) /\ ~(end < Len(s))
        BY <2>1
  <2>4. QED
        BY ONLY <1>1, <2>2, <2>3
<1>7. CASE T # {}
  <2>1. end \in T /\ \A p \in T : end <= p
    <3> HIDE DEF T
    <3>1. QED
          BY <1>2, <1>5, <1>7, MinIsLeast
  <2>2. end \in start..(L - n) /\ SubSeq(s, end + 1, end + n) = sep
        BY <1>3, <1>4, <2>1
  <2>3. \A p \in start..(L - n) : p < end => SubSeq(s, p + 1, p + n) # sep
    <3> SUFFICES ASSUME NEW p \in start..(L - n), p < end, SubSeq(s, p + 1, p + n) = sep
                 PROVE  FALSE
        OBVIOUS
    <3>1. p \in T
          BY <1>3, <1>4
    <3>2. end <= p /\ p \in Nat /\ end \in Nat
          BY <1>3, <1>4, <1>5, <2>1, <3>1
    <3>3. QED
          BY <3>2
  <2>4. start \in Nat /\ end \in 0..L /\ start <= end /\ end + n <= L
        BY <1>3, <1>4, <2>2
  <2>5. QED
        BY <1>1, <1>3, <1>4, <2>2, <2>3, <2>4
<1>8. QED
    BY <1>6, <1>7

\* Where the part of s that begins at start ends.
EndFrom(s, sep, start) == IF sep = <<>> THEN start + 1 ELSE Find(s, sep, start)

\* If it ends before s does, there is room for a separator behind it.
LEMMA EndIs ==
  ASSUME NEW S, NEW s \in Seq(S), NEW V, NEW sep \in Seq(V), NEW start \in 0..Len(s)
  PROVE  /\ EndFrom(s, sep, start) \in Nat
         /\ EndFrom(s, sep, start) < Len(s) =>
              start <= EndFrom(s, sep, start) /\ EndFrom(s, sep, start) + Len(sep) \in 0..Len(s)
<1>1. PICK L \in Nat : L = Len(s)
    OBVIOUS
<1>2. PICK n \in Nat : n = Len(sep)
    OBVIOUS
<1>3. PICK end : end = EndFrom(s, sep, start)
    OBVIOUS
<1>4. CASE sep = <<>>
  <2>1. n = 0
        BY <1>2, <1>4, EmptySeq
  <2>2. end = start + 1
        BY <1>3, <1>4 DEF EndFrom
  <2>3. QED
        BY <1>1, <1>2, <1>3, <2>1, <2>2
<1>5. CASE sep # <<>>
  <2>1. end = Find(s, sep, start)
        BY <1>3, <1>5 DEF EndFrom
  <2>2. end \in 0..L /\ (end < L => start <= end /\ end + n <= L)
        BY <1>1, <1>2, <2>1, FindFrom
  <2>3. QED
        BY <1>1, <1>2, <1>3, <2>2
<1>6. QED
    BY <1>4, <1>5

\* One turn keeps the types and stays within the text.
DoneType(S, s) == [start : 0..Len(s), strs : Seq(Seq(S))]

LEMMA CutTyped ==
  ASSUME NEW S, NEW s \in Seq(S), NEW V, NEW sep \in Seq(V), NEW done \in DoneType(S, s)
  PROVE  CutFrom(s, sep, done) \in DoneType(S, s)
<1>1. PICK L \in Nat : L = Len(s)
    OBVIOUS
<1>2. PICK n \in Nat : n = Len(sep)
    OBVIOUS
<1>3. PICK start \in 0..L : start = done.start
    BY <1>1 DEF DoneType
<1>4. done.strs \in Seq(Seq(S))
    BY DEF DoneType
<1>5. PICK end : end = IF sep = <<>> THEN start + 1 ELSE Find(s, sep, start)
    OBVIOUS
<1>6. end \in Nat /\ (end < L => start <= end /\ end + n \in 0..L)
  <2>1. start \in 0..Len(s) /\ end = EndFrom(s, sep, start)
        BY <1>1, <1>5 DEF EndFrom
  <2>2. /\ EndFrom(s, sep, start) \in Nat
        /\ EndFrom(s, sep, start) < Len(s) =>
             start <= EndFrom(s, sep, start) /\ EndFrom(s, sep, start) + Len(sep) \in 0..Len(s)
        BY <2>1, EndIs
  <2>3. QED
        BY <1>1, <1>2, <2>1, <2>2
<1>7. CASE end < L
  <2>1. Within(s, start, end)
        BY <1>1, <1>6, <1>7 DEF Within
  <2>2. SubSeq(s, start + 1, end) \in Seq(S)
        BY <2>1, SliceIs DEF Slice
  <2>3. Append(done.strs, SubSeq(s, start + 1, end)) \in Seq(Seq(S))
        BY <1>4, <2>2
  <2>4. CutFrom(s, sep, done) =
          [start |-> end + n, strs |-> Append(done.strs, SubSeq(s, start + 1, end))]
        BY <1>1, <1>2, <1>3, <1>5, <1>7 DEF CutFrom
  <2>5. end + n \in 0..Len(s)
        BY <1>1, <1>6, <1>7
  <2>6. QED
        BY <2>3, <2>4, <2>5 DEF DoneType
<1>8. CASE ~(end < L)
  <2>1. CutFrom(s, sep, done) = done
        BY <1>1, <1>3, <1>5, <1>8 DEF CutFrom
  <2>2. QED
        BY <2>1
<1>9. QED
    BY <1>7, <1>8

\* What SplitN makes of the text from a place on, with so many cuts left.
Spot(start, cuts) == [start |-> start, cuts |-> cuts]
Spots(s, n) == [start : 0..Len(s), cuts : 0..n]
Turn(f, s, sep, spot) ==
  LET end == IF sep = <<>> THEN spot.start + 1 ELSE Find(s, sep, spot.start) IN
  IF end < Len(s) /\ spot.cuts > 0
  THEN <<SubSeq(s, spot.start + 1, end)>> \o f[Spot(end + Len(sep), spot.cuts - 1)]
  ELSE <<SubSeq(s, spot.start + 1, Len(s))>>
RestStep(f, s, sep, n) == f = [spot \in Spots(s, n) |-> Turn(f, s, sep, spot)]
Rest(s, sep, n) == CHOOSE f : RestStep(f, s, sep, n)
Agree(f, g, s, m) == \A spot \in Spots(s, m) : g[spot] = f[spot]

\* SplitN begins at the beginning.
LEMMA SplitNIs ==
  ASSUME NEW s, NEW sep, NEW n
  PROVE  SplitN(s, sep, n) = Rest(s, sep, n)[Spot(0, n)]
BY DEF SplitN, Rest, RestStep, Turn, Spot, Spots

\* A turn asks about a place with a cut less, if at all.
LEMMA TurnAsks ==
  ASSUME NEW S, NEW s \in Seq(S), NEW V, NEW sep \in Seq(V), NEW n \in Nat, NEW m \in Nat, n = m + 1,
         NEW f, NEW g, Agree(f, g, s, m), NEW spot \in Spots(s, n)
  PROVE  Turn(g, s, sep, spot) = Turn(f, s, sep, spot)
<1>1. PICK start \in 0..Len(s) : start = spot.start
    BY DEF Spots
<1>2. PICK cuts \in 0..n : cuts = spot.cuts
    BY DEF Spots
<1>3. PICK end : end = EndFrom(s, sep, start)
    OBVIOUS
<1>4. CASE end < Len(s) /\ cuts > 0
  <2>1. end + Len(sep) \in 0..Len(s) /\ cuts - 1 \in 0..m
        BY <1>3, <1>4, EndIs
  <2>2. Spot(end + Len(sep), cuts - 1) \in Spots(s, m)
        BY <2>1 DEF Spot, Spots
  <2>3. g[Spot(end + Len(sep), cuts - 1)] = f[Spot(end + Len(sep), cuts - 1)]
        BY <2>2 DEF Agree
  <2>4. f[Spot(end + Len(sep), spot.cuts - 1)] = g[Spot(end + Len(sep), spot.cuts - 1)]
        BY <1>2, <2>3
  <2>5. end = IF sep = <<>> THEN spot.start + 1 ELSE Find(s, sep, spot.start)
        BY <1>1, <1>3 DEF EndFrom
  <2>6. QED
        BY <2>4, <2>5 DEF Turn
<1>5. CASE ~(end < Len(s) /\ cuts > 0)
    BY <1>1, <1>2, <1>3, <1>5 DEF Turn, EndFrom
<1>6. QED
    BY <1>4, <1>5

\* So there is such a function.
LEMMA RestExists ==
  ASSUME NEW S, NEW s \in Seq(S), NEW V, NEW sep \in Seq(V), NEW n \in Nat
  PROVE  RestStep(Rest(s, sep, n), s, sep, n)
<1> DEFINE T == {m \in Nat : \E f : RestStep(f, s, sep, m)}
<1>1. 0 \in T
  <2> DEFINE f == [spot \in Spots(s, 0) |-> <<SubSeq(s, spot.start + 1, Len(s))>>]
  <2>1. \A spot \in Spots(s, 0) : spot.cuts = 0
        BY DEF Spots
  <2>2. \A spot \in Spots(s, 0) : Turn(f, s, sep, spot) = <<SubSeq(s, spot.start + 1, Len(s))>>
        BY <2>1 DEF Turn
  <2>3. RestStep(f, s, sep, 0)
        BY <2>2 DEF RestStep
  <2>4. QED
        BY <2>3
<1>2. ASSUME NEW m \in Nat, m \in T PROVE m + 1 \in T
  <2>1. PICK f : RestStep(f, s, sep, m)
        BY <1>2
  <2>2. PICK l \in Nat : l = m + 1
        OBVIOUS
  <2>3. PICK g : g = [spot \in Spots(s, l) |-> Turn(f, s, sep, spot)]
        OBVIOUS
  <2>4. Agree(f, g, s, m)
    <3>1. \A spot \in Spots(s, m) : spot \in Spots(s, l)
          BY <2>2 DEF Spots
    <3>2. \A spot \in Spots(s, m) : f[spot] = Turn(f, s, sep, spot)
          BY <2>1 DEF RestStep
    <3>3. QED
          BY <2>3, <3>1, <3>2 DEF Agree
  <2>5. ASSUME NEW spot \in Spots(s, l)
        PROVE  Turn(g, s, sep, spot) = Turn(f, s, sep, spot)
        BY <2>2, <2>4, TurnAsks
  <2>6. RestStep(g, s, sep, l)
        BY <2>3, <2>5 DEF RestStep
  <2>7. QED
        BY <2>2, <2>6
<1>3. n \in T
  <2> HIDE DEF T
  <2>1. QED
        BY <1>1, <1>2, NatSetInduction
<1>4. QED
    BY <1>3 DEF Rest

\* What it is at each place.
LEMMA RestIs ==
  ASSUME NEW S, NEW s \in Seq(S), NEW V, NEW sep \in Seq(V), NEW n \in Nat,
         NEW start \in 0..Len(s), NEW cuts \in 0..n, NEW end, end = EndFrom(s, sep, start)
  PROVE  Rest(s, sep, n)[Spot(start, cuts)] =
           IF end < Len(s) /\ cuts > 0
           THEN <<SubSeq(s, start + 1, end)>> \o Rest(s, sep, n)[Spot(end + Len(sep), cuts - 1)]
           ELSE <<SubSeq(s, start + 1, Len(s))>>
<1>1. PICK f : f = Rest(s, sep, n)
    OBVIOUS
<1>2. RestStep(f, s, sep, n)
    BY <1>1, RestExists
<1>3. PICK spot \in Spots(s, n) : spot = Spot(start, cuts)
    BY DEF Spot, Spots
<1>4. spot.start = start /\ spot.cuts = cuts
    BY <1>3 DEF Spot
<1>5. f[spot] = Turn(f, s, sep, spot)
    BY <1>2 DEF RestStep
<1>6. QED
    BY <1>1, <1>3, <1>4, <1>5 DEF Turn, EndFrom

\* It is a sequence of texts.
LEMMA RestTyped ==
  ASSUME NEW S, NEW s \in Seq(S), NEW V, NEW sep \in Seq(V), NEW n \in Nat, NEW cuts \in 0..n
  PROVE  \A start \in 0..Len(s) : Rest(s, sep, n)[Spot(start, cuts)] \in Seq(Seq(S))
<1> DEFINE T == {k \in Nat : k <= n =>
                   \A start \in 0..Len(s) : Rest(s, sep, n)[Spot(start, k)] \in Seq(Seq(S))}
<1>1. ASSUME NEW start \in 0..Len(s)
      PROVE  <<SubSeq(s, start + 1, Len(s))>> \in Seq(Seq(S))
  <2>1. Within(s, start, Len(s))
        BY DEF Within
  <2>2. SubSeq(s, start + 1, Len(s)) \in Seq(S)
        BY <2>1, SliceIs DEF Slice
  <2>3. QED
        BY <2>2
<1>2. 0 \in T
  <2> SUFFICES ASSUME NEW start \in 0..Len(s)
               PROVE  Rest(s, sep, n)[Spot(start, 0)] \in Seq(Seq(S))
      OBVIOUS
  <2>1. PICK k \in 0..n : k = 0
        OBVIOUS
  <2>2. PICK end : end = EndFrom(s, sep, start)
        OBVIOUS
  <2>3. Rest(s, sep, n)[Spot(start, k)] =
          IF end < Len(s) /\ k > 0
          THEN <<SubSeq(s, start + 1, end)>> \o Rest(s, sep, n)[Spot(end + Len(sep), k - 1)]
          ELSE <<SubSeq(s, start + 1, Len(s))>>
        BY <2>2, RestIs
  <2>4. Rest(s, sep, n)[Spot(start, k)] = <<SubSeq(s, start + 1, Len(s))>>
        BY <2>1, <2>3
  <2>5. QED
        BY <1>1, <2>1, <2>4
<1>3. ASSUME NEW k \in Nat, k \in T PROVE k + 1 \in T
  <2> SUFFICES ASSUME k + 1 <= n, NEW start \in 0..Len(s)
               PROVE  Rest(s, sep, n)[Spot(start, k + 1)] \in Seq(Seq(S))
      OBVIOUS
  <2>1. PICK l \in 0..n : l = k + 1 /\ l - 1 = k /\ l > 0
        OBVIOUS
  <2>2. PICK end : end = EndFrom(s, sep, start)
        OBVIOUS
  <2>3. Rest(s, sep, n)[Spot(start, l)] =
          IF end < Len(s) /\ l > 0
          THEN <<SubSeq(s, start + 1, end)>> \o Rest(s, sep, n)[Spot(end + Len(sep), l - 1)]
          ELSE <<SubSeq(s, start + 1, Len(s))>>
        BY <2>2, RestIs
  <2>4. CASE end < Len(s)
    <3>1. end \in Nat /\ start <= end /\ end + Len(sep) \in 0..Len(s)
          BY <2>2, <2>4, EndIs
    <3>2. Within(s, start, end)
          BY <2>4, <3>1 DEF Within
    <3>3. SubSeq(s, start + 1, end) \in Seq(S)
          BY <3>2, SliceIs DEF Slice
    <3>4. PICK first \in Seq(Seq(S)) : first = <<SubSeq(s, start + 1, end)>>
      <4>1. PICK piece \in Seq(S) : piece = SubSeq(s, start + 1, end)
            BY <3>3
      <4>2. <<piece>> \in Seq(Seq(S))
            OBVIOUS
      <4>3. QED
            BY <4>1, <4>2
    <3>5. PICK others \in Seq(Seq(S)) : others = Rest(s, sep, n)[Spot(end + Len(sep), k)]
          BY <1>3, <3>1
    <3>6. first \o others \in Seq(Seq(S))
          BY ConcatProperties
    <3>7. QED
          BY <2>1, <2>3, <2>4, <3>4, <3>5, <3>6
  <2>5. CASE ~(end < Len(s))
        BY <1>1, <2>1, <2>3, <2>5
  <2>6. QED
        BY <2>4, <2>5
<1>4. cuts \in T
  <2>1. cuts \in Nat
        OBVIOUS
  <2> HIDE DEF T
  <2>2. QED
        BY <1>2, <1>3, <2>1, NatSetInduction
<1>5. QED
    BY <1>4

\* A piece can be appended to what is in front of it or put before what follows it.
LEMMA CutsRegroup ==
  ASSUME NEW W, NEW strs \in Seq(W), NEW piece \in W, NEW others \in Seq(W)
  PROVE  Append(strs, piece) \o others = strs \o (<<piece>> \o others)
<1>1. PICK first \in Seq(W) : first = <<piece>>
  <2>1. <<piece>> \in Seq(W)
        OBVIOUS
  <2>2. QED
        BY <2>1
<1>2. (strs \o first) \o others = strs \o (first \o others)
    BY ConcatAssociative
<1>3. Append(strs, piece) = strs \o first
    BY <1>1, AppendIsConcat
<1>4. QED
    BY <1>1, <1>2, <1>3

\* What the loop has cut, followed by what SplitN makes of the rest, is always what
\* SplitN returns.
Restores(d, r, n, k) == d.strs \o r[Spot(d.start, n - k)] = r[Spot(0, n)]

LEMMA SplitNLoops ==
  ASSUME NEW S, NEW s \in Seq(S), NEW V, NEW sep \in Seq(V), NEW n \in Nat
  PROVE  SplitN(s, sep, n) = Append(Cuts(s, sep, n)[n].strs,
                                    SubSeq(s, Cuts(s, sep, n)[n].start + 1, Len(s)))
<1>1. PICK r : r = Rest(s, sep, n)
    OBVIOUS
<1> DEFINE T == [k \in Nat |-> {d \in DoneType(S, s) : k <= n => Restores(d, r, n, k)}]
<1>2. NothingCut \in T[0]
  <2>1. NothingCut \in DoneType(S, s)
        BY DEF NothingCut, DoneType
  <2>2. PICK whole \in Seq(Seq(S)) : whole = r[Spot(0, n)]
    <3>1. n \in 0..n /\ 0 \in 0..Len(s)
          OBVIOUS
    <3>2. r[Spot(0, n)] \in Seq(Seq(S))
          BY <1>1, <3>1, RestTyped
    <3>3. QED
          BY <3>2
  <2>3. <<>> \o whole = whole
        BY ConcatEmptySeq
  <2>4. NothingCut.strs = <<>> /\ NothingCut.start = 0 /\ n - 0 = n
        BY DEF NothingCut
  <2>5. QED
        BY <2>1, <2>2, <2>3, <2>4 DEF Restores
<1>3. ASSUME NEW k \in Nat, NEW d \in T[k]
      PROVE  CutFrom(s, sep, d) \in T[k + 1]
  <2>1. d \in DoneType(S, s) /\ (k <= n => Restores(d, r, n, k))
        OBVIOUS
  <2>2. CutFrom(s, sep, d) \in DoneType(S, s)
        BY <2>1, CutTyped
  <2> SUFFICES ASSUME k + 1 <= n
               PROVE  Restores(CutFrom(s, sep, d), r, n, k + 1)
      BY <2>2
  <2>3. PICK cuts \in 0..n : cuts = n - k /\ cuts > 0 /\ cuts - 1 = n - (k + 1)
        OBVIOUS
  <2>4. PICK left \in 0..n : left = cuts - 1
        BY <2>3
  <2>5. PICK start \in 0..Len(s) : start = d.start
        BY <2>1 DEF DoneType
  <2>6. PICK strs \in Seq(Seq(S)) : strs = d.strs
        BY <2>1 DEF DoneType
  <2>7. PICK end : end = EndFrom(s, sep, start)
        OBVIOUS
  <2>8. strs \o r[Spot(start, cuts)] = r[Spot(0, n)]
    <3>1. Restores(d, r, n, k)
          BY <2>1
    <3>2. QED
          BY <2>3, <2>5, <2>6, <3>1 DEF Restores
  <2>9. r[Spot(start, cuts)] =
          IF end < Len(s) /\ cuts > 0
          THEN <<SubSeq(s, start + 1, end)>> \o r[Spot(end + Len(sep), cuts - 1)]
          ELSE <<SubSeq(s, start + 1, Len(s))>>
        BY <1>1, <2>7, RestIs
  <2>10. CASE end < Len(s)
    <3>1. end \in Nat /\ start <= end /\ end + Len(sep) \in 0..Len(s)
          BY <2>7, <2>10, EndIs
    <3>2. Within(s, start, end)
          BY <2>10, <3>1 DEF Within
    <3>3. PICK piece \in Seq(S) : piece = SubSeq(s, start + 1, end)
          BY <3>2, SliceIs DEF Slice
    <3>4. PICK next \in 0..Len(s) : next = end + Len(sep)
          BY <3>1
    <3>5. PICK others \in Seq(Seq(S)) : others = r[Spot(next, left)]
          BY <1>1, RestTyped
    <3>6. PICK first \in Seq(Seq(S)) : first = <<piece>>
      <4>1. <<piece>> \in Seq(Seq(S))
            OBVIOUS
      <4>2. QED
            BY <4>1
    <3>7. strs \o (first \o others) = r[Spot(0, n)]
      <4>1. r[Spot(start, cuts)] = <<SubSeq(s, start + 1, end)>> \o r[Spot(end + Len(sep), cuts - 1)]
            BY <2>3, <2>9, <2>10
      <4>2. Spot(end + Len(sep), cuts - 1) = Spot(next, left)
            BY <2>4, <3>4
      <4>3. r[Spot(start, cuts)] = first \o others
            BY <3>3, <3>5, <3>6, <4>1, <4>2
      <4>4. QED
            BY <2>8, <4>3
    <3>8. Append(strs, piece) \o others = r[Spot(0, n)]
      <4>1. Append(strs, piece) \o others = strs \o (<<piece>> \o others)
            BY CutsRegroup, SMTT(60)
      <4>2. QED
            BY <3>6, <3>7, <4>1
    <3>9. CutFrom(s, sep, d) = [start |-> next, strs |-> Append(strs, piece)]
          BY <2>5, <2>6, <2>7, <2>10, <3>3, <3>4 DEF CutFrom, EndFrom
    <3>10. CutFrom(s, sep, d).start = next /\ CutFrom(s, sep, d).strs = Append(strs, piece)
          BY <3>9
    <3>11. QED
          BY <2>3, <2>4, <3>5, <3>8, <3>10 DEF Restores
  <2>11. CASE ~(end < Len(s))
    <3>1. CutFrom(s, sep, d) = d
          BY <2>5, <2>7, <2>11 DEF CutFrom, EndFrom
    <3>2. r[Spot(start, left)] =
            IF end < Len(s) /\ left > 0
            THEN <<SubSeq(s, start + 1, end)>> \o r[Spot(end + Len(sep), left - 1)]
            ELSE <<SubSeq(s, start + 1, Len(s))>>
          BY <1>1, <2>7, RestIs
    <3>3. r[Spot(start, left)] = r[Spot(start, cuts)]
          BY <2>9, <2>11, <3>2
    <3>4. QED
          BY <2>3, <2>4, <2>5, <2>6, <2>8, <3>1, <3>3 DEF Restores
  <2>12. QED
        BY <2>10, <2>11
<1>4. PICK d : d = Cuts(s, sep, n)[n]
    OBVIOUS
<1>5. d \in T[n]
  <2>1. \A k \in Nat : \A e \in T[k] : CutFrom(s, sep, e) \in T[k + 1]
        BY <1>3
  <2> HIDE DEF T
  <2>2. QED
        BY <1>2, <1>4, <2>1, CutsKeep
<1>6. d \in DoneType(S, s) /\ Restores(d, r, n, n)
    BY <1>5
<1>7. PICK start \in 0..Len(s) : start = d.start
    BY <1>6 DEF DoneType
<1>8. PICK strs \in Seq(Seq(S)) : strs = d.strs
    BY <1>6 DEF DoneType
<1>9. PICK none \in 0..n : none = 0 /\ none = n - n
    OBVIOUS
<1>10. r[Spot(start, none)] = <<SubSeq(s, start + 1, Len(s))>>
  <2>1. PICK end : end = EndFrom(s, sep, start)
        OBVIOUS
  <2>2. r[Spot(start, none)] =
          IF end < Len(s) /\ none > 0
          THEN <<SubSeq(s, start + 1, end)>> \o r[Spot(end + Len(sep), none - 1)]
          ELSE <<SubSeq(s, start + 1, Len(s))>>
        BY <1>1, <2>1, RestIs
  <2>3. QED
        BY <1>9, <2>2
<1>11. PICK last \in Seq(S) : last = SubSeq(s, start + 1, Len(s))
  <2>1. Within(s, start, Len(s))
        BY DEF Within
  <2>2. QED
        BY <2>1, SliceIs DEF Slice
<1>12. Append(strs, last) = strs \o <<last>>
    BY AppendIsConcat
<1>13. r[Spot(0, n)] = Append(strs, last)
  <2>1. strs \o r[Spot(start, none)] = r[Spot(0, n)]
        BY <1>6, <1>7, <1>8, <1>9 DEF Restores
  <2>2. QED
        BY <1>10, <1>11, <1>12, <2>1
<1>14. QED
    BY <1>1, <1>4, <1>7, <1>8, <1>11, <1>13, SplitNIs

\* So what SplitN returns is a sequence of texts, at least one.
LEMMA SplitNTyped ==
  ASSUME NEW S, NEW s \in Seq(S), NEW V, NEW sep \in Seq(V), NEW n \in Nat
  PROVE  SplitN(s, sep, n) \in Seq(Seq(S)) /\ Len(SplitN(s, sep, n)) # 0
<1> DEFINE T == [k \in Nat |-> DoneType(S, s)]
           done == Cuts(s, sep, n)[n]
<1>1. NothingCut \in DoneType(S, s)
    BY DEF NothingCut, DoneType
<1>2. done \in T[n]
  <2>1. \A k \in Nat : T[k] = DoneType(S, s)
        OBVIOUS
  <2>2. NothingCut \in T[0]
        BY <1>1, <2>1
  <2>3. \A k \in Nat : \A d \in T[k] : CutFrom(s, sep, d) \in T[k + 1]
        BY <2>1, CutTyped
  <2> HIDE DEF T
  <2>4. QED
        BY <2>2, <2>3, CutsKeep
<1> HIDE DEF done
<1>3. done.start \in 0..Len(s) /\ done.strs \in Seq(Seq(S))
    BY <1>2 DEF DoneType
<1>4. Within(s, done.start, Len(s))
    BY <1>3 DEF Within
<1>5. SubSeq(s, done.start + 1, Len(s)) \in Seq(S)
    BY <1>4, SliceIs DEF Slice
<1>6. SplitN(s, sep, n) = Append(done.strs, SubSeq(s, done.start + 1, Len(s)))
    BY SplitNLoops DEF done
<1>7. QED
    BY <1>3, <1>5, <1>6

\* A greater number goes to the end.
LEMMA AscendingAppend ==
  ASSUME NEW e, NEW T, Ascending(e, T), NEW x \in Nat, \A t \in T : t < x
  PROVE  Ascending(Append(e, x), T \cup {x})
<1>1. PICK m \in Nat : m = Len(e)
    BY DEF Ascending
<1>2. /\ e \in Seq(Nat) /\ T = {e[j] : j \in 1..m}
      /\ \A i, j \in 1..m : i < j => e[i] < e[j]
    BY <1>1 DEF Ascending
<1>3. PICK f : f = Append(e, x)
    OBVIOUS
<1>4. f \in Seq(Nat) /\ Len(f) = m + 1 /\ f[m + 1] = x /\ \A j \in 1..m : f[j] = e[j]
    BY <1>1, <1>2, <1>3
<1>5. \A j \in 1..m : e[j] < x
    BY <1>2
<1>6. 1..(m + 1) = 1..m \cup {m + 1}
    OBVIOUS
<1>7. T \cup {x} = {f[j] : j \in 1..(m + 1)}
    BY <1>2, <1>4, <1>6
<1>8. ASSUME NEW i \in 1..(m + 1), NEW j \in 1..(m + 1), i < j PROVE f[i] < f[j]
  <2>1. i \in 1..m
        BY <1>8
  <2>2. CASE j = m + 1
        BY <1>4, <1>5, <2>1, <2>2
  <2>3. CASE j \in 1..m
        BY <1>2, <1>4, <1>8, <2>1, <2>3
  <2>4. QED
        BY <2>2, <2>3
<1>9. QED
    BY <1>3, <1>4, <1>7, <1>8 DEF Ascending

-----------------------------------------------------------------------------
(* What Split cuts a text into.                                            *)

\* Occurrences of sep in s do not overlap.
Separates(s, sep) ==
  /\ sep # <<>>
  /\ \A p, q : Occurs(s, sep, p) /\ Occurs(s, sep, q) /\ p < q => p + Len(sep) <= q

\* What Find returns, in terms of occurrences.
LEMMA FindNext ==
  ASSUME NEW S, NEW s \in Seq(S), NEW V, NEW sep \in Seq(V), sep # <<>>, NEW start \in 0..Len(s),
         NEW end, end = Find(s, sep, start)
  PROVE  \/ /\ end = Len(s)
            /\ \A p : Occurs(s, sep, p) => p < start
         \/ /\ end \in 0..Len(s) /\ end < Len(s) /\ start <= end /\ Occurs(s, sep, end)
            /\ \A p : Occurs(s, sep, p) /\ p < end => p < start
<1>1. PICK L \in Nat : L = Len(s)
    OBVIOUS
<1>2. PICK n \in Nat : n = Len(sep) /\ n # 0
    BY EmptySeq
<1>3. /\ end \in 0..L
      /\ end < L => /\ start <= end /\ end + n <= L
                    /\ SubSeq(s, end + 1, end + n) = sep
      /\ \A p \in start..(L - n) : p < end => SubSeq(s, p + 1, p + n) # sep
  <2>1. PICK e : e = Find(s, sep, start)
        OBVIOUS
  <2>2. /\ e \in 0..Len(s)
        /\ e < Len(s) => /\ start <= e /\ e + Len(sep) <= Len(s)
                           /\ SubSeq(s, e + 1, e + Len(sep)) = sep
        /\ \A p \in start..(Len(s) - Len(sep)) :
             p < e => SubSeq(s, p + 1, p + Len(sep)) # sep
    <3>1. LET first == Find(s, sep, start) IN
            /\ first \in 0..Len(s)
            /\ first < Len(s) =>
                  /\ start <= first /\ first + Len(sep) <= Len(s)
                  /\ SubSeq(s, first + 1, first + Len(sep)) = sep
            /\ \A p \in start..(Len(s) - Len(sep)) :
                 p < first => SubSeq(s, p + 1, p + Len(sep)) # sep
          BY FindFrom
    <3>2. QED
          BY ONLY <2>1, <3>1
  <2>3. QED
        BY <1>1, <1>2, <2>1, <2>2
<1>4. \A p : Occurs(s, sep, p) => p \in 0..(L - n) /\ SubSeq(s, p + 1, p + n) = sep
    BY <1>1, <1>2 DEF Occurs
<1>5. ASSUME NEW p, Occurs(s, sep, p), p < end PROVE p < start
  <2>1. p \in 0..(L - n) /\ SubSeq(s, p + 1, p + n) = sep
        BY <1>4, <1>5
  <2>2. p \notin start..(L - n)
        BY <1>3, <1>5, <2>1
  <2>3. QED
        BY <1>1, <2>1, <2>2
<1>6. CASE end < L
  <2>1. Occurs(s, sep, end)
    <3>1. end \in 0..(L - n)
          BY <1>1, <1>2, <1>3, <1>6
    <3>2. SubSeq(s, end + 1, end + n) = sep
          BY <1>3, <1>6
    <3>3. QED
          BY <1>1, <1>2, <3>1, <3>2 DEF Occurs
  <2>2. QED
        BY <1>1, <1>3, <1>5, <1>6, <2>1
<1>7. CASE ~(end < L)
  <2>1. end = L
        BY <1>3, <1>7
  <2>2. \A p : Occurs(s, sep, p) => p < end
        BY <1>2, <1>4, <2>1
  <2>3. QED
        BY <1>1, <1>5, <2>1, <2>2
<1>8. QED
    BY <1>6, <1>7

\* Where the pieces of s between occurrences begin, up to n.
Begins(s, sep, n) == {0} \cup {p + Len(sep) : p \in {q \in 0..n : Occurs(s, sep, q) /\ q + Len(sep) <= n}}

\* No occurrence reaches across the beginning of a piece.
LEMMA NoneAcross ==
  ASSUME NEW s, NEW sep, NEW L \in Nat, L = Len(s), NEW n \in Nat, n = Len(sep), Separates(s, sep), NEW m \in Nat,
         NEW start \in Begins(s, sep, m), NEW p, Occurs(s, sep, p), p < start
  PROVE  p \in 0..start /\ p + n <= start
<1>1. p \in 0..(L - n)
    BY DEF Occurs
<1>2. PICK q \in 0..m : Occurs(s, sep, q) /\ start = q + n
    BY <1>1 DEF Begins
<1>3. q < p => q + n <= p
    BY <1>2 DEF Separates
<1>4. p < q => p + n <= q
    BY <1>2 DEF Separates
<1>5. QED
    BY <1>1, <1>2, <1>3, <1>4

\* The piece that begins at start.
PieceAt(s, sep, start) == SubSeq(s, start + 1, Find(s, sep, start))

\* done has cut s at its first occurrences of sep.
CutUpTo(s, sep, e, done) ==
  /\ Ascending(e, Begins(s, sep, done.start))
  /\ Len(e) = Len(done.strs) + 1 /\ e[Len(e)] = done.start
  /\ \A j \in 1..Len(done.strs) : done.strs[j] = PieceAt(s, sep, e[j])
CutAhead(s, sep, done) == \E e : CutUpTo(s, sep, e, done)

\* No occurrence begins at start or later but before end.
NoneBetween(s, sep, start, end) == \A p : Occurs(s, sep, p) /\ p < end => p < start

\* Beginnings are added one at a time.
LEMMA BeginsNext ==
  ASSUME NEW s, NEW sep, NEW L \in Nat, L = Len(s), NEW n \in Nat, n = Len(sep), n # 0, Separates(s, sep),
         NEW start \in Nat, start \in Begins(s, sep, start),
         NEW end \in Nat, Occurs(s, sep, end), start <= end, NoneBetween(s, sep, start, end)
  PROVE  /\ Begins(s, sep, end + n) = Begins(s, sep, start) \cup {end + n}
         /\ \A t \in Begins(s, sep, start) : t < end + n
<1>1. \A p : Occurs(s, sep, p) => p \in 0..(L - n)
    BY DEF Occurs
<1>2. \A t \in Begins(s, sep, start) : t <= start /\ t \in Nat
    BY DEF Begins
<1>3. ASSUME NEW p, Occurs(s, sep, p), p + n <= end + n
      PROVE  p = end \/ (p \in 0..start /\ p + n <= start)
  <2>1. p \in Nat
        BY <1>1, <1>3
  <2>2. CASE p < end
    <3>1. p < start
          BY <1>3, <2>2 DEF NoneBetween
    <3>2. p \in 0..start /\ p + n <= start
          BY <1>3, <3>1, NoneAcross
    <3>3. QED
          BY <3>2
  <2>3. QED
        BY <1>3, <2>1, <2>2
<1>4. ASSUME NEW t \in Begins(s, sep, end + n)
      PROVE  t \in Begins(s, sep, start) \cup {end + n}
  <2>1. CASE t = 0
        BY <2>1 DEF Begins
  <2>2. CASE t # 0
    <3>1. PICK p \in 0..(end + n) : Occurs(s, sep, p) /\ p + n <= end + n /\ t = p + n
          BY <2>2 DEF Begins
    <3>2. p = end \/ (p \in 0..start /\ p + n <= start)
          BY <1>3, <3>1
    <3>3. QED
          BY <3>1, <3>2 DEF Begins
  <2>3. QED
        BY <2>1, <2>2
<1>5. ASSUME NEW t \in Begins(s, sep, start) \cup {end + n}
      PROVE  t \in Begins(s, sep, end + n)
  <2>1. CASE t = end + n
    <3>1. end \in 0..(end + n) /\ end + n <= end + n
          OBVIOUS
    <3>2. QED
          BY <2>1, <3>1 DEF Begins
  <2>2. CASE t = 0
        BY <2>2 DEF Begins
  <2>3. CASE t # 0 /\ t # end + n
    <3>1. PICK p \in 0..start : Occurs(s, sep, p) /\ p + n <= start /\ t = p + n
          BY <2>3 DEF Begins
    <3>2. p \in 0..(end + n) /\ p + n <= end + n
          BY <3>1
    <3>3. QED
          BY <3>1, <3>2 DEF Begins
  <2>4. QED
        BY <2>1, <2>2, <2>3
<1>6. QED
    BY <1>2, <1>4, <1>5

\* When nothing is left to cut, there are no others.
LEMMA BeginsAll ==
  ASSUME NEW s, NEW sep, NEW L \in Nat, L = Len(s), NEW n \in Nat, n = Len(sep), n # 0, Separates(s, sep),
         NEW start \in 0..L, start \in Begins(s, sep, start),
         \A p : Occurs(s, sep, p) => p < start
  PROVE  Begins(s, sep, L) = Begins(s, sep, start)
<1>1. \A p : Occurs(s, sep, p) => p \in 0..(L - n)
    BY DEF Occurs
<1>2. ASSUME NEW t \in Begins(s, sep, L) PROVE t \in Begins(s, sep, start)
  <2>1. CASE t = 0
        BY <2>1 DEF Begins
  <2>2. CASE t # 0
    <3>1. PICK p \in 0..L : Occurs(s, sep, p) /\ t = p + n
          BY <2>2 DEF Begins
    <3>2. p < start
          BY <3>1
    <3>3. p \in 0..start /\ p + n <= start
          BY <3>1, <3>2, NoneAcross
    <3>4. QED
          BY <3>1, <3>3 DEF Begins
  <2>3. QED
        BY <2>1, <2>2
<1>3. ASSUME NEW t \in Begins(s, sep, start) PROVE t \in Begins(s, sep, L)
    BY DEF Begins
<1>4. QED
    BY <1>2, <1>3

\* One turn goes on to the next occurrence.
LEMMA CutGoesAhead ==
  ASSUME NEW S, NEW s \in Seq(S), NEW V, NEW sep \in Seq(V), Separates(s, sep),
         NEW done \in DoneType(S, s), CutAhead(s, sep, done)
  PROVE  /\ CutAhead(s, sep, CutFrom(s, sep, done))
         /\ \/ CutFrom(s, sep, done).start > done.start
            \/ /\ CutFrom(s, sep, done) = done
               /\ \A p : Occurs(s, sep, p) => p < done.start
<1>1. PICK L \in Nat : L = Len(s)
    OBVIOUS
<1>2. PICK start \in 0..L : start = done.start
    BY <1>1 DEF DoneType
<1>3. sep # <<>>
    BY DEF Separates
<1>4. PICK n \in Nat : n = Len(sep) /\ n # 0
    BY <1>3, EmptySeq
<1>5. PICK end : end = Find(s, sep, start)
    OBVIOUS
<1>6. \/ /\ end = Len(s)
         /\ \A p : Occurs(s, sep, p) => p < start
      \/ /\ end \in 0..Len(s) /\ end < Len(s) /\ start <= end /\ Occurs(s, sep, end)
         /\ \A p : Occurs(s, sep, p) /\ p < end => p < start
    BY <1>1, <1>3, <1>5, FindNext
<1>7. CutFrom(s, sep, done) =
        IF end < L THEN [start |-> end + n, strs |-> Append(done.strs, SubSeq(s, start + 1, end))]
        ELSE done
    BY <1>1, <1>2, <1>3, <1>4, <1>5 DEF CutFrom
<1>8. CASE end = L
  <2>1. \A p : Occurs(s, sep, p) => p < start
        BY <1>1, <1>6, <1>8
  <2>2. CutFrom(s, sep, done) = done
        BY <1>7, <1>8
  <2>3. QED
        BY <1>2, <2>1, <2>2
<1>9. CASE end # L
  <2>1. /\ end \in 0..L /\ end < L /\ start <= end /\ Occurs(s, sep, end)
        /\ \A p : Occurs(s, sep, p) /\ p < end => p < start
        BY <1>1, <1>6, <1>9
  <2>2. PICK m \in Nat : m = Len(done.strs)
        BY DEF DoneType
  <2>3. PICK next : next = CutFrom(s, sep, done)
        OBVIOUS
  <2>4. next.start = end + n /\ next.strs = Append(done.strs, SubSeq(s, start + 1, end))
    <3>1. next = [start |-> end + n, strs |-> Append(done.strs, SubSeq(s, start + 1, end))]
          BY <1>7, <2>1, <2>3
    <3>2. QED
          BY <3>1
  <2>5. done.strs \in Seq(Seq(S))
        BY DEF DoneType
  <2>6. /\ Len(next.strs) = m + 1 /\ next.strs[m + 1] = PieceAt(s, sep, start)
        /\ \A j \in 1..m : next.strs[j] = done.strs[j]
    <3>1. Within(s, start, end)
          BY <1>1, <2>1 DEF Within
    <3>2. SubSeq(s, start + 1, end) \in Seq(S)
          BY <3>1, SliceIs DEF Slice
    <3>3. PieceAt(s, sep, start) = SubSeq(s, start + 1, end)
          BY <1>5 DEF PieceAt
    <3>4. PICK piece \in Seq(S) : piece = SubSeq(s, start + 1, end)
          BY <3>2
    <3>5. PICK strs \in Seq(Seq(S)) : strs = done.strs /\ Len(strs) = m
          BY <2>2, <2>5
    <3>6. next.strs = Append(strs, piece)
          BY <2>4, <3>4, <3>5
    <3>7. /\ Len(next.strs) = m + 1 /\ next.strs[m + 1] = piece
          /\ \A j \in 1..m : next.strs[j] = strs[j]
          BY <3>5, <3>6
    <3>8. QED
          BY <3>3, <3>4, <3>5, <3>7
  <2>7. PICK e : CutUpTo(s, sep, e, done)
        BY DEF CutAhead
  <2>8. /\ Ascending(e, Begins(s, sep, start)) /\ Len(e) = m + 1 /\ e[m + 1] = start
        /\ \A j \in 1..m : done.strs[j] = PieceAt(s, sep, e[j])
        BY <1>2, <2>2, <2>7 DEF CutUpTo
  <2>9. e \in Seq(Nat) /\ start \in Begins(s, sep, start)
    <3>1. m + 1 \in 1..Len(e)
          BY <2>8
    <3>2. e \in Seq(Nat) /\ e[m + 1] \in Begins(s, sep, start)
          BY <2>8, <3>1 DEF Ascending
    <3>3. QED
          BY <2>8, <3>2
  <2>10. PICK to \in Nat : to = end + n
        BY <2>1
  <2>11. /\ Begins(s, sep, to) = Begins(s, sep, start) \cup {to}
         /\ \A t \in Begins(s, sep, start) : t < to
    <3>1. PICK stop \in Nat : stop = end
          BY <2>1
    <3>2. NoneBetween(s, sep, start, stop)
          BY <2>1, <3>1 DEF NoneBetween
    <3>3. start \in Nat /\ Occurs(s, sep, stop) /\ start <= stop
          BY <2>1, <3>1
    <3>4. PICK from \in Nat : from = start
          BY <3>3
    <3>5. NoneBetween(s, sep, from, stop) /\ from <= stop /\ from \in Begins(s, sep, from)
          BY <2>9, <3>2, <3>3, <3>4
    <3>6. /\ Begins(s, sep, stop + n) = Begins(s, sep, from) \cup {stop + n}
          /\ \A t \in Begins(s, sep, from) : t < stop + n
          BY <1>1, <1>4, <3>3, <3>5, BeginsNext
    <3>7. QED
          BY <2>10, <3>1, <3>4, <3>6
  <2>12. PICK f : f = Append(e, to)
        OBVIOUS
  <2>13. Ascending(f, Begins(s, sep, to))
    <3>1. Ascending(f, Begins(s, sep, start) \cup {to})
          BY <2>8, <2>11, <2>12, AscendingAppend
    <3>2. QED
          BY <2>11, <3>1
  <2>14. /\ Len(f) = (m + 1) + 1 /\ f[(m + 1) + 1] = to
         /\ \A j \in 1..(m + 1) : f[j] = e[j]
        BY <2>8, <2>9, <2>12
  <2>15. ASSUME NEW j \in 1..(m + 1)
         PROVE  next.strs[j] = PieceAt(s, sep, f[j])
    <3>1. CASE j \in 1..m
          BY <2>6, <2>8, <2>14, <3>1
    <3>2. CASE j = m + 1
          BY <2>6, <2>8, <2>14, <3>2
    <3>3. QED
          BY <3>1, <3>2
  <2>16. CutUpTo(s, sep, f, next)
        BY <2>4, <2>6, <2>10, <2>13, <2>14, <2>15 DEF CutUpTo
  <2>17. next.start > done.start
        BY <1>2, <1>4, <2>1, <2>4
  <2>18. QED
        BY <2>3, <2>16, <2>17 DEF CutAhead
<1>10. QED
    BY <1>8, <1>9

\* parts is what Split makes of s: one piece for each beginning.
CutWhere(s, sep, f, parts) ==
  /\ Ascending(f, Begins(s, sep, Len(s))) /\ Len(f) = Len(parts)
  /\ \A j \in 1..Len(parts) : parts[j] = PieceAt(s, sep, f[j])

LEMMA SplitPieces ==
  ASSUME NEW S, NEW s \in Seq(S), NEW V, NEW sep \in Seq(V), Separates(s, sep)
  PROVE  \E f : CutWhere(s, sep, f, Split(s, sep))
<1> DEFINE T == [k \in Nat |-> {d \in DoneType(S, s) :
                   /\ CutAhead(s, sep, d)
                   /\ d.start >= k \/ \A p : Occurs(s, sep, p) => p < d.start}]
<1>1. PICK L \in Nat : L = Len(s)
    OBVIOUS
<1>2. PICK done : done = Cuts(s, sep, L)[L]
    OBVIOUS
<1>3. PICK n \in Nat : n = Len(sep) /\ n # 0
    BY EmptySeq DEF Separates
<1>4. \A p : Occurs(s, sep, p) => p \in 0..(L - n)
    BY <1>1, <1>3 DEF Occurs
<1>5. done \in T[L]
  <2>1. NothingCut \in T[0]
    <3>1. NothingCut \in DoneType(S, s) /\ NothingCut.start = 0 /\ NothingCut.strs = <<>>
          BY DEF NothingCut, DoneType
    <3>2. Begins(s, sep, 0) = {0}
          BY <1>3 DEF Begins
    <3>3. CutUpTo(s, sep, <<0>>, NothingCut)
          BY <3>1, <3>2 DEF CutUpTo, Ascending
    <3>4. QED
          BY <3>1, <3>3 DEF CutAhead
  <2>2. ASSUME NEW k \in Nat, NEW d \in T[k]
        PROVE  CutFrom(s, sep, d) \in T[k + 1]
    <3>1. d \in DoneType(S, s) /\ CutAhead(s, sep, d)
          OBVIOUS
    <3>2. d.start >= k \/ \A p : Occurs(s, sep, p) => p < d.start
          OBVIOUS
    <3>3. PICK next : next = CutFrom(s, sep, d)
          OBVIOUS
    <3>4. next \in DoneType(S, s)
          BY <3>1, <3>3, CutTyped
    <3>5. /\ CutAhead(s, sep, next)
          /\ \/ next.start > d.start
             \/ next = d /\ \A p : Occurs(s, sep, p) => p < d.start
          BY <3>1, <3>3, CutGoesAhead
    <3>6. d.start \in 0..L /\ next.start \in 0..L
          BY <1>1, <3>1, <3>4 DEF DoneType
    <3>7. next.start >= k + 1 \/ \A p : Occurs(s, sep, p) => p < next.start
      <4>1. CASE next = d /\ \A p : Occurs(s, sep, p) => p < d.start
            BY <4>1
      <4>2. CASE next.start > d.start /\ d.start >= k
            BY <3>6, <4>2
      <4>3. CASE next.start > d.start /\ \A p : Occurs(s, sep, p) => p < d.start
            BY <1>4, <3>6, <4>3
      <4>4. QED
            BY <3>2, <3>5, <4>1, <4>2, <4>3
    <3>8. QED
          BY <3>3, <3>4, <3>5, <3>7
  <2>3. QED
    <3> HIDE DEF T
    <3>1. QED
          BY <1>2, <2>1, <2>2, CutsKeep
<1>6. done \in DoneType(S, s) /\ CutAhead(s, sep, done)
    BY <1>5
<1>7. PICK start \in 0..L : start = done.start
    BY <1>1, <1>6 DEF DoneType
<1>8. \A p : Occurs(s, sep, p) => p < start
  <2>1. start >= L \/ \A p : Occurs(s, sep, p) => p < start
        BY <1>5, <1>7
  <2>2. \A p : Occurs(s, sep, p) => p < L
        BY <1>3, <1>4
  <2>3. start >= L => \A p : Occurs(s, sep, p) => p < start
        BY <1>4, <1>7, <2>2
  <2>4. QED
        BY <2>1, <2>3
<1> HIDE DEF T
<1>9. PICK f : CutUpTo(s, sep, f, done)
    BY <1>6 DEF CutAhead
<1>10. PICK m \in Nat : m = Len(done.strs)
    BY <1>6 DEF DoneType
<1>11. done.strs \in Seq(Seq(S))
    BY <1>6 DEF DoneType
<1>12. /\ Ascending(f, Begins(s, sep, start)) /\ Len(f) = m + 1 /\ f[m + 1] = start
       /\ \A j \in 1..m : done.strs[j] = PieceAt(s, sep, f[j])
    BY <1>7, <1>9, <1>10 DEF CutUpTo
<1>13. Begins(s, sep, L) = Begins(s, sep, start)
  <2>1. m + 1 \in 1..Len(f)
        BY <1>12
  <2>2. start \in Begins(s, sep, start)
        BY <1>12, <2>1 DEF Ascending
  <2>3. QED
        BY <1>1, <1>3, <1>8, <2>2, BeginsAll
<1>14. PICK parts : parts = Split(s, sep)
    OBVIOUS
<1>15. parts = Append(done.strs, SubSeq(s, start + 1, L))
  <2>1. parts = SplitN(s, sep, L)
        BY <1>1, <1>14 DEF Split
  <2>2. SplitN(s, sep, L) = Append(Cuts(s, sep, L)[L].strs,
                                   SubSeq(s, Cuts(s, sep, L)[L].start + 1, Len(s)))
        BY SplitNLoops
  <2>3. QED
        BY <1>1, <1>2, <1>7, <2>1, <2>2
<1>16. PieceAt(s, sep, start) = SubSeq(s, start + 1, L)
  <2>1. PICK end : end = Find(s, sep, start)
        OBVIOUS
  <2>2. \/ /\ end = Len(s)
           /\ \A p : Occurs(s, sep, p) => p < start
        \/ /\ end \in 0..Len(s) /\ end < Len(s) /\ start <= end /\ Occurs(s, sep, end)
           /\ \A p : Occurs(s, sep, p) /\ p < end => p < start
    <3>1. sep # <<>> /\ start \in 0..Len(s)
          BY <1>1 DEF Separates
    <3>2. QED
          BY <2>1, <3>1, FindNext
  <2>3. end = L
        BY <1>1, <1>4, <1>8, <2>2
  <2>4. QED
        BY <2>1, <2>3 DEF PieceAt
<1>17. SubSeq(s, start + 1, L) \in Seq(S)
  <2>1. Within(s, start, L)
        BY <1>1, <1>7 DEF Within
  <2>2. QED
        BY <2>1, SliceIs DEF Slice
<1>18. /\ Len(parts) = m + 1 /\ parts[m + 1] = SubSeq(s, start + 1, L)
       /\ \A j \in 1..m : parts[j] = done.strs[j]
    BY <1>10, <1>11, <1>15, <1>17
<1>19. ASSUME NEW j \in 1..(m + 1)
       PROVE  parts[j] = PieceAt(s, sep, f[j])
  <2>1. CASE j \in 1..m
        BY <1>12, <1>18, <2>1
  <2>2. CASE j = m + 1
        BY <1>12, <1>16, <1>18, <2>2
  <2>3. QED
        BY <2>1, <2>2
<1>20. CutWhere(s, sep, f, parts)
    BY <1>1, <1>12, <1>13, <1>18, <1>19 DEF CutWhere
<1>21. QED
    BY <1>14, <1>20

\* Where the symbol c is in s, and where the pieces between its places begin and end.
Marks(s, c) == {p \in 1..Len(s) : s[p] = c}
Bounds(s, c) == {0, Len(s) + 1} \cup Marks(s, c)

\* f lists them, and parts is what lies between neighbours.
CutInto(s, c, f, parts) ==
  /\ Ascending(f, Bounds(s, c)) /\ Len(f) = Len(parts) + 1
  /\ \A j \in 1..Len(parts) : parts[j] = SubSeq(s, f[j] + 1, f[j + 1] - 1)

\* A symbol occurs where it is.
LEMMA OccursSymbol ==
  ASSUME NEW S, NEW s \in Seq(S), NEW c, NEW p
  PROVE  Occurs(s, <<c>>, p) <=> p \in 0..(Len(s) - 1) /\ s[p + 1] = c
<1>1. PICK L \in Nat : L = Len(s)
    OBVIOUS
<1>2. ASSUME p \in 0..(L - 1) PROVE SubSeq(s, p + 1, p + 1) = <<c>> <=> s[p + 1] = c
  <2>1. PICK q \in Nat : q = p + 1 /\ q - p = 1
        BY <1>2
  <2>2. Within(s, p, q) /\ p \in Nat /\ 1 \in 1..(q - p)
        BY <1>1, <1>2, <2>1 DEF Within
  <2>3. PICK t \in Seq(S) : t = Slice(s, p, q)
        BY <2>2, SliceIs
  <2>4. Len(t) = q - p
        BY <2>2, <2>3, SliceIs
  <2>5. t[1] = s[p + 1]
        BY <2>2, <2>3, SliceElement
  <2>6. t = <<s[p + 1]>>
        BY <2>1, <2>4, <2>5
  <2>7. SubSeq(s, p + 1, p + 1) = t
        BY <2>1, <2>3 DEF Slice
  <2>8. QED
        BY <2>6, <2>7
<1>3. Len(<<c>>) = 1
    OBVIOUS
<1>4. QED
    BY <1>1, <1>2, <1>3 DEF Occurs

\* Its occurrences do not overlap, and the pieces begin behind it.
LEMMA SymbolSeparates ==
  ASSUME NEW S, NEW s \in Seq(S), NEW c
  PROVE  Separates(s, <<c>>) /\ Begins(s, <<c>>, Len(s)) = {0} \cup Marks(s, c)
<1>1. PICK L \in Nat : L = Len(s)
    OBVIOUS
<1>2. <<c>> # <<>> /\ Len(<<c>>) = 1
    OBVIOUS
<1>3. \A p : Occurs(s, <<c>>, p) <=> p \in 0..(L - 1) /\ s[p + 1] = c
    BY <1>1, OccursSymbol
<1>4. Separates(s, <<c>>)
    BY <1>2, <1>3 DEF Separates
<1>5. Begins(s, <<c>>, L) = {0} \cup {p + 1 : p \in {q \in 0..L : Occurs(s, <<c>>, q) /\ q + 1 <= L}}
    BY <1>2 DEF Begins
<1>6. {p + 1 : p \in {q \in 0..L : Occurs(s, <<c>>, q) /\ q + 1 <= L}} = Marks(s, c)
  <2>1. ASSUME NEW x \in Marks(s, c)
        PROVE  \E p \in 0..L : Occurs(s, <<c>>, p) /\ p + 1 <= L /\ x = p + 1
    <3>1. x \in 1..L /\ s[x] = c
          BY <1>1 DEF Marks
    <3>2. PICK p \in 0..(L - 1) : p = x - 1 /\ x = p + 1
          BY <3>1
    <3>3. QED
          BY <1>3, <3>1, <3>2
  <2>2. ASSUME NEW p \in 0..L, Occurs(s, <<c>>, p), p + 1 <= L
        PROVE  p + 1 \in Marks(s, c)
    <3>1. p \in 0..(L - 1) /\ s[p + 1] = c
          BY <1>3, <2>2
    <3>2. QED
          BY <1>1, <3>1 DEF Marks
  <2>3. QED
        BY <2>1, <2>2
<1>7. QED
    BY <1>1, <1>4, <1>5, <1>6

\* Split cuts at every c.
LEMMA SplitMarks ==
  ASSUME NEW S, NEW s \in Seq(S), NEW c
  PROVE  \E f : CutInto(s, c, f, Split(s, <<c>>))
<1>1. PICK L \in Nat : L = Len(s)
    OBVIOUS
<1>2. PICK V : <<c>> \in Seq(V)
  <2>1. <<c>> \in Seq({c})
        OBVIOUS
  <2>2. QED
        BY <2>1
<1>3. PICK sep \in Seq(V) : sep = <<c>>
    BY <1>2
<1>4. PICK parts : parts = Split(s, sep)
    OBVIOUS
<1>5. Separates(s, sep) /\ Begins(s, sep, L) = {0} \cup Marks(s, c)
    BY <1>1, <1>3, SymbolSeparates
<1>6. PICK e : CutWhere(s, sep, e, parts)
    BY <1>4, <1>5, SplitPieces
<1>7. PICK n \in Nat : n = Len(parts)
  <2>1. parts \in Seq(Seq(S))
        BY <1>1, <1>4, SplitNTyped DEF Split
  <2>2. QED
        BY <2>1
<1>8. /\ Ascending(e, {0} \cup Marks(s, c)) /\ Len(e) = n /\ e \in Seq(Nat)
      /\ \A j \in 1..n : parts[j] = PieceAt(s, sep, e[j])
  <2>1. Ascending(e, {0} \cup Marks(s, c)) /\ Len(e) = n
        BY <1>1, <1>5, <1>6, <1>7 DEF CutWhere
  <2>2. \A j \in 1..n : parts[j] = PieceAt(s, sep, e[j])
        BY <1>6, <1>7 DEF CutWhere
  <2>3. QED
        BY <2>1, <2>2 DEF Ascending
<1>9. PICK f : f = Append(e, L + 1)
    OBVIOUS
<1>10. Ascending(f, Bounds(s, c))
  <2>1. \A t \in {0} \cup Marks(s, c) : t < L + 1
        BY <1>1 DEF Marks
  <2>2. L + 1 \in Nat
        OBVIOUS
  <2>3. Ascending(f, ({0} \cup Marks(s, c)) \cup {L + 1})
        BY <1>8, <1>9, <2>1, <2>2, AscendingAppend
  <2>4. ({0} \cup Marks(s, c)) \cup {L + 1} = Bounds(s, c)
        BY <1>1 DEF Bounds
  <2>5. QED
        BY <2>3, <2>4
<1>11. Len(f) = n + 1 /\ f[n + 1] = L + 1 /\ \A j \in 1..n : f[j] = e[j]
    BY <1>8, <1>9
<1>12. /\ Bounds(s, c) = {f[j] : j \in 1..(n + 1)}
       /\ \A i, j \in 1..(n + 1) : i < j => f[i] < f[j]
    BY <1>10, <1>11 DEF Ascending
<1>13. \A b \in Bounds(s, c) : b \in Nat /\ b <= L + 1
    BY <1>1 DEF Bounds, Marks
<1>14. \A j \in 1..(n + 1) : f[j] \in Nat /\ f[j] <= L + 1
    BY <1>12, <1>13
<1>15. \A p : Occurs(s, sep, p) <=> p \in 0..(L - 1) /\ s[p + 1] = c
    BY <1>1, <1>3, OccursSymbol
<1>16. \A p : Occurs(s, sep, p) => p \in Nat /\ p + 1 \in Bounds(s, c)
    BY <1>1, <1>15 DEF Bounds, Marks
<1>17. \A b \in Bounds(s, c) : b # 0 /\ b # L + 1 => Occurs(s, sep, b - 1)
  <2> SUFFICES ASSUME NEW b \in Bounds(s, c), b # 0, b # L + 1 PROVE Occurs(s, sep, b - 1)
      OBVIOUS
  <2>1. b \in 1..L /\ s[b] = c
        BY <1>1 DEF Bounds, Marks
  <2>2. b - 1 \in 0..(L - 1) /\ (b - 1) + 1 = b
        BY <2>1
  <2>3. QED
        BY <1>15, <2>1, <2>2
<1>18. ASSUME NEW j \in 1..n
       PROVE  parts[j] = SubSeq(s, f[j] + 1, f[j + 1] - 1)
  <2>1. j \in 1..(n + 1) /\ j + 1 \in 1..(n + 1) /\ j < j + 1
        OBVIOUS
  <2>2. PICK a \in Nat : a = f[j]
        BY <1>14, <2>1
  <2>3. PICK b \in Nat : b = f[j + 1] /\ b <= L + 1 /\ b \in Bounds(s, c)
        BY <1>12, <1>14, <2>1
  <2>4. a < b
        BY <1>12, <2>1, <2>2, <2>3
  <2>5. PICK start \in 0..L : start = a
        BY <2>3, <2>4
  <2>6. PICK end : end = Find(s, sep, start)
        OBVIOUS
  <2>7. \/ /\ end = Len(s)
           /\ \A p : Occurs(s, sep, p) => p < start
        \/ /\ end \in 0..Len(s) /\ end < Len(s) /\ start <= end /\ Occurs(s, sep, end)
           /\ \A p : Occurs(s, sep, p) /\ p < end => p < start
    <3>1. sep # <<>> /\ start \in 0..Len(s)
          BY <1>1, <1>5 DEF Separates
    <3>2. QED
          BY <2>6, <3>1, FindNext
  <2>8. b # 0 /\ (b # L + 1 => Occurs(s, sep, b - 1))
        BY <1>17, <2>3, <2>4
  <2>9. end = b - 1
    <3>1. CASE end = L /\ \A p : Occurs(s, sep, p) => p < start
      <4>1. b = L + 1
        <5>1. b # L + 1 => b - 1 < start
              BY <2>8, <3>1
        <5>2. QED
              BY <2>3, <2>4, <2>5, <5>1
      <4>2. QED
            BY <3>1, <4>1
    <3>2. CASE /\ end \in 0..L /\ end < L /\ start <= end /\ Occurs(s, sep, end)
               /\ \A p : Occurs(s, sep, p) /\ p < end => p < start
      <4>1. b - 1 >= end
        <5>1. b # L + 1 /\ b - 1 < end => b - 1 < start
              BY <2>8, <3>2
        <5>2. QED
              BY <2>3, <2>4, <2>5, <3>2, <5>1
      <4>2. PICK i \in 1..(n + 1) : f[i] = end + 1
            BY <1>12, <1>16, <3>2
      <4>3. f[j] < f[i]
            BY <2>2, <2>5, <3>2, <4>2
      <4>4. ~(i <= j)
        <5>1. i < j => f[i] < f[j]
              BY <1>12, <2>1
        <5>2. QED
              BY <1>14, <2>1, <4>3, <5>1
      <4>5. i = j + 1 \/ (j + 1 < i /\ f[j + 1] < f[i])
            BY <1>12, <2>1, <4>4
      <4>6. b <= end + 1
            BY <2>3, <3>2, <4>2, <4>5
      <4>7. QED
            BY <2>3, <3>2, <4>1, <4>6
    <3>3. QED
          BY <1>1, <2>7, <3>1, <3>2
  <2>10. parts[j] = SubSeq(s, start + 1, end)
    <3>1. parts[j] = PieceAt(s, sep, e[j]) /\ e[j] = start
          BY <1>8, <1>11, <2>2, <2>5
    <3>2. QED
          BY <2>6, <3>1 DEF PieceAt
  <2>11. QED
        BY <2>2, <2>3, <2>5, <2>9, <2>10
<1>19. CutInto(s, c, f, parts)
    BY <1>7, <1>10, <1>11, <1>18 DEF CutInto
<1>20. QED
    BY <1>3, <1>4, <1>19

\* There is one way to cut a string into pieces.
LEMMA PiecesCut ==
  ASSUME NEW S, NEW s \in Seq(S), NEW c, NEW f, NEW parts, CutInto(s, c, f, parts),
         parts = [j \in 1..Len(parts) |-> parts[j]], Len(parts) \in Nat
  PROVE  Pieces(s, c) = parts
<1>1. PICK n \in Nat : n = Len(parts)
    OBVIOUS
<1>2. Ascending(f, Bounds(s, c)) /\ Len(f) = n + 1
    BY <1>1 DEF CutInto
<1>3. /\ Cardinality(Bounds(s, c)) = n + 1
      /\ \A j \in 1..(n + 1) : Nth(Bounds(s, c), j) = f[j]
    BY <1>2, NthOfAscending
<1>4. DOMAIN s = 1..Len(s)
    OBVIOUS
<1>5. Bounds(s, c) = {0, Len(s) + 1} \cup {k \in DOMAIN s : s[k] = c}
    BY <1>4 DEF Bounds, Marks
<1>6. Pieces(s, c) = [k \in 1..(Cardinality(Bounds(s, c)) - 1) |->
                         SubSeq(s, Nth(Bounds(s, c), k) + 1, Nth(Bounds(s, c), k + 1) - 1)]
    BY <1>5 DEF Pieces
<1>7. Pieces(s, c) = [k \in 1..n |-> SubSeq(s, f[k] + 1, f[k + 1] - 1)]
  <2>1. Cardinality(Bounds(s, c)) - 1 = n
        BY <1>3
  <2>2. \A k \in 1..n : Nth(Bounds(s, c), k) = f[k] /\ Nth(Bounds(s, c), k + 1) = f[k + 1]
    <3>1. \A k \in 1..n : k \in 1..(n + 1) /\ k + 1 \in 1..(n + 1)
          OBVIOUS
    <3>2. QED
          BY <1>3, <3>1
  <2>3. Pieces(s, c) = [k \in 1..n |->
                           SubSeq(s, Nth(Bounds(s, c), k) + 1, Nth(Bounds(s, c), k + 1) - 1)]
        BY <1>6, <2>1
  <2>4. QED
        BY <2>2, <2>3
<1>8. \A k \in 1..n : parts[k] = SubSeq(s, f[k] + 1, f[k + 1] - 1)
    BY <1>1 DEF CutInto
<1>9. QED
    BY <1>1, <1>7, <1>8

\* What Split cuts at a symbol are the pieces between its places.
LEMMA SplitIsPieces ==
  ASSUME NEW S, NEW s \in Seq(S), NEW c
  PROVE  Split(s, <<c>>) = Pieces(s, c)
<1>1. PICK parts : parts = Split(s, <<c>>)
    OBVIOUS
<1>2. PICK f : CutInto(s, c, f, parts)
    BY <1>1, SplitMarks
<1>3. parts \in Seq(Seq(S))
  <2>1. <<c>> \in Seq({c}) /\ Len(s) \in Nat
        OBVIOUS
  <2>2. QED
        BY <1>1, <2>1, SplitNTyped DEF Split
<1>4. parts = [j \in 1..Len(parts) |-> parts[j]] /\ Len(parts) \in Nat
    BY <1>3
<1>5. QED
    BY <1>1, <1>2, <1>4, PiecesCut

\* f lists n + 1 numbers from 0 to behind s, those between them the places of c in s.
CutsAtEnds(s, c, f, n) ==
  /\ n # 0 /\ f \in Seq(Nat) /\ Len(f) = n + 1
  /\ f[1] = 0 /\ f[n + 1] = Len(s) + 1
  /\ \A j \in 1..(n + 1) : f[j] \in Nat
  /\ \A i, j \in 1..(n + 1) : i < j => f[i] < f[j]
  /\ \A p \in 1..Len(s) : s[p] = c <=> \E j \in 2..n : f[j] = p

\* The first and the last place where s is cut are its ends; the others are those of c.
LEMMA CutEnds ==
  ASSUME NEW S, NEW s \in Seq(S), NEW c, NEW f, NEW parts, NEW n \in Nat, n = Len(parts), CutInto(s, c, f, parts)
  PROVE  CutsAtEnds(s, c, f, n)
<1>1. PICK L \in Nat : L = Len(s)
    OBVIOUS
<1>2. /\ f \in Seq(Nat) /\ Len(f) = n + 1 /\ Bounds(s, c) = {f[j] : j \in 1..(n + 1)}
      /\ \A i, j \in 1..(n + 1) : i < j => f[i] < f[j]
    BY DEF CutInto, Ascending
<1>3. Bounds(s, c) = {0, L + 1} \cup {p \in 1..L : s[p] = c}
    BY <1>1 DEF Bounds, Marks
<1>4. \A j \in 1..(n + 1) : f[j] \in Nat /\ f[j] <= L + 1
  <2>1. \A j \in 1..(n + 1) : f[j] \in Bounds(s, c)
        BY <1>2
  <2>2. \A b \in Bounds(s, c) : b \in Nat /\ b <= L + 1
        BY <1>3
  <2>3. QED
        BY <2>1, <2>2
<1>5. f[1] = 0
  <2>1. PICK i \in 1..(n + 1) : f[i] = 0
        BY <1>2, <1>3
  <2>2. i = 1
    <3>1. CASE i # 1
      <4>1. 1 \in 1..(n + 1) /\ 1 < i
            BY <3>1
      <4>2. f[1] < f[i] /\ f[1] \in Nat
            BY <1>2, <1>4, <4>1
      <4>3. QED
            BY <2>1, <4>2
    <3>2. QED
          BY <3>1
  <2>3. QED
        BY <2>1, <2>2
<1>6. f[n + 1] = L + 1
  <2>1. PICK i \in 1..(n + 1) : f[i] = L + 1
        BY <1>2, <1>3
  <2>2. i = n + 1
    <3>1. CASE i # n + 1
      <4>1. n + 1 \in 1..(n + 1) /\ i < n + 1
            BY <3>1
      <4>2. f[i] < f[n + 1] /\ f[n + 1] \in Nat /\ f[n + 1] <= L + 1
            BY <1>2, <1>4, <4>1
      <4>3. QED
            BY <2>1, <4>2
    <3>2. QED
          BY <3>1
  <2>3. QED
        BY <2>1, <2>2
<1>7. n # 0
    BY <1>5, <1>6
<1>8. ASSUME NEW p \in 1..L
      PROVE  s[p] = c <=> \E j \in 2..n : f[j] = p
  <2>1. s[p] = c <=> p \in Bounds(s, c)
        BY <1>3
  <2>2. p \in Bounds(s, c) <=> \E j \in 1..(n + 1) : f[j] = p
        BY <1>2
  <2>3. f[1] # p /\ f[n + 1] # p
        BY <1>5, <1>6
  <2>4. 1..(n + 1) = {1, n + 1} \cup 2..n
        BY <1>7
  <2>5. (\E j \in 1..(n + 1) : f[j] = p) <=> \E j \in 2..n : f[j] = p
        BY <2>3, <2>4
  <2>6. QED
        BY <2>1, <2>2, <2>5
<1>9. QED
    BY <1>1, <1>2, <1>4, <1>5, <1>6, <1>7, <1>8 DEF CutsAtEnds

-----------------------------------------------------------------------------
(* Paths.                                                                  *)

\* What Split cuts at slashes are the components.
LEMMA SplitIsComponents ==
  ASSUME NEW S, NEW s \in Seq(S)
  PROVE  Split(s, Slash) = Components(s)
BY SplitIsPieces DEF Slash, Components

\* The components of a path, and where it is cut into them.
LEMMA ComponentsCut ==
  ASSUME NEW S, NEW s \in Seq(S), NEW f, NEW parts, CutInto(s, "/", f, parts),
         parts = [j \in 1..Len(parts) |-> parts[j]], Len(parts) \in Nat
  PROVE  Components(s) = parts
BY PiecesCut DEF Components

-----------------------------------------------------------------------------
(* The folds of CanonicalizePath and Join.                                 *)

\* What they do with a part.
EnterPart(done, part) ==
  CASE part \in {<<>>, Here} -> done
    [] part = Up -> [left |-> done.left \/ done.valid = <<>>,
                     valid |-> IF done.valid = <<>> THEN <<>> ELSE Front(done.valid)]
    [] OTHER -> [done EXCEPT !.valid = Append(@, part)]
AtRoot == [left |-> FALSE, valid |-> <<>>]
Measure(x) == IF x \in DOMAIN WordSize THEN WordSize[x] ELSE 1
AddPart(how, done, part) ==
  IF how = "enter" THEN EnterPart(done, part)
  ELSE IF how = "join" THEN done \o Slash \o part ELSE done + Measure(part)

\* What MapThenFoldSet computes, for each set of positions.
FoldStep(f, how, base, parts, D) ==
  f = [x \in SUBSET D |-> IF x = {} THEN base
                          ELSE AddPart(how, f[x \ {Max(x)}], parts[Max(x)])]
Folded(how, base, parts, D) == CHOOSE f : FoldStep(f, how, base, parts, D)

\* CanonicalizePath and Join are such folds, over all the parts.
LEMMA CanonicalizePathIs ==
  ASSUME NEW p
  PROVE  LET parts == Split(p, Slash)
             end == Folded("enter", AtRoot, parts, DOMAIN parts)[DOMAIN parts]
         IN CanonicalizePath(p) = IF p = <<>> \/ end.left THEN <<>>
                                  ELSE Slash \o Join(Slash, end.valid)
BY DEF CanonicalizePath, FoldLeft, MapThenFoldSet, Folded, FoldStep, AddPart, EnterPart, AtRoot

\* Join puts the parts after the first one to it.
LEMMA JoinIs ==
  ASSUME NEW parts, parts # <<>>
  PROVE  LET rest == Tail(parts) IN
           Join(Slash, parts) = Folded("join", Head(parts), rest, DOMAIN rest)[DOMAIN rest]
BY DEF Join, FoldLeft, MapThenFoldSet, Folded, FoldStep, AddPart

\* Size adds up the sizes of the symbols.
LEMMA SizeIs ==
  ASSUME NEW s
  PROVE  Size(s) = Folded("size", 0, s, DOMAIN s)[DOMAIN s]
BY DEF Size, FoldLeft, MapThenFoldSet, Folded, FoldStep, AddPart, Measure

\* The greatest of a set of numbers up to one that is in it.
LEMMA MaxIs ==
  ASSUME NEW n \in Nat, NEW x \in SUBSET (1..n), n \in x
  PROVE  Max(x) = n
<1>1. n \in x /\ \A m \in x : n >= m
    OBVIOUS
<1>2. \A k \in x : (\A m \in x : k >= m) => k = n
    BY <1>1
<1>3. QED
    BY <1>1, <1>2 DEF Max

\* The folds can be computed part by part.
LEMMA FoldedExists ==
  ASSUME NEW how, NEW base, NEW parts, NEW n \in Nat
  PROVE  FoldStep(Folded(how, base, parts, 1..n), how, base, parts, 1..n)
<1> DEFINE T == {m \in Nat : \E f : FoldStep(f, how, base, parts, 1..m)}
<1>1. 0 \in T
  <2>1. \A x \in SUBSET (1..0) : x = {}
        OBVIOUS
  <2>2. FoldStep([x \in SUBSET (1..0) |-> base], how, base, parts, 1..0)
        BY <2>1 DEF FoldStep
  <2>3. QED
        BY <2>2
<1>2. ASSUME NEW m \in Nat, m \in T PROVE m + 1 \in T
  <2>1. PICK f : FoldStep(f, how, base, parts, 1..m)
        BY <1>2
  <2> DEFINE Of(h, x) == IF x = {} THEN base ELSE AddPart(how, h[x \ {Max(x)}], parts[Max(x)])
             g == [x \in SUBSET (1..(m + 1)) |->
                     IF m + 1 \in x THEN AddPart(how, f[x \ {m + 1}], parts[m + 1]) ELSE f[x]]
  <2>2. \A x \in SUBSET (1..m) : f[x] = Of(f, x)
        BY <2>1 DEF FoldStep
  <2>3. \A x \in SUBSET (1..m) : g[x] = f[x]
    <3>1. \A x \in SUBSET (1..m) : x \in SUBSET (1..(m + 1)) /\ m + 1 \notin x
          OBVIOUS
    <3>2. QED
          BY <3>1
  <2>4. ASSUME NEW x \in SUBSET (1..(m + 1))
        PROVE  g[x] = Of(g, x)
    <3>1. CASE m + 1 \in x
      <4>1. Max(x) = m + 1
            BY <3>1, MaxIs
      <4>2. x \ {m + 1} \in SUBSET (1..m) /\ x # {}
            BY <3>1
      <4>3. g[x] = AddPart(how, f[x \ {m + 1}], parts[m + 1])
            BY <3>1
      <4>4. g[x \ {m + 1}] = f[x \ {m + 1}]
            BY <2>3, <4>2
      <4> HIDE DEF g
      <4>5. QED
            BY <4>1, <4>2, <4>3, <4>4
    <3>2. CASE m + 1 \notin x
      <4>1. x \in SUBSET (1..m)
            BY <3>2
      <4>2. g[x] = f[x] /\ g[x \ {Max(x)}] = f[x \ {Max(x)}]
        <5>1. x \ {Max(x)} \in SUBSET (1..m)
              BY <4>1
        <5> HIDE DEF g
        <5>2. QED
              BY <2>3, <4>1, <5>1
      <4>3. f[x] = Of(f, x)
            BY <2>2, <4>1
      <4> HIDE DEF g
      <4>4. QED
            BY <4>2, <4>3
    <3>3. QED
          BY <3>1, <3>2
  <2>5. FoldStep(g, how, base, parts, 1..(m + 1))
    <3>1. g = [x \in SUBSET (1..(m + 1)) |-> g[x]]
          OBVIOUS
    <3> HIDE DEF g
    <3>2. QED
          BY <2>4, <3>1 DEF FoldStep
  <2>6. QED
        BY <2>5
<1>3. n \in T
  <2> HIDE DEF T
  <2>1. QED
        BY <1>1, <1>2, NatSetInduction
<1>4. QED
    BY <1>3 DEF Folded

\* w[k] is what the first k parts lead to.
Walk(w, how, base, parts, n) ==
  w[0] = base /\ \A k \in 1..n : w[k] = AddPart(how, w[k - 1], parts[k])

\* So what the fold of n parts returns is where a walk over them ends.
LEMMA FoldedWalk ==
  ASSUME NEW how, NEW base, NEW parts, NEW n \in Nat
  PROVE  \E w : /\ Walk(w, how, base, parts, n)
                /\ Folded(how, base, parts, 1..n)[1..n] = w[n]
<1> DEFINE f == Folded(how, base, parts, 1..n)
           w == [k \in 0..n |-> f[1..k]]
<1>1. \A x \in SUBSET (1..n) : f[x] = IF x = {} THEN base
                                      ELSE AddPart(how, f[x \ {Max(x)}], parts[Max(x)])
  <2>1. FoldStep(f, how, base, parts, 1..n)
        BY FoldedExists
  <2> HIDE DEF f
  <2>2. QED
        BY <2>1 DEF FoldStep
<1> HIDE DEF f
<1>2. w[0] = base
  <2>1. 1..0 = {} /\ {} \in SUBSET (1..n) /\ 0 \in 0..n
        OBVIOUS
  <2>2. QED
        BY <1>1, <2>1
<1>3. ASSUME NEW k \in 1..n PROVE w[k] = AddPart(how, w[k - 1], parts[k])
  <2>1. /\ 1..k \in SUBSET (1..n) /\ 1..k # {} /\ k \in 0..n /\ k - 1 \in 0..n
        /\ (1..k) \ {k} = 1..(k - 1)
        OBVIOUS
  <2>2. Max(1..k) = k
        BY MaxIs
  <2>3. f[1..k] = AddPart(how, f[1..(k - 1)], parts[k])
        BY <1>1, <2>1, <2>2
  <2>4. QED
        BY <2>1, <2>3
<1>4. w[n] = f[1..n]
    OBVIOUS
<1> HIDE DEF w
<1>5. QED
    BY <1>2, <1>3, <1>4 DEF Walk, f

-----------------------------------------------------------------------------
(* Where a walk over the parts of a path stands.                           *)

IsName(part) == part \notin {<<>>, Here, Up}

\* How many of the parts a..k lead down, and how many back up.
Downs(parts, a, k) == Cardinality(Names(parts, a, k))
Backs(parts, a, k) == Cardinality(Ups(parts, a, k))

\* ".." is not skipped.
LEMMA UpIsUp == Up \notin {<<>>, Here}
<1>1. Len(Up) = 2 /\ Len(Here) = 1 /\ Len(<<>>) = 0
    BY DEF Up, Here
<1>2. QED
    BY <1>1

\* The counts are numbers.
LEMMA CountsTyped ==
  ASSUME NEW parts, NEW a \in Nat, NEW k \in Nat
  PROVE  /\ Downs(parts, a, k) \in Nat /\ Backs(parts, a, k) \in Nat
         /\ IsFiniteSet(Names(parts, a, k)) /\ IsFiniteSet(Ups(parts, a, k))
<1>1. IsFiniteSet(a..k)
    BY FS_Interval
<1>2. Names(parts, a, k) \subseteq a..k /\ Ups(parts, a, k) \subseteq a..k
    BY DEF Names, Ups
<1>3. IsFiniteSet(Names(parts, a, k)) /\ IsFiniteSet(Ups(parts, a, k))
    BY <1>1, <1>2, FS_Subset
<1>4. QED
    BY <1>3, FS_CardinalityType DEF Downs, Backs

\* One more part.
LEMMA CountsNext ==
  ASSUME NEW parts, NEW k \in Nat, NEW a \in 1..(k + 1)
  PROVE  /\ Downs(parts, a, k + 1) =
              IF IsName(parts[k + 1]) THEN Downs(parts, a, k) + 1 ELSE Downs(parts, a, k)
         /\ Backs(parts, a, k + 1) =
              IF parts[k + 1] = Up THEN Backs(parts, a, k) + 1 ELSE Backs(parts, a, k)
<1>1. a..(k + 1) = (a..k) \cup {k + 1} /\ k + 1 \notin a..k
    OBVIOUS
<1>2. Names(parts, a, k + 1) =
        Names(parts, a, k) \cup (IF IsName(parts[k + 1]) THEN {k + 1} ELSE {})
    BY <1>1 DEF Names, IsName
<1>3. Ups(parts, a, k + 1) =
        Ups(parts, a, k) \cup (IF parts[k + 1] = Up THEN {k + 1} ELSE {})
    BY <1>1 DEF Ups
<1>4. k + 1 \notin Names(parts, a, k) /\ k + 1 \notin Ups(parts, a, k)
    BY <1>1 DEF Names, Ups
<1>5. IsFiniteSet(Names(parts, a, k)) /\ IsFiniteSet(Ups(parts, a, k))
    BY CountsTyped
<1>6. /\ Cardinality(Names(parts, a, k) \cup {k + 1}) = Downs(parts, a, k) + 1
      /\ Cardinality(Ups(parts, a, k) \cup {k + 1}) = Backs(parts, a, k) + 1
    BY <1>4, <1>5, FS_AddElement DEF Downs, Backs
<1>7. Downs(parts, a, k + 1) =
        IF IsName(parts[k + 1]) THEN Downs(parts, a, k) + 1 ELSE Downs(parts, a, k)
    BY <1>2, <1>6 DEF Downs
<1>8. Backs(parts, a, k + 1) =
        IF parts[k + 1] = Up THEN Backs(parts, a, k) + 1 ELSE Backs(parts, a, k)
    BY <1>3, <1>6 DEF Backs
<1>9. QED
    BY <1>7, <1>8

\* No part.
LEMMA CountsNone ==
  ASSUME NEW parts, NEW a \in Nat, NEW k \in Nat, k < a
  PROVE  Downs(parts, a, k) = 0 /\ Backs(parts, a, k) = 0
<1>1. a..k = {}
    OBVIOUS
<1>2. Names(parts, a, k) = {} /\ Ups(parts, a, k) = {}
    BY <1>1 DEF Names, Ups
<1>3. QED
    BY <1>2, FS_EmptySet DEF Downs, Backs

\* Ascends compares the counts.
LEMMA AscendsIs ==
  ASSUME NEW parts, NEW a, NEW k
  PROVE  Ascends(parts, a, k) <=> Backs(parts, a, k) > Downs(parts, a, k)
BY DEF Ascends, Backs, Downs

\* The names that nothing among the first k parts goes above again, and those of k + 1.
Kept(parts, k) == {i \in Names(parts, 1, k) : \A l \in i..k : ~Ascends(parts, i + 1, l)}

\* What one more part keeps of the names before it.
LEMMA KeptNext ==
  ASSUME NEW parts, NEW k \in Nat
  PROVE  Kept(parts, k + 1) =
           {i \in Kept(parts, k) : ~Ascends(parts, i + 1, k + 1)}
             \cup (IF IsName(parts[k + 1]) THEN {k + 1} ELSE {})
<1>1. 1..(k + 1) = (1..k) \cup {k + 1}
    OBVIOUS
<1>2. ASSUME NEW i \in 1..k
      PROVE  i \in Kept(parts, k + 1) <=> i \in Kept(parts, k) /\ ~Ascends(parts, i + 1, k + 1)
  <2>1. i..(k + 1) = (i..k) \cup {k + 1}
        OBVIOUS
  <2>2. i \in Names(parts, 1, k + 1) <=> i \in Names(parts, 1, k)
        BY <1>1 DEF Names
  <2>3. QED
        BY <2>1, <2>2 DEF Kept
<1>3. k + 1 \in Kept(parts, k + 1) <=> IsName(parts[k + 1])
  <2>1. (k + 1)..(k + 1) = {k + 1} /\ k + 1 \in 1..(k + 1)
        OBVIOUS
  <2>2. k + 1 \in Names(parts, 1, k + 1) <=> IsName(parts[k + 1])
        BY <2>1 DEF Names, IsName
  <2>3. ~Ascends(parts, (k + 1) + 1, k + 1)
    <3>1. Downs(parts, (k + 1) + 1, k + 1) = 0 /\ Backs(parts, (k + 1) + 1, k + 1) = 0
          BY CountsNone
    <3>2. QED
          BY <3>1, AscendsIs
  <2>4. QED
        BY <2>1, <2>2, <2>3 DEF Kept
<1>4. Kept(parts, k) \subseteq 1..k /\ Kept(parts, k + 1) \subseteq 1..(k + 1)
    BY DEF Kept, Names
<1>5. QED
    BY <1>1, <1>2, <1>3, <1>4

\* A walk that has stayed below the root is in the directory that e names: each
\* name has as many more below it as the parts after it lead down.
Below(parts, k, e, valid) ==
  /\ Ascending(e, Kept(parts, k))
  /\ valid = [j \in 1..Len(e) |-> parts[e[j]]]
  /\ Downs(parts, 1, k) = Backs(parts, 1, k) + Len(e)
  /\ \A j \in 1..Len(e) : Downs(parts, e[j] + 1, k) = Backs(parts, e[j] + 1, k) + (Len(e) - j)
  /\ \A l \in 1..k : ~Ascends(parts, 1, l)

Stands(parts, k, done) ==
  IF done.left THEN \E l \in 1..k : Ascends(parts, 1, l)
  ELSE \E e : Below(parts, k, e, done.valid)

\* Where the elements of e are.
LEMMA BelowKept ==
  ASSUME NEW parts, NEW k \in Nat, NEW e, NEW valid, Below(parts, k, e, valid)
  PROVE  /\ e \in Seq(Nat) /\ Len(e) \in Nat /\ Kept(parts, k) = {e[j] : j \in 1..Len(e)}
         /\ \A j \in 1..Len(e) : e[j] \in 1..k
<1>1. /\ e \in Seq(Nat) /\ Len(e) \in Nat /\ Kept(parts, k) = {e[j] : j \in 1..Len(e)}
    BY DEF Below, Ascending
<1>2. Kept(parts, k) \subseteq 1..k
    BY DEF Kept, Names
<1>3. QED
    BY <1>1, <1>2

\* A part that is skipped.
LEMMA SkipStands ==
  ASSUME NEW parts, NEW k \in Nat, NEW e, NEW valid, Below(parts, k, e, valid),
         parts[k + 1] \in {<<>>, Here}
  PROVE  Below(parts, k + 1, e, valid)
<1>1. ~IsName(parts[k + 1]) /\ parts[k + 1] # Up
    BY UpIsUp DEF IsName
<1>2. \A a \in 1..(k + 1) : /\ Downs(parts, a, k + 1) = Downs(parts, a, k)
                            /\ Backs(parts, a, k + 1) = Backs(parts, a, k)
    BY <1>1, CountsNext
<1>3. \A a \in 1..(k + 1) : Ascends(parts, a, k + 1) <=> Ascends(parts, a, k)
    BY <1>2, AscendsIs
<1>4. Kept(parts, k + 1) = Kept(parts, k)
  <2>1. \A i \in Kept(parts, k) : ~Ascends(parts, i + 1, k + 1)
    <3> SUFFICES ASSUME NEW i \in Kept(parts, k) PROVE ~Ascends(parts, i + 1, k + 1)
        OBVIOUS
    <3>1. i \in 1..k /\ ~Ascends(parts, i + 1, k)
          BY DEF Kept, Names
    <3>2. i + 1 \in 1..(k + 1)
          BY <3>1
    <3>3. QED
          BY <1>3, <3>1, <3>2
  <2>2. QED
        BY <1>1, <2>1, KeptNext
<1>5. \A l \in 1..(k + 1) : ~Ascends(parts, 1, l)
  <2>1. \A l \in 1..k : ~Ascends(parts, 1, l)
        BY DEF Below
  <2>2. ~Ascends(parts, 1, k + 1)
    <3>1. CASE k = 0
      <4>1. Downs(parts, 1, 0) = 0 /\ Backs(parts, 1, 0) = 0
            BY CountsNone
      <4>2. 1 \in 1..(k + 1)
            OBVIOUS
      <4>3. ~Ascends(parts, 1, k)
            BY <3>1, <4>1, AscendsIs
      <4>4. QED
            BY <1>3, <4>2, <4>3
    <3>2. CASE k # 0
      <4>1. k \in 1..k /\ 1 \in 1..(k + 1)
            BY <3>2
      <4>2. QED
            BY <1>3, <2>1, <4>1
    <3>3. QED
          BY <3>1, <3>2
  <2>3. QED
        BY <2>1, <2>2
<1>6. PICK m \in Nat : m = Len(e)
    BY BelowKept
<1>7. /\ Downs(parts, 1, k) = Backs(parts, 1, k) + m
      /\ \A j \in 1..m : Downs(parts, e[j] + 1, k) = Backs(parts, e[j] + 1, k) + (m - j)
      /\ \A j \in 1..m : e[j] \in 1..k
    BY <1>6, BelowKept DEF Below
<1>8. \A j \in 1..m : e[j] + 1 \in 1..(k + 1)
    BY <1>7
<1>9. Downs(parts, 1, k + 1) = Backs(parts, 1, k + 1) + m
    BY <1>2, <1>7
<1>10. \A j \in 1..m : Downs(parts, e[j] + 1, k + 1) = Backs(parts, e[j] + 1, k + 1) + (m - j)
    BY <1>2, <1>7, <1>8
<1>11. QED
    BY <1>4, <1>5, <1>6, <1>9, <1>10 DEF Below

\* A name is entered.
LEMMA NameStands ==
  ASSUME NEW parts, NEW k \in Nat, NEW e, NEW W, NEW valid \in Seq(W),
         Below(parts, k, e, valid), IsName(parts[k + 1]), parts[k + 1] \in W
  PROVE  Below(parts, k + 1, Append(e, k + 1), Append(valid, parts[k + 1]))
<1>1. parts[k + 1] # Up
    BY DEF IsName
<1>2. \A a \in 1..(k + 1) : /\ Downs(parts, a, k + 1) = Downs(parts, a, k) + 1
                            /\ Backs(parts, a, k + 1) = Backs(parts, a, k)
    BY <1>1, CountsNext
<1>3. \A a \in 1..(k + 1) : /\ Downs(parts, a, k) \in Nat /\ Backs(parts, a, k) \in Nat
    BY CountsTyped
<1>4. PICK m \in Nat : m = Len(e)
    BY BelowKept
<1>5. /\ Ascending(e, Kept(parts, k)) /\ valid = [j \in 1..m |-> parts[e[j]]]
      /\ Downs(parts, 1, k) = Backs(parts, 1, k) + m
      /\ \A j \in 1..m : Downs(parts, e[j] + 1, k) = Backs(parts, e[j] + 1, k) + (m - j)
      /\ \A j \in 1..m : e[j] \in 1..k
      /\ \A l \in 1..k : ~Ascends(parts, 1, l)
      /\ e \in Seq(Nat)
    BY <1>4, BelowKept DEF Below
<1>6. \A j \in 1..m : e[j] + 1 \in 1..(k + 1)
    BY <1>5
<1>7. Kept(parts, k + 1) = Kept(parts, k) \cup {k + 1}
  <2>1. ASSUME NEW i \in Kept(parts, k) PROVE ~Ascends(parts, i + 1, k + 1)
    <3>1. i \in 1..k /\ ~Ascends(parts, i + 1, k)
          BY DEF Kept, Names
    <3>2. PICK a \in 1..(k + 1) : a = i + 1
          BY <3>1
    <3>3. ~(Backs(parts, a, k) > Downs(parts, a, k))
          BY <3>1, <3>2, AscendsIs
    <3>4. ~(Backs(parts, a, k + 1) > Downs(parts, a, k + 1))
          BY <1>2, <1>3, <3>3
    <3>5. QED
          BY <3>2, <3>4, AscendsIs
  <2>2. QED
        BY <2>1, KeptNext
<1>8. PICK f : f = Append(e, k + 1)
    OBVIOUS
<1>9. Ascending(f, Kept(parts, k + 1))
  <2>1. \A t \in Kept(parts, k) : t < k + 1
        BY DEF Kept, Names
  <2>2. PICK x \in Nat : x = k + 1
        OBVIOUS
  <2>3. \A t \in Kept(parts, k) : t < x
        BY <2>1, <2>2
  <2>4. Ascending(Append(e, x), Kept(parts, k) \cup {x})
        BY <1>5, <2>3, AscendingAppend
  <2>5. QED
        BY <1>7, <1>8, <2>2, <2>4
<1>10. f \in Seq(Nat) /\ Len(f) = m + 1 /\ f[m + 1] = k + 1 /\ \A j \in 1..m : f[j] = e[j]
    BY <1>4, <1>5, <1>8
<1>11. Append(valid, parts[k + 1]) = [j \in 1..(m + 1) |-> parts[f[j]]]
  <2>1. PICK v : v = Append(valid, parts[k + 1])
        OBVIOUS
  <2>2. Len(valid) = m
        BY <1>5
  <2>3. v \in Seq(W) /\ Len(v) = m + 1 /\ v[m + 1] = parts[k + 1] /\ \A j \in 1..m : v[j] = valid[j]
        BY <2>1, <2>2
  <2>4. \A j \in 1..m : v[j] = parts[f[j]]
        BY <1>5, <1>10, <2>3
  <2>5. \A j \in 1..(m + 1) : v[j] = parts[f[j]]
    <3>1. v[m + 1] = parts[f[m + 1]]
          BY <1>10, <2>3
    <3>2. 1..(m + 1) = (1..m) \cup {m + 1}
          OBVIOUS
    <3>3. QED
          BY <2>4, <3>1, <3>2
  <2>6. v = [j \in 1..(m + 1) |-> v[j]]
        BY <2>3
  <2>7. QED
        BY <2>1, <2>5, <2>6
<1>12. Downs(parts, 1, k + 1) = Backs(parts, 1, k + 1) + (m + 1)
  <2>1. 1 \in 1..(k + 1)
        OBVIOUS
  <2>2. QED
        BY <1>2, <1>3, <1>5, <2>1
<1>13. ASSUME NEW j \in 1..(m + 1)
       PROVE  Downs(parts, f[j] + 1, k + 1) = Backs(parts, f[j] + 1, k + 1) + ((m + 1) - j)
  <2>1. CASE j = m + 1
    <3>1. Downs(parts, (k + 1) + 1, k + 1) = 0 /\ Backs(parts, (k + 1) + 1, k + 1) = 0
          BY CountsNone
    <3>2. QED
          BY <1>10, <2>1, <3>1
  <2>2. CASE j \in 1..m
    <3>1. PICK a \in 1..(k + 1) : a = f[j] + 1
          BY <1>6, <1>10, <2>2
    <3>2. Downs(parts, a, k) = Backs(parts, a, k) + (m - j)
          BY <1>5, <1>10, <2>2, <3>1
    <3>3. Downs(parts, a, k + 1) = Backs(parts, a, k + 1) + ((m + 1) - j)
          BY <1>2, <1>3, <3>2
    <3>4. QED
          BY <3>1, <3>3
  <2>3. QED
        BY <2>1, <2>2
<1>14. ~Ascends(parts, 1, k + 1)
  <2>1. 1 \in 1..(k + 1)
        OBVIOUS
  <2>2. ~(Backs(parts, 1, k + 1) > Downs(parts, 1, k + 1))
        BY <1>2, <1>3, <1>12, <2>1
  <2>3. QED
        BY <2>2, AscendsIs
<1>15. \A l \in 1..(k + 1) : ~Ascends(parts, 1, l)
    BY <1>5, <1>14
<1>16. QED
    BY <1>8, <1>9, <1>10, <1>11, <1>12, <1>13, <1>15 DEF Below

\* The way back from the directory that was entered last.
LEMMA UpStands ==
  ASSUME NEW parts, NEW k \in Nat, NEW e, NEW W, NEW valid \in Seq(W),
         Below(parts, k, e, valid), parts[k + 1] = Up, valid # <<>>
  PROVE  \E f : Below(parts, k + 1, f, Front(valid))
<1>1. ~IsName(parts[k + 1])
    BY DEF IsName
<1>2. \A a \in 1..(k + 1) : /\ Downs(parts, a, k + 1) = Downs(parts, a, k)
                            /\ Backs(parts, a, k + 1) = Backs(parts, a, k) + 1
    BY <1>1, CountsNext
<1>3. \A a \in 1..(k + 1) : /\ Downs(parts, a, k) \in Nat /\ Backs(parts, a, k) \in Nat
    BY CountsTyped
<1>4. PICK m \in Nat : m = Len(e)
    BY BelowKept
<1>5. /\ Ascending(e, Kept(parts, k)) /\ valid = [j \in 1..m |-> parts[e[j]]]
      /\ Downs(parts, 1, k) = Backs(parts, 1, k) + m
      /\ \A j \in 1..m : Downs(parts, e[j] + 1, k) = Backs(parts, e[j] + 1, k) + (m - j)
      /\ \A j \in 1..m : e[j] \in 1..k
      /\ \A l \in 1..k : ~Ascends(parts, 1, l)
      /\ e \in Seq(Nat)
    BY <1>4, BelowKept DEF Below
<1>6. Len(valid) = m /\ m # 0
    BY <1>5
<1>7. PICK n \in Nat : n = m - 1
    BY <1>6
<1>8. PICK f : f = SubSeq(e, 1, n)
    OBVIOUS
<1>9. f \in Seq(Nat) /\ Len(f) = n /\ \A j \in 1..n : f[j] = e[j]
  <2>1. Within(e, 0, n)
        BY <1>4, <1>6, <1>7 DEF Within
  <2>2. f = Slice(e, 0, n)
        BY <1>8 DEF Slice
  <2>3. f \in Seq(Nat) /\ Len(f) = n - 0
        BY <1>5, <2>1, <2>2, SliceIs
  <2>4. ASSUME NEW j \in 1..n PROVE f[j] = e[j]
    <3>1. j \in 1..(n - 0) /\ 0 \in Nat
          OBVIOUS
    <3>2. Slice(e, 0, n)[j] = e[0 + j]
          BY <1>5, <2>1, <3>1, SliceElement
    <3>3. QED
          BY <2>2, <3>2
  <2>5. QED
        BY <2>3, <2>4
<1>10. Front(valid) = [j \in 1..n |-> parts[f[j]]]
  <2>1. Within(valid, 0, n)
        BY <1>6, <1>7 DEF Within
  <2>2. PICK v : v = Front(valid)
        OBVIOUS
  <2>3. v = Slice(valid, 0, n)
        BY <1>6, <1>7, <2>2 DEF Front, Slice
  <2>4. v \in Seq(W) /\ Len(v) = n - 0
        BY <2>1, <2>3, SliceIs
  <2>5. ASSUME NEW j \in 1..n PROVE v[j] = parts[f[j]]
    <3>1. j \in 1..(n - 0) /\ 0 \in Nat /\ j \in 1..m
          BY <1>7
    <3>2. Slice(valid, 0, n)[j] = valid[0 + j]
          BY <2>1, <3>1, SliceElement
    <3>3. QED
          BY <1>5, <1>9, <2>3, <3>1, <3>2
  <2>6. v = [j \in 1..n |-> v[j]]
        BY <2>4
  <2>7. QED
        BY <2>2, <2>5, <2>6
<1>11. ASSUME NEW j \in 1..m
       PROVE  Ascends(parts, e[j] + 1, k + 1) <=> j = m
  <2>1. PICK a \in 1..(k + 1) : a = e[j] + 1
        BY <1>5
  <2>2. Downs(parts, a, k) = Backs(parts, a, k) + (m - j)
        BY <1>5, <2>1
  <2>3. Backs(parts, a, k + 1) > Downs(parts, a, k + 1) <=> j = m
        BY <1>2, <1>3, <2>2
  <2>4. QED
        BY <2>1, <2>3, AscendsIs
<1>12. Kept(parts, k + 1) = {e[j] : j \in 1..n}
  <2>1. Kept(parts, k + 1) = {i \in Kept(parts, k) : ~Ascends(parts, i + 1, k + 1)}
        BY <1>1, KeptNext
  <2>2. Kept(parts, k) = {e[j] : j \in 1..m}
        BY <1>4, BelowKept
  <2>3. \A j \in 1..m : ~Ascends(parts, e[j] + 1, k + 1) <=> j \in 1..n
        BY <1>7, <1>11
  <2>4. \A j \in 1..n : j \in 1..m
        BY <1>7
  <2>5. QED
        BY <2>1, <2>2, <2>3, <2>4
<1>13. Ascending(f, Kept(parts, k + 1))
  <2>1. \A i, j \in 1..m : i < j => e[i] < e[j]
        BY <1>4, <1>5 DEF Ascending
  <2>2. \A j \in 1..n : j \in 1..m
        BY <1>7
  <2>3. \A i, j \in 1..n : i < j => f[i] < f[j]
        BY <1>9, <2>1, <2>2
  <2>4. Kept(parts, k + 1) = {f[j] : j \in 1..n}
        BY <1>9, <1>12
  <2>5. QED
        BY <1>9, <2>3, <2>4 DEF Ascending
<1>14. 1 \in 1..(k + 1)
    OBVIOUS
<1>15. Downs(parts, 1, k + 1) = Backs(parts, 1, k + 1) + n
    BY <1>2, <1>3, <1>5, <1>7, <1>14
<1>16. ASSUME NEW j \in 1..n
       PROVE  Downs(parts, f[j] + 1, k + 1) = Backs(parts, f[j] + 1, k + 1) + (n - j)
  <2>1. j \in 1..m
        BY <1>7
  <2>2. PICK a \in 1..(k + 1) : a = e[j] + 1
        BY <1>5, <2>1
  <2>3. Downs(parts, a, k) = Backs(parts, a, k) + (m - j)
        BY <1>5, <2>1, <2>2
  <2>4. Downs(parts, a, k + 1) = Backs(parts, a, k + 1) + (n - j)
        BY <1>2, <1>3, <1>7, <2>3
  <2>5. QED
        BY <1>9, <2>2, <2>4
<1>17. ~Ascends(parts, 1, k + 1)
  <2>1. Downs(parts, 1, k + 1) \in Nat /\ Backs(parts, 1, k + 1) \in Nat
        BY CountsTyped
  <2>2. ~(Backs(parts, 1, k + 1) > Downs(parts, 1, k + 1))
        BY <1>15, <2>1
  <2>3. QED
        BY <2>2, AscendsIs
<1>18. \A l \in 1..(k + 1) : ~Ascends(parts, 1, l)
    BY <1>5, <1>17
<1>19. Below(parts, k + 1, f, Front(valid))
    BY <1>9, <1>10, <1>13, <1>15, <1>16, <1>18 DEF Below
<1>20. QED
    BY <1>19

\* The way back from the root leaves it.
LEMMA UpLeaves ==
  ASSUME NEW parts, NEW k \in Nat, NEW e, NEW valid, Below(parts, k, e, valid),
         parts[k + 1] = Up, valid = <<>>
  PROVE  Ascends(parts, 1, k + 1)
<1>1. ~IsName(parts[k + 1]) /\ 1 \in 1..(k + 1)
    BY DEF IsName
<1>2. /\ Downs(parts, 1, k + 1) = Downs(parts, 1, k)
      /\ Backs(parts, 1, k + 1) = Backs(parts, 1, k) + 1
    BY <1>1, CountsNext
<1>3. Len(e) = 0
  <2>1. Len(e) \in Nat
        BY BelowKept
  <2>2. DOMAIN valid = 1..Len(e) /\ DOMAIN valid = {}
        BY DEF Below
  <2>3. QED
        BY <2>1, <2>2
<1>4. Downs(parts, 1, k) = Backs(parts, 1, k)
  <2>1. Backs(parts, 1, k) \in Nat
        BY CountsTyped
  <2>2. QED
        BY <1>3, <2>1 DEF Below
<1>5. Backs(parts, 1, k) \in Nat
    BY CountsTyped
<1>6. Backs(parts, 1, k + 1) > Downs(parts, 1, k + 1)
    BY <1>2, <1>4, <1>5
<1>7. QED
    BY <1>6, AscendsIs

Place(W) == [left : BOOLEAN, valid : Seq(W)]

\* Each part of a path leads where it should.
LEMMA EnterStands ==
  ASSUME NEW parts, NEW k \in Nat, NEW W, NEW done \in Place(W), Stands(parts, k, done),
         parts[k + 1] \in W
  PROVE  /\ EnterPart(done, parts[k + 1]) \in Place(W)
         /\ Stands(parts, k + 1, EnterPart(done, parts[k + 1]))
<1>1. PICK part \in W : part = parts[k + 1]
    OBVIOUS
<1>2. done.left \in BOOLEAN /\ done.valid \in Seq(W)
    BY DEF Place
<1>3. PICK next : next = EnterPart(done, part)
    OBVIOUS
<1>4. ASSUME done.left, next.left
      PROVE  Stands(parts, k + 1, next)
  <2>1. \E l \in 1..k : Ascends(parts, 1, l)
        BY <1>4 DEF Stands
  <2>2. QED
        BY <1>4, <2>1 DEF Stands
<1>5. CASE part \in {<<>>, Here}
  <2>1. next = done
        BY <1>3, <1>5, UpIsUp DEF EnterPart
  <2>2. CASE ~done.left
    <3>1. PICK e : Below(parts, k, e, done.valid)
          BY <2>2 DEF Stands
    <3>2. parts[k + 1] \in {<<>>, Here}
          BY <1>1, <1>5
    <3>3. Below(parts, k + 1, e, done.valid)
          BY <3>1, <3>2, SkipStands
    <3>4. QED
          BY <1>1, <1>3, <2>1, <2>2, <3>3 DEF Stands
  <2>3. QED
        BY <1>1, <1>3, <1>4, <2>1, <2>2
<1>6. CASE part = Up
  <2>1. next = [left |-> done.left \/ done.valid = <<>>,
                valid |-> IF done.valid = <<>> THEN <<>> ELSE Front(done.valid)]
        BY <1>3, <1>6, UpIsUp DEF EnterPart
  <2>2. /\ next.left = (done.left \/ done.valid = <<>>)
        /\ next.valid = IF done.valid = <<>> THEN <<>> ELSE Front(done.valid)
        BY <2>1
  <2>3. next \in Place(W)
    <3>1. next.valid \in Seq(W)
      <4>1. CASE done.valid = <<>>
            BY <2>2, <4>1
      <4>2. CASE done.valid # <<>>
        <5>1. PICK m \in Nat : m = Len(done.valid) /\ m # 0
              BY <1>2, <4>2, EmptySeq
        <5>2. PICK n \in Nat : n = m - 1
              BY <5>1, SMTT(60)
        <5>3. Within(done.valid, 0, n)
              BY <5>1, <5>2 DEF Within
        <5>4. Slice(done.valid, 0, n) \in Seq(W)
              BY <1>2, <5>3, SliceIs
        <5>5. Front(done.valid) = Slice(done.valid, 0, n)
              BY <5>1, <5>2 DEF Front, Slice
        <5>6. QED
              BY <2>2, <4>2, <5>4, <5>5
      <4>3. QED
            BY <4>1, <4>2
    <3>2. next = [left |-> next.left, valid |-> next.valid]
          BY <2>1
    <3>3. QED
          BY <2>2, <3>1, <3>2 DEF Place
  <2>4. Stands(parts, k + 1, next)
    <3>1. CASE done.left
          BY <1>4, <2>2, <3>1
    <3>2. CASE ~done.left
      <4>1. PICK e : Below(parts, k, e, done.valid)
            BY <3>2 DEF Stands
      <4>2. parts[k + 1] = Up
            BY <1>1, <1>6
      <4>3. CASE done.valid = <<>>
        <5>1. Ascends(parts, 1, k + 1)
              BY <4>1, <4>2, <4>3, UpLeaves
        <5>2. next.left
              BY <2>2, <4>3
        <5>3. k + 1 \in 1..(k + 1)
              OBVIOUS
        <5>4. \E l \in 1..(k + 1) : Ascends(parts, 1, l)
              BY <5>1, <5>3
        <5>5. QED
              BY <5>2, <5>4 DEF Stands
      <4>4. CASE done.valid # <<>>
        <5>1. \E f : Below(parts, k + 1, f, Front(done.valid))
              BY <1>2, <4>1, <4>2, <4>4, UpStands
        <5>2. ~next.left /\ next.valid = Front(done.valid)
              BY <2>2, <3>2, <4>4
        <5>3. QED
              BY <5>1, <5>2 DEF Stands
      <4>5. QED
            BY <4>3, <4>4
    <3>3. QED
          BY <1>2, <3>1, <3>2
  <2>5. QED
        BY <1>1, <1>3, <2>3, <2>4
<1>7. CASE IsName(part)
  <2>1. next = [done EXCEPT !.valid = Append(done.valid, part)]
        BY <1>3, <1>7 DEF EnterPart, IsName
  <2>2. next.left = done.left /\ next.valid = Append(done.valid, part)
        BY <2>1 DEF Place
  <2>3. next \in Place(W)
    <3>1. done = [left |-> done.left, valid |-> done.valid]
          BY DEF Place
    <3>2. next = [left |-> done.left, valid |-> Append(done.valid, part)]
          BY <2>1, <3>1
    <3>3. Append(done.valid, part) \in Seq(W)
          BY <1>2
    <3>4. QED
          BY <1>2, <3>2, <3>3 DEF Place
  <2>4. Stands(parts, k + 1, next)
    <3>1. CASE done.left
          BY <1>4, <2>2, <3>1
    <3>2. CASE ~done.left
      <4>1. PICK e : Below(parts, k, e, done.valid)
            BY <3>2 DEF Stands
      <4>2. IsName(parts[k + 1])
            BY <1>1, <1>7
      <4>3. Below(parts, k + 1, Append(e, k + 1), Append(done.valid, parts[k + 1]))
            BY <1>2, <4>1, <4>2, NameStands
      <4>4. QED
            BY <1>1, <2>2, <3>2, <4>3 DEF Stands
    <3>3. QED
          BY <1>2, <3>1, <3>2
  <2>5. QED
        BY <1>1, <1>3, <2>3, <2>4
<1>8. QED
    BY <1>5, <1>6, <1>7 DEF IsName

\* At the beginning a walk stands at the root.
LEMMA RootStands ==
  ASSUME NEW parts, NEW W
  PROVE  AtRoot \in Place(W) /\ Stands(parts, 0, AtRoot)
<1>1. AtRoot \in Place(W) /\ ~AtRoot.left /\ AtRoot.valid = <<>>
    BY DEF AtRoot, Place
<1>2. Kept(parts, 0) = {}
    BY DEF Kept, Names
<1>3. Ascending(<<>>, Kept(parts, 0))
    BY <1>2 DEF Ascending
<1>4. Downs(parts, 1, 0) = 0 /\ Backs(parts, 1, 0) = 0
    BY CountsNone
<1>5. Len(<<>>) = 0 /\ 1..0 = {}
    OBVIOUS
<1>6. <<>> = [j \in 1..Len(<<>>) |-> parts[<<>>[j]]]
    BY <1>5
<1>7. Below(parts, 0, <<>>, <<>>)
    BY <1>3, <1>4, <1>5, <1>6 DEF Below
<1>8. QED
    BY <1>1, <1>7 DEF Stands

\* And so it does after all parts.
LEMMA WalkStands ==
  ASSUME NEW W, NEW parts \in Seq(W), NEW w, NEW n, n = Len(parts),
         Walk(w, "enter", AtRoot, parts, n)
  PROVE  w[n] \in Place(W) /\ Stands(parts, n, w[n])
<1> DEFINE T == {k \in Nat : k <= n => w[k] \in Place(W) /\ Stands(parts, k, w[k])}
<1>1. n \in Nat
    OBVIOUS
<1>2. 0 \in T
    BY RootStands DEF Walk
<1>3. ASSUME NEW k \in Nat, k \in T PROVE k + 1 \in T
  <2> SUFFICES ASSUME k + 1 <= n
               PROVE  w[k + 1] \in Place(W) /\ Stands(parts, k + 1, w[k + 1])
      OBVIOUS
  <2>1. k <= n /\ k + 1 \in 1..n /\ (k + 1) - 1 = k
        BY <1>1
  <2>2. w[k] \in Place(W) /\ Stands(parts, k, w[k])
        BY <1>3, <2>1
  <2>3. parts[k + 1] \in W
        BY <2>1
  <2>4. w[k + 1] = EnterPart(w[k], parts[k + 1])
        BY <2>1 DEF Walk, AddPart
  <2>5. EnterPart(w[k], parts[k + 1]) \in Place(W)
        BY <2>2, <2>3, EnterStands
  <2>6. Stands(parts, k + 1, EnterPart(w[k], parts[k + 1]))
        BY <2>2, <2>3, EnterStands
  <2>7. QED
        BY <2>4, <2>5, <2>6
<1>4. n \in T
  <2> HIDE DEF T
  <2>1. QED
        BY <1>1, <1>2, <1>3, NatSetInduction
<1>5. QED
    BY <1>1, <1>4

\* What the reference definitions make of the path s, and what the code does.
Refers(s) ==
  CanonicalizePath(s) = IF LeavesRoot(s) THEN <<>> ELSE Slash \o Join(Slash, Resolved(s))

\* They agree on every path; and what a path resolves to are names among its components.
LEMMA PathRefers ==
  ASSUME NEW S, NEW s \in Seq(S)
  PROVE  /\ Refers(s)
         /\ ~LeavesRoot(s) =>
              /\ Resolved(s) \in Seq(Seq(S))
              /\ \A j \in 1..Len(Resolved(s)) :
                   /\ IsName(Resolved(s)[j])
                   /\ \E k \in 1..Len(Components(s)) : Resolved(s)[j] = Components(s)[k]
<1>1. PICK parts : parts = Components(s)
    OBVIOUS
<1>2. Split(s, Slash) = parts
    BY <1>1, SplitIsComponents
<1>3. parts \in Seq(Seq(S))
  <2>1. Slash \in Seq({"/"}) /\ Len(s) \in Nat
        BY DEF Slash
  <2>2. Split(s, Slash) \in Seq(Seq(S))
        BY <2>1, SplitNTyped DEF Split
  <2>3. QED
        BY <1>2, <2>2
<1>4. PICK n \in Nat : n = Len(parts)
    BY <1>3
<1>5. DOMAIN parts = 1..n
    BY <1>3, <1>4
<1>6. PICK end : end = Folded("enter", AtRoot, parts, 1..n)[1..n]
    OBVIOUS
<1>7. CanonicalizePath(s) = IF s = <<>> \/ end.left THEN <<>> ELSE Slash \o Join(Slash, end.valid)
    BY <1>2, <1>5, <1>6, CanonicalizePathIs
<1>8. PICK w : Walk(w, "enter", AtRoot, parts, n) /\ end = w[n]
    BY <1>6, FoldedWalk
<1>9. end \in Place(Seq(S)) /\ Stands(parts, n, end)
    BY <1>3, <1>4, <1>8, WalkStands
<1>10. LeavesRoot(s) <=> s = <<>> \/ \E k \in 1..n : Ascends(parts, 1, k)
    BY <1>1, <1>5 DEF LeavesRoot
<1>11. CASE end.left
  <2>1. \E k \in 1..n : Ascends(parts, 1, k)
        BY <1>9, <1>11 DEF Stands
  <2>2. LeavesRoot(s) /\ CanonicalizePath(s) = <<>>
        BY <1>7, <1>10, <1>11, <2>1
  <2>3. QED
        BY <2>2 DEF Refers
<1>12. CASE ~end.left
  <2>1. PICK e : Below(parts, n, e, end.valid)
        BY <1>9, <1>12 DEF Stands
  <2>2. PICK m \in Nat : m = Len(e)
        BY <2>1, BelowKept
  <2>3. /\ Ascending(e, Kept(parts, n)) /\ end.valid = [j \in 1..m |-> parts[e[j]]]
        /\ \A l \in 1..n : ~Ascends(parts, 1, l)
        BY <2>1, <2>2 DEF Below
  <2>4. /\ Cardinality(Kept(parts, n)) = m
        /\ \A j \in 1..m : Nth(Kept(parts, n), j) = e[j]
        BY <2>2, <2>3, NthOfAscending
  <2>5. Resolved(s) = [j \in 1..Cardinality(Kept(parts, n)) |-> parts[Nth(Kept(parts, n), j)]]
        BY <1>1, <1>4 DEF Resolved, Kept
  <2>6. Resolved(s) = end.valid
        BY <2>3, <2>4, <2>5
  <2>7. LeavesRoot(s) <=> s = <<>>
        BY <1>10, <2>3
  <2>8. Refers(s)
        BY <1>7, <1>12, <2>6, <2>7 DEF Refers
  <2>9. Resolved(s) \in Seq(Seq(S)) /\ Len(Resolved(s)) = m
        BY <1>9, <2>3, <2>6 DEF Place
  <2>10. ASSUME NEW j \in 1..m
         PROVE  /\ IsName(Resolved(s)[j])
                /\ \E k \in 1..Len(Components(s)) : Resolved(s)[j] = Components(s)[k]
    <3>1. e[j] \in 1..n
          BY <2>1, <2>2, BelowKept
    <3>2. e[j] \in Names(parts, 1, n)
          BY <2>2, <2>3 DEF Ascending, Kept
    <3>3. Resolved(s)[j] = parts[e[j]]
          BY <2>3, <2>6
    <3>4. IsName(parts[e[j]])
          BY <3>2 DEF Names, IsName
    <3>5. QED
          BY <1>1, <1>4, <3>1, <3>3, <3>4
  <2>11. QED
        BY <2>8, <2>9, <2>10
<1>13. QED
    BY <1>11, <1>12

\* The uri of a request is what the text of the frame has there.
LEMMA ParsedTyped ==
  ASSUME NEW S, NEW frame \in Seq(S), ParseRequest(frame) # <<>>
  PROVE  ParseRequest(frame)[1].uri \in Seq(S)
<1>1. PICK lines : lines = Split(frame, CRLF)
    OBVIOUS
<1>2. lines \in Seq(Seq(S)) /\ Len(lines) # 0
  <2>1. CRLF \in Seq({"\r", "\n"}) /\ Len(frame) \in Nat
        BY DEF CRLF
  <2>2. QED
        BY <1>1, <2>1, SplitNTyped DEF Split
<1>3. PICK parts : parts = SplitN(lines[1], <<" ">>, 2)
    OBVIOUS
<1>4. parts \in Seq(Seq(S))
  <2>1. <<" ">> \in Seq({" "}) /\ lines[1] \in Seq(S)
        BY <1>2
  <2>2. QED
        BY <1>3, <2>1, SplitNTyped
<1>5. PICK headers : headers = [k \in 1..(Len(lines) - 1) |-> ParseHeader(lines[k + 1])]
    OBVIOUS
<1>6. ParseRequest(frame) =
        IF Len(parts) = 3 /\ ValidUri(parts[2]) /\ ValidVersion(parts[3]) /\ <<>> \notin Range(headers)
        THEN <<HttpRequest(parts[1], parts[2], parts[3], FlattenSeq(headers))>>
        ELSE <<>>
    BY <1>1, <1>3, <1>5 DEF ParseRequest
<1>7. /\ Len(parts) = 3
      /\ ParseRequest(frame) = <<HttpRequest(parts[1], parts[2], parts[3], FlattenSeq(headers))>>
    BY <1>6
<1>8. ParseRequest(frame)[1].uri = parts[2]
    BY <1>7 DEF HttpRequest
<1>9. 2 \in 1..Len(parts)
    BY <1>7
<1>10. QED
    BY <1>4, <1>8, <1>9

-----------------------------------------------------------------------------
(* Components of paths that are put together.                              *)

NoSlash(part) == \A i \in 1..Len(part) : part[i] # "/"

\* So no component has a slash.
LEMMA ComponentsTyped ==
  ASSUME NEW S, NEW s \in Seq(S)
  PROVE  /\ Components(s) \in Seq(Seq(S)) /\ Len(Components(s)) # 0
         /\ \A j \in 1..Len(Components(s)) : NoSlash(Components(s)[j])
         /\ \E f : CutInto(s, "/", f, Components(s))
<1>1. PICK parts : parts = Components(s)
    OBVIOUS
<1>2. PICK f : CutInto(s, "/", f, parts)
    BY <1>1, SplitMarks, SplitIsComponents DEF Slash
<1>3. parts \in Seq(Seq(S)) /\ Len(parts) # 0
  <2>1. Slash \in Seq({"/"}) /\ Len(s) \in Nat
        BY DEF Slash
  <2>2. Split(s, Slash) \in Seq(Seq(S)) /\ Len(Split(s, Slash)) # 0
        BY <2>1, SplitNTyped DEF Split
  <2>3. QED
        BY <1>1, <2>2, SplitIsComponents
<1>4. PICK n \in Nat : n = Len(parts)
    BY <1>3
<1>5. PICK L \in Nat : L = Len(s)
    OBVIOUS
<1>6. /\ f \in Seq(Nat) /\ Len(f) = n + 1
      /\ f[1] = 0 /\ f[n + 1] = L + 1
      /\ \A i, j \in 1..(n + 1) : i < j => f[i] < f[j]
      /\ \A p \in 1..L : s[p] = "/" <=> \E j \in 2..n : f[j] = p
  <2>1. CutsAtEnds(s, "/", f, n)
        BY <1>2, <1>4, CutEnds
  <2>2. QED
        BY <1>5, <2>1 DEF CutsAtEnds
<1>7. ASSUME NEW j \in 1..n
      PROVE  NoSlash(parts[j])
  <2>1. j \in 1..(n + 1) /\ j + 1 \in 1..(n + 1)
        OBVIOUS
  <2>2. PICK a \in Nat : a = f[j]
        BY <1>6, <2>1
  <2>3. PICK b \in Nat : b = f[j + 1] - 1 /\ a <= b
    <3>1. f[j + 1] \in Nat /\ f[j] < f[j + 1]
          BY <1>6, <2>1
    <3>2. QED
          BY <2>2, <3>1
  <2>4. b <= L
    <3>1. CASE j + 1 = n + 1
          BY <1>6, <2>3, <3>1
    <3>2. CASE j + 1 < n + 1
      <4>1. f[j + 1] < f[n + 1] /\ f[j + 1] \in Nat
            BY <1>6, <2>1, <3>2
      <4>2. QED
            BY <1>6, <2>3, <4>1
    <3>3. QED
          BY <3>1, <3>2
  <2>5. Within(s, a, b)
        BY <1>5, <2>3, <2>4 DEF Within
  <2>6. parts[j] = Slice(s, a, b)
        BY <1>2, <1>4, <2>2, <2>3 DEF CutInto, Slice
  <2>7. Len(parts[j]) = b - a
        BY <2>2, <2>3, <2>5, <2>6, SliceIs, SMTT(60)
  <2>8. ASSUME NEW i \in 1..(b - a)
        PROVE  parts[j][i] # "/"
    <3>1. parts[j][i] = s[a + i]
          BY <2>5, <2>6, SliceElement
    <3>2. PICK p \in 1..L : p = a + i /\ a < p /\ p <= b
          BY <2>3, <2>4
    <3>3. \A k \in 2..n : f[k] # p
      <4> SUFFICES ASSUME NEW k \in 2..n, f[k] = p PROVE FALSE
          OBVIOUS
      <4>1. k \in 1..(n + 1) /\ f[j] < f[k] /\ f[k] < f[j + 1]
        <5>1. k \in 1..(n + 1) /\ f[k] = p
              OBVIOUS
        <5>2. f[j + 1] \in Nat
              BY <1>6, <2>1
        <5>3. f[j + 1] = b + 1
              BY <2>3, <5>2
        <5>4. QED
              BY <2>2, <3>2, <5>1, <5>3
      <4>2. CASE k <= j
        <5>1. f[k] <= f[j]
              BY <1>6, <2>1, <4>1, <4>2
        <5>2. QED
              BY <1>6, <2>1, <4>1, <5>1
      <4>3. CASE k >= j + 1
        <5>1. f[j + 1] <= f[k]
              BY <1>6, <2>1, <4>1, <4>3
        <5>2. QED
              BY <1>6, <2>1, <4>1, <5>1
      <4>4. QED
            BY <4>2, <4>3
    <3>4. s[p] # "/"
          BY <1>6, <3>3
    <3>5. QED
          BY <3>1, <3>2, <3>4
  <2>9. QED
        BY <2>7, <2>8 DEF NoSlash
<1>8. QED
    BY <1>1, <1>2, <1>3, <1>4, <1>7

\* The symbols of s from a to b are those of t from c to d.
Same(s, a, b, t, c, d) == b - a = d - c /\ \A i \in 1..(b - a) : s[a + i] = t[c + i]

\* Two pieces of the same symbols are equal.
LEMMA SlicesAgree ==
  ASSUME NEW S, NEW s \in Seq(S), NEW t \in Seq(S),
         NEW a \in Nat, NEW b \in Nat, Within(s, a, b),
         NEW c \in Nat, NEW d \in Nat, Within(t, c, d), Same(s, a, b, t, c, d)
  PROVE  Slice(s, a, b) = Slice(t, c, d)
<1>1. PICK u \in Seq(S) : u = Slice(s, a, b)
    BY SliceIs
<1>2. PICK v \in Seq(S) : v = Slice(t, c, d)
    BY SliceIs
<1>3. Len(u) = b - a /\ \A i \in 1..(b - a) : u[i] = s[a + i]
  <2>1. Len(u) = b - a
        BY <1>1, SliceIs
  <2>2. ASSUME NEW i \in 1..(b - a) PROVE u[i] = s[a + i]
        BY <1>1, SliceElement
  <2>3. QED
        BY <2>1, <2>2
<1>4. Len(v) = d - c /\ \A i \in 1..(d - c) : v[i] = t[c + i]
  <2>1. Len(v) = d - c
        BY <1>2, SliceIs
  <2>2. ASSUME NEW i \in 1..(d - c) PROVE v[i] = t[c + i]
        BY <1>2, SliceElement
  <2>3. QED
        BY <2>1, <2>2
<1>5. b - a = d - c /\ \A i \in 1..(b - a) : s[a + i] = t[c + i]
    BY DEF Same
<1>6. Len(u) = Len(v) /\ \A i \in 1..Len(u) : u[i] = v[i]
    BY <1>3, <1>4, <1>5
<1>7. u = v
    BY <1>6, SeqEqual
<1>8. QED
    BY <1>1, <1>2, <1>7

\* The elements of two sequences put together are those of the one and of the other.
LEMMA ConcatElements ==
  ASSUME NEW S, NEW s \in Seq(S), NEW t \in Seq(S)
  PROVE  /\ s \o t \in Seq(S) /\ Len(s \o t) = Len(s) + Len(t)
         /\ \A i \in 1..Len(s) : (s \o t)[i] = s[i]
         /\ \A i \in 1..Len(t) : (s \o t)[Len(s) + i] = t[i]
<1>1. s \o t \in Seq(S) /\ Len(s \o t) = Len(s) + Len(t)
    BY ConcatProperties
<1>2. \A i \in 1..(Len(s) + Len(t)) : (s \o t)[i] = IF i <= Len(s) THEN s[i] ELSE t[i - Len(s)]
    BY ConcatProperties
<1>3. ASSUME NEW i \in 1..Len(s) PROVE (s \o t)[i] = s[i]
    BY <1>2
<1>4. ASSUME NEW i \in 1..Len(t) PROVE (s \o t)[Len(s) + i] = t[i]
  <2>1. PICK l \in Nat : l = Len(s)
        OBVIOUS
  <2>2. l + i \in 1..(l + Len(t)) /\ ~(l + i <= l) /\ (l + i) - l = i
        OBVIOUS
  <2>3. QED
        BY <1>2, <2>1, <2>2
<1>5. QED
    BY <1>1, <1>3, <1>4

\* Where the path a, a slash, and the path b are cut.
LEMMA ComponentsConcat ==
  ASSUME NEW S, "/" \in S, NEW a \in Seq(S), NEW b \in Seq(S)
  PROVE  /\ a \o Slash \o b \in Seq(S)
         /\ Components(a \o Slash \o b) = Components(a) \o Components(b)
<1>1. PICK A \in Nat : A = Len(a)
    OBVIOUS
<1>2. PICK B \in Nat : B = Len(b)
    OBVIOUS
<1>3. PICK s : s = a \o Slash \o b
    OBVIOUS
<1>4. /\ s \in Seq(S) /\ Len(s) = A + 1 + B
      /\ \A p \in 1..A : s[p] = a[p]
      /\ s[A + 1] = "/"
      /\ \A p \in 1..B : s[A + 1 + p] = b[p]
  <2>1. Slash \in Seq(S) /\ Len(Slash) = 1 /\ Slash[1] = "/"
        BY DEF Slash
  <2>2. PICK d \in Seq(S) : d = Slash
        BY <2>1
  <2>3. PICK c \in Seq(S) : c = a \o d
        BY ConcatProperties
  <2>4. /\ Len(c) = Len(a) + Len(d)
        /\ \A p \in 1..Len(a) : c[p] = a[p]
        /\ \A p \in 1..Len(d) : c[Len(a) + p] = d[p]
        BY <2>3, ConcatElements
  <2>5. Len(c) = A + 1 /\ (\A p \in 1..A : c[p] = a[p]) /\ c[A + 1] = "/"
    <3>1. Len(d) = 1 /\ d[1] = "/"
          BY <2>1, <2>2
    <3>2. Len(c) = A + 1 /\ (\A p \in 1..A : c[p] = a[p])
          BY <1>1, <2>4, <3>1
    <3>3. 1 \in 1..Len(d)
          BY <3>1
    <3>4. c[A + 1] = d[1]
          BY <1>1, <2>4, <3>3
    <3>5. QED
          BY <3>1, <3>2, <3>4
  <2>6. PICK e \in Seq(S) : e = c \o b
        BY ConcatProperties
  <2>7. /\ Len(e) = Len(c) + Len(b)
        /\ \A p \in 1..Len(c) : e[p] = c[p]
        /\ \A p \in 1..Len(b) : e[Len(c) + p] = b[p]
        BY <2>6, ConcatElements
  <2>8. /\ Len(e) = A + 1 + B
        /\ \A p \in 1..(A + 1) : e[p] = c[p]
        /\ \A p \in 1..B : e[A + 1 + p] = b[p]
        BY <1>2, <2>5, <2>7
  <2>9. s = e
        BY <1>3, <2>2, <2>3, <2>6
  <2>10. QED
        BY <2>5, <2>8, <2>9
<1>5. PICK P \in Seq(Seq(S)) : P = Components(a)
    BY ComponentsTyped
<1>6. PICK Q \in Seq(Seq(S)) : Q = Components(b)
    BY ComponentsTyped
<1>7. PICK m \in Nat : m = Len(P)
    OBVIOUS
<1>8. PICK n \in Nat : n = Len(Q)
    OBVIOUS
<1>9. PICK f : CutInto(a, "/", f, P)
    BY <1>5, ComponentsTyped
<1>10. PICK g : CutInto(b, "/", g, Q)
    BY <1>6, ComponentsTyped
<1>11. /\ m # 0 /\ f \in Seq(Nat) /\ Len(f) = m + 1 /\ f[1] = 0 /\ f[m + 1] = A + 1
       /\ \A j \in 1..(m + 1) : f[j] \in Nat
       /\ \A i, j \in 1..(m + 1) : i < j => f[i] < f[j]
       /\ \A p \in 1..A : a[p] = "/" <=> \E j \in 2..m : f[j] = p
  <2>1. CutsAtEnds(a, "/", f, m)
        BY <1>7, <1>9, CutEnds
  <2>2. QED
        BY <1>1, <2>1 DEF CutsAtEnds
<1>12. /\ n # 0 /\ g \in Seq(Nat) /\ Len(g) = n + 1 /\ g[1] = 0 /\ g[n + 1] = B + 1
       /\ \A j \in 1..(n + 1) : g[j] \in Nat
       /\ \A i, j \in 1..(n + 1) : i < j => g[i] < g[j]
       /\ \A p \in 1..B : b[p] = "/" <=> \E j \in 2..n : g[j] = p
  <2>1. CutsAtEnds(b, "/", g, n)
        BY <1>8, <1>10, CutEnds
  <2>2. QED
        BY <1>2, <2>1 DEF CutsAtEnds
<1>13. /\ \A j \in 1..m : P[j] = SubSeq(a, f[j] + 1, f[j + 1] - 1)
       /\ \A j \in 1..n : Q[j] = SubSeq(b, g[j] + 1, g[j + 1] - 1)
    BY <1>7, <1>8, <1>9, <1>10 DEF CutInto
<1>h. PICK h : h = [j \in 1..(m + n + 1) |-> IF j <= m THEN f[j] ELSE A + 1 + g[j - m]]
    OBVIOUS
<1>14. /\ \A j \in 1..m : h[j] = f[j]
       /\ \A j \in 1..(n + 1) : h[m + j] = A + 1 + g[j]
       /\ h[m + 1] = f[m + 1]
       /\ \A j \in 1..(m + n + 1) : h[j] \in Nat
       /\ h \in Seq(Nat) /\ Len(h) = m + n + 1
  <2>1. \A j \in 1..m : j \in 1..(m + n + 1) /\ j <= m
        OBVIOUS
  <2>2. \A j \in 1..m : h[j] = f[j]
        BY <1>h, <2>1
  <2>3. ASSUME NEW j \in 1..(n + 1) PROVE h[m + j] = A + 1 + g[j]
    <3>1. m + j \in 1..(m + n + 1) /\ ~(m + j <= m) /\ (m + j) - m = j
          OBVIOUS
    <3>2. QED
          BY <1>h, <3>1
  <2>4. h[m + 1] = f[m + 1]
        BY <1>11, <1>12, <2>3
  <2>5. \A j \in 1..(m + 1) : f[j] \in Nat
        BY <1>11
  <2>6. \A j \in 1..(n + 1) : g[j] \in Nat
        BY <1>12
  <2>7. ASSUME NEW j \in 1..(m + n + 1) PROVE h[j] \in Nat
    <3>1. CASE j <= m
          BY <2>2, <2>5, <3>1
    <3>2. CASE ~(j <= m)
      <4>1. j - m \in 1..(n + 1)
            BY <3>2
      <4>2. h[j] = A + 1 + g[j - m]
            BY <1>h, <3>2
      <4>3. QED
            BY <2>6, <4>1, <4>2
    <3>3. QED
          BY <3>1, <3>2
  <2>8. h \in Seq(Nat) /\ Len(h) = m + n + 1
    <3>1. h \in [1..(m + n + 1) -> Nat]
      <4>1. h = [j \in 1..(m + n + 1) |-> h[j]]
            BY <1>h
      <4>2. QED
            BY <2>7, <4>1
    <3>2. m + n + 1 \in Nat
          OBVIOUS
    <3>3. QED
          BY <3>1, <3>2, LenProperties, SeqDef
  <2>9. QED
        BY <2>2, <2>3, <2>4, <2>7, <2>8
<1>15. Ascending(h, Bounds(s, "/"))
  <2>1. \A i, j \in 1..(m + n + 1) : i < j => h[i] < h[j]
    <3> SUFFICES ASSUME NEW i \in 1..(m + n + 1), NEW j \in 1..(m + n + 1), i < j
                 PROVE  h[i] < h[j]
        OBVIOUS
    <3>1. CASE j <= m + 1
      <4>1. i \in 1..m /\ i \in 1..(m + 1) /\ j \in 1..(m + 1)
            BY <3>1
      <4>2. h[i] = f[i] /\ h[j] = f[j]
        <5>1. CASE j \in 1..m
              BY <1>14, <4>1, <5>1
        <5>2. CASE j = m + 1
              BY <1>14, <4>1, <5>2
        <5>3. QED
              BY <4>1, <5>1, <5>2
      <4>3. QED
            BY <1>11, <4>1, <4>2
    <3>2. CASE i <= m /\ j > m + 1
      <4>1. i \in 1..(m + 1) /\ m + 1 \in 1..(m + 1) /\ i < m + 1 /\ i \in 1..m
            BY <3>2
      <4>2. h[i] < A + 1
            BY <1>11, <1>14, <4>1
      <4>3. PICK k \in 2..(n + 1) : j = m + k
        <5>1. j - m \in 2..(n + 1) /\ j = m + (j - m)
              BY <3>2
        <5>2. QED
              BY <5>1
      <4>4. g[k] \in Nat /\ h[j] = A + 1 + g[k]
        <5>1. k \in 1..(n + 1)
              OBVIOUS
        <5>2. QED
              BY <1>12, <1>14, <4>3, <5>1
      <4>5. h[i] \in Nat
            BY <1>14
      <4>6. QED
            BY <4>2, <4>4, <4>5
    <3>3. CASE i > m
      <4>1. PICK k \in 1..(n + 1) : i = m + k
        <5>1. i - m \in 1..(n + 1) /\ i = m + (i - m)
              BY <3>3
        <5>2. QED
              BY <5>1
      <4>2. PICK l \in 1..(n + 1) : j = m + l
        <5>1. j - m \in 1..(n + 1) /\ j = m + (j - m)
              BY <3>3
        <5>2. QED
              BY <5>1
      <4>3. k < l
            BY <4>1, <4>2
      <4>4. g[k] < g[l] /\ g[k] \in Nat /\ g[l] \in Nat
            BY <1>12, <4>3
      <4>5. h[i] = A + 1 + g[k] /\ h[j] = A + 1 + g[l]
            BY <1>14, <4>1, <4>2
      <4>6. QED
            BY <4>4, <4>5
    <3>4. QED
          BY <3>1, <3>2, <3>3
  <2>2. ASSUME NEW x \in Bounds(s, "/") PROVE \E j \in 1..(m + n + 1) : h[j] = x
    <3>1. x = 0 \/ x = A + 1 + B + 1 \/ (x \in 1..(A + 1 + B) /\ s[x] = "/")
          BY <1>4 DEF Bounds, Marks
    <3>2. CASE x = 0
      <4>1. 1 \in 1..m /\ 1 \in 1..(m + n + 1)
            BY <1>11
      <4>2. QED
            BY <1>11, <1>14, <3>2, <4>1
    <3>3. CASE x = A + 1 + B + 1
      <4>1. n + 1 \in 1..(n + 1) /\ m + (n + 1) \in 1..(m + n + 1)
            OBVIOUS
      <4>2. h[m + (n + 1)] = A + 1 + (B + 1)
            BY <1>12, <1>14, <4>1
      <4>3. QED
            BY <3>3, <4>1, <4>2
    <3>4. CASE x \in 1..A /\ s[x] = "/"
      <4>1. PICK j \in 2..m : f[j] = x
            BY <1>4, <1>11, <3>4
      <4>2. j \in 1..m /\ j \in 1..(m + n + 1)
            OBVIOUS
      <4>3. QED
            BY <1>14, <4>1, <4>2
    <3>5. CASE x = A + 1
      <4>1. m + 1 \in 1..(m + n + 1)
            OBVIOUS
      <4>2. QED
            BY <1>11, <1>14, <3>5, <4>1
    <3>6. CASE x \in (A + 2)..(A + 1 + B) /\ s[x] = "/"
      <4>1. PICK p \in 1..B : x = A + 1 + p
        <5>1. x - (A + 1) \in 1..B /\ x = A + 1 + (x - (A + 1))
              BY <3>6
        <5>2. QED
              BY <5>1
      <4>2. b[p] = "/"
            BY <1>4, <3>6, <4>1
      <4>3. PICK j \in 2..n : g[j] = p
            BY <1>12, <4>2
      <4>4. j \in 1..(n + 1) /\ m + j \in 1..(m + n + 1)
            OBVIOUS
      <4>5. h[m + j] = x
            BY <1>14, <4>1, <4>3, <4>4
      <4>6. QED
            BY <4>4, <4>5
    <3>7. QED
          BY <3>1, <3>2, <3>3, <3>4, <3>5, <3>6
  <2>3. ASSUME NEW j \in 1..(m + n + 1) PROVE h[j] \in Bounds(s, "/")
    <3>0. \A x : x \in Bounds(s, "/") <=>
            x = 0 \/ x = A + 1 + B + 1 \/ (x \in 1..(A + 1 + B) /\ s[x] = "/")
          BY <1>4 DEF Bounds, Marks
    <3>1. CASE j = 1
      <4>1. 1 \in 1..m
            BY <1>11
      <4>2. QED
            BY <1>11, <1>14, <3>0, <3>1, <4>1
    <3>2. CASE j \in 2..m
      <4>1. j \in 1..m /\ j \in 1..(m + 1) /\ 1 \in 1..(m + 1) /\ m + 1 \in 1..(m + 1) /\ 1 < j /\ j < m + 1
            BY <3>2
      <4>2. 0 < f[j] /\ f[j] < A + 1 /\ f[j] \in Nat
            BY <1>11, <4>1
      <4>3. PICK p \in 1..A : f[j] = p
            BY <4>2
      <4>4. s[p] = "/" /\ p \in 1..(A + 1 + B)
        <5>1. a[p] = "/"
              BY <1>11, <3>2, <4>3
        <5>2. s[p] = "/"
              BY <1>4, <5>1
        <5>3. QED
              BY <5>2
      <4>5. QED
            BY <1>14, <3>0, <4>1, <4>3, <4>4
    <3>3. CASE j = m + 1
      <4>1. h[j] = A + 1 /\ A + 1 \in 1..(A + 1 + B)
            BY <1>11, <1>14, <3>3
      <4>2. QED
            BY <1>4, <3>0, <4>1
    <3>4. CASE j \in (m + 2)..(m + n)
      <4>1. PICK k \in 2..n : j = m + k
        <5>1. j - m \in 2..n /\ j = m + (j - m)
              BY <3>4
        <5>2. QED
              BY <5>1
      <4>2. k \in 1..(n + 1) /\ 1 \in 1..(n + 1) /\ n + 1 \in 1..(n + 1) /\ 1 < k /\ k < n + 1
            BY <4>1
      <4>3. 0 < g[k] /\ g[k] < B + 1 /\ g[k] \in Nat
            BY <1>12, <4>2
      <4>4. PICK p \in 1..B : g[k] = p
            BY <4>3
      <4>5. b[p] = "/"
            BY <1>12, <4>4
      <4>6. h[j] = A + 1 + p /\ A + 1 + p \in 1..(A + 1 + B)
        <5>1. h[m + k] = A + 1 + g[k]
              BY <1>14, <4>2
        <5>2. QED
              BY <4>1, <4>4, <5>1
      <4>7. s[A + 1 + p] = "/"
            BY <1>4, <4>5
      <4>8. QED
            BY <3>0, <4>6, <4>7
    <3>5. CASE j = m + n + 1
      <4>1. n + 1 \in 1..(n + 1) /\ j = m + (n + 1)
            BY <3>5
      <4>2. h[m + (n + 1)] = A + 1 + (B + 1)
            BY <1>12, <1>14, <4>1
      <4>3. h[j] = A + 1 + B + 1
            BY <4>1, <4>2
      <4>4. QED
            BY <3>0, <4>3
    <3>6. QED
          BY <3>1, <3>2, <3>3, <3>4, <3>5
  <2>4. Bounds(s, "/") = {h[j] : j \in 1..(m + n + 1)}
        BY <2>2, <2>3
  <2>5. PICK N \in Nat : N = m + n + 1
        OBVIOUS
  <2>6. h \in Seq(Nat) /\ Len(h) = N
        BY <1>14, <2>5
  <2>7. Bounds(s, "/") = {h[j] : j \in 1..N}
        BY <2>4, <2>5
  <2>8. \A i, j \in 1..N : i < j => h[i] < h[j]
        BY <2>1, <2>5
  <2>9. Bounds(s, "/") = {h[j] : j \in 1..Len(h)}
        BY ONLY <2>6, <2>7
  <2>10. \A i, j \in 1..Len(h) : i < j => h[i] < h[j]
        BY ONLY <2>6, <2>8
  <2>11. QED
        BY <2>6, <2>9, <2>10 DEF Ascending
<1>16. PICK parts : parts = P \o Q
    OBVIOUS
<1>17. /\ parts \in Seq(Seq(S)) /\ Len(parts) = m + n
       /\ \A j \in 1..m : parts[j] = P[j]
       /\ \A j \in 1..n : parts[m + j] = Q[j]
  <2>1. /\ parts \in Seq(Seq(S)) /\ Len(parts) = m + n
        /\ \A j \in 1..(m + n) : parts[j] = IF j <= m THEN P[j] ELSE Q[j - m]
        BY <1>5, <1>6, <1>7, <1>8, <1>16, ConcatProperties
  <2>2. ASSUME NEW j \in 1..m PROVE parts[j] = P[j]
        BY <2>1
  <2>3. ASSUME NEW j \in 1..n PROVE parts[m + j] = Q[j]
    <3>1. m + j \in 1..(m + n) /\ ~(m + j <= m) /\ (m + j) - m = j
          OBVIOUS
    <3>2. QED
          BY <2>1, <3>1
  <2>4. QED
        BY <2>1, <2>2, <2>3
<1>18. ASSUME NEW j \in 1..m PROVE P[j] = SubSeq(s, h[j] + 1, h[j + 1] - 1)
  <2>1. j \in 1..(m + 1) /\ j + 1 \in 1..(m + 1) /\ m + 1 \in 1..(m + 1)
        OBVIOUS
  <2>2. h[j] = f[j] /\ h[j + 1] = f[j + 1]
    <3>1. CASE j = m
          BY <1>14, <3>1
    <3>2. CASE j # m
      <4>1. j + 1 \in 1..m
            BY <3>2
      <4>2. QED
            BY <1>14, <4>1
    <3>3. QED
          BY <3>1, <3>2
  <2>3. f[j] \in Nat /\ f[j + 1] \in Nat /\ f[j] < f[j + 1] /\ f[j + 1] <= A + 1
    <3>1. f[j] \in Nat /\ f[j + 1] \in Nat /\ f[j] < f[j + 1]
          BY <1>11, <2>1
    <3>2. CASE j = m
          BY <1>11, <3>1, <3>2
    <3>3. CASE j # m
      <4>1. j + 1 < m + 1
            BY <3>3
      <4>2. f[j + 1] < f[m + 1]
            BY <1>11, <2>1, <4>1
      <4>3. QED
            BY <1>11, <3>1, <4>2
    <3>4. QED
          BY <3>1, <3>2, <3>3
  <2>4. PICK x \in Nat : x = f[j]
        BY <2>3
  <2>5. PICK y \in Nat : y = f[j + 1] - 1
        BY <2>3
  <2>6. x <= y /\ y <= A
        BY <2>3, <2>4, <2>5
  <2>7. Within(a, x, y) /\ Within(s, x, y)
        BY <1>1, <1>4, <2>6 DEF Within
  <2>8. Same(a, x, y, s, x, y)
    <3>1. \A i \in 1..(y - x) : x + i \in 1..A
          BY <2>6
    <3>2. QED
          BY <1>4, <3>1 DEF Same
  <2>9. Slice(a, x, y) = Slice(s, x, y)
        BY <1>4, <2>7, <2>8, SlicesAgree
  <2>10. SubSeq(a, x + 1, y) = SubSeq(s, x + 1, y)
        BY <2>9 DEF Slice
  <2>11. QED
        BY <1>13, <2>2, <2>4, <2>5, <2>10
<1>19. ASSUME NEW j \in 1..n PROVE Q[j] = SubSeq(s, h[m + j] + 1, h[m + j + 1] - 1)
  <2>1. j \in 1..(n + 1) /\ j + 1 \in 1..(n + 1) /\ n + 1 \in 1..(n + 1) /\ m + (j + 1) = m + j + 1
        OBVIOUS
  <2>2. h[m + j] = A + 1 + g[j] /\ h[m + j + 1] = A + 1 + g[j + 1]
        BY <1>14, <2>1
  <2>3. g[j] \in Nat /\ g[j + 1] \in Nat /\ g[j] < g[j + 1] /\ g[j + 1] <= B + 1
    <3>1. g[j] \in Nat /\ g[j + 1] \in Nat /\ g[j] < g[j + 1]
          BY <1>12, <2>1
    <3>2. CASE j = n
          BY <1>12, <3>1, <3>2
    <3>3. CASE j # n
      <4>1. j + 1 < n + 1
            BY <3>3
      <4>2. g[j + 1] < g[n + 1]
            BY <1>12, <2>1, <4>1
      <4>3. QED
            BY <1>12, <3>1, <4>2
    <3>4. QED
          BY <3>1, <3>2, <3>3
  <2>4. PICK x \in Nat : x = g[j]
        BY <2>3
  <2>5. PICK y \in Nat : y = g[j + 1] - 1
        BY <2>3
  <2>6. PICK v \in Nat : v = A + 1 + x
        OBVIOUS
  <2>7. PICK w \in Nat : w = A + 1 + y
        OBVIOUS
  <2>8. x <= y /\ y <= B
        BY <2>3, <2>4, <2>5
  <2>9. Within(b, x, y) /\ Within(s, v, w)
        BY <1>2, <1>4, <2>6, <2>7, <2>8 DEF Within
  <2>10. Same(b, x, y, s, v, w)
    <3>1. ASSUME NEW i \in 1..(y - x) PROVE b[x + i] = s[v + i]
      <4>1. PICK p \in 1..B : p = x + i
            BY <2>8
      <4>2. A + 1 + p = v + i
            BY <2>6, <4>1
      <4>3. s[A + 1 + p] = b[p]
            BY <1>4
      <4>4. QED
            BY <4>1, <4>2, <4>3
    <3>2. y - x = w - v
          BY <2>6, <2>7
    <3>3. QED
          BY <3>1, <3>2 DEF Same
  <2>11. Slice(b, x, y) = Slice(s, v, w)
        BY <1>4, <2>9, <2>10, SlicesAgree
  <2>12. SubSeq(b, x + 1, y) = SubSeq(s, v + 1, w)
        BY <2>11 DEF Slice
  <2>13. v + 1 = h[m + j] + 1 /\ w = h[m + j + 1] - 1
        BY <2>2, <2>3, <2>4, <2>5, <2>6, <2>7, SMTT(60)
  <2>14. QED
        BY <1>13, <2>4, <2>5, <2>12, <2>13
<1>20. CutInto(s, "/", h, parts)
  <2>1. ASSUME NEW j \in 1..(m + n) PROVE parts[j] = SubSeq(s, h[j] + 1, h[j + 1] - 1)
    <3>1. CASE j <= m
      <4>1. j \in 1..m
            BY <3>1
      <4>2. parts[j] = P[j]
            BY <1>17, <4>1
      <4>3. QED
            BY <1>18, <4>1, <4>2
    <3>2. CASE ~(j <= m)
      <4>1. PICK k \in 1..n : j = m + k
        <5>1. j - m \in 1..n /\ j = m + (j - m)
              BY <3>2
        <5>2. QED
              BY <5>1
      <4>2. QED
            BY <1>17, <1>19, <4>1
    <3>3. QED
          BY <3>1, <3>2
  <2>2. QED
        BY <1>14, <1>15, <1>17, <2>1 DEF CutInto
<1>21. parts = [j \in 1..Len(parts) |-> parts[j]] /\ Len(parts) \in Nat
    BY <1>17, LenProperties
<1>22. Components(s) = parts
    BY <1>4, <1>20, <1>21, ComponentsCut
<1>23. QED
    BY <1>3, <1>4, <1>5, <1>6, <1>16, <1>22

\* A path without a slash is one component.
LEMMA ComponentsOfPart ==
  ASSUME NEW S, NEW s \in Seq(S), NoSlash(s)
  PROVE  Components(s) = <<s>>
<1>1. PICK L \in Nat : L = Len(s)
    OBVIOUS
<1>2. PICK f \in Seq(Nat) : f = <<0, L + 1>>
  <2>1. PICK m \in Nat : m = L + 1
        OBVIOUS
  <2>2. <<0, m>> \in Seq(Nat)
        OBVIOUS
  <2>3. QED
        BY <2>1, <2>2
<1>3. Len(f) = 2 /\ f[1] = 0 /\ f[2] = L + 1
    BY <1>2
<1>4. Bounds(s, "/") = {0, L + 1}
    BY <1>1 DEF Bounds, Marks, NoSlash
<1>5. Ascending(f, Bounds(s, "/"))
  <2>1. \A j \in 1..2 : j = 1 \/ j = 2
        OBVIOUS
  <2>2. {f[j] : j \in 1..2} = {0, L + 1}
        BY <1>3, <2>1
  <2>3. \A i, j \in 1..2 : i < j => f[i] < f[j]
        BY <1>3, <2>1
  <2>4. QED
        BY <1>3, <1>4, <2>2, <2>3 DEF Ascending
<1>6. SubSeq(s, 1, L) = s
    BY <1>1, SubSeqFull
<1>7. PICK parts \in Seq(Seq(S)) : parts = <<s>>
  <2>1. <<s>> \in Seq(Seq(S))
        OBVIOUS
  <2>2. QED
        BY <2>1
<1>8. Len(parts) = 1 /\ parts[1] = s
    BY <1>7
<1>9. CutInto(s, "/", f, parts)
  <2>1. Len(f) = Len(parts) + 1
        BY <1>3, <1>8
  <2>2. ASSUME NEW j \in 1..Len(parts) PROVE parts[j] = SubSeq(s, f[j] + 1, f[j + 1] - 1)
    <3>1. j = 1 /\ f[j] + 1 = 1 /\ f[j + 1] - 1 = L
          BY <1>3, <1>8
    <3>2. QED
          BY <1>6, <1>8, <3>1
  <2>3. QED
        BY <1>5, <2>1, <2>2 DEF CutInto
<1>10. parts = [j \in 1..Len(parts) |-> parts[j]] /\ Len(parts) \in Nat
    BY LenProperties
<1>11. Components(s) = parts
    BY <1>9, <1>10, ComponentsCut
<1>12. QED
    BY <1>7, <1>11

\* The beginning of a sequence, one element on.
LEMMA OneElementMore ==
  ASSUME NEW V, NEW s \in Seq(V), NEW k \in Nat, NEW m, m = k + 1, m \in 1..Len(s)
  PROVE  Slice(s, 0, k) \o <<s[m]>> = Slice(s, 0, m)
<1>1. m \in Nat /\ Within(s, 0, k) /\ Within(s, k, m)
    BY DEF Within
<1>2. Slice(s, 0, k) \o Slice(s, k, m) = Slice(s, 0, m)
    BY <1>1, SlicesJoin
<1>3. Slice(s, k, m) = <<s[m]>>
  <2>1. PICK u \in Seq(V) : u = Slice(s, k, m)
        BY <1>1, SliceIs
  <2>2. Len(u) = m - k
        BY <1>1, <2>1, SliceIs
  <2>3. 1 \in 1..(m - k)
        OBVIOUS
  <2>4. u[1] = s[k + 1]
        BY <1>1, <2>1, <2>3, SliceElement
  <2>5. Len(u) = 1 /\ u[1] = s[m]
        BY <2>2, <2>4
  <2>6. u = <<s[m]>>
        BY <2>5
  <2>7. QED
        BY <2>1, <2>6
<1>4. QED
    BY <1>2, <1>3

\* Parts without slashes are the components of what Join makes of them.
LEMMA JoinComponents ==
  ASSUME NEW S, "/" \in S, NEW parts \in Seq(Seq(S)), Len(parts) # 0,
         \A j \in 1..Len(parts) : NoSlash(parts[j])
  PROVE  Join(Slash, parts) \in Seq(S) /\ Components(Join(Slash, parts)) = parts
<1>1. PICK n \in Nat : Len(parts) = n + 1
  <2>1. Len(parts) \in Nat /\ Len(parts) - 1 \in Nat /\ Len(parts) = (Len(parts) - 1) + 1
        OBVIOUS
  <2>2. QED
        BY <2>1
<1>2. PICK rest \in Seq(Seq(S)) : rest = Tail(parts)
  <2>1. parts # <<>>
        BY <1>1
  <2>2. Tail(parts) \in Seq(Seq(S))
        BY <2>1, HeadTailProperties
  <2>3. QED
        BY <2>2
<1>3. Len(rest) = n /\ \A k \in 1..n : rest[k] = parts[k + 1]
    BY <1>1, <1>2, HeadTailProperties
<1>4. PICK first \in Seq(S) : first = parts[1] /\ first = Head(parts)
  <2>1. 1 \in 1..Len(parts) /\ parts # <<>>
        BY <1>1
  <2>2. QED
        BY <2>1, HeadTailProperties
<1>5. DOMAIN rest = 1..n
    BY <1>3
<1>6. Join(Slash, parts) = Folded("join", first, rest, 1..n)[1..n]
  <2>1. parts # <<>>
        BY <1>1
  <2>2. QED
        BY <1>2, <1>4, <1>5, <2>1, JoinIs
<1>7. PICK w : Walk(w, "join", first, rest, n) /\ Join(Slash, parts) = w[n]
  <2>1. PICK w : /\ Walk(w, "join", first, rest, n)
                 /\ Folded("join", first, rest, 1..n)[1..n] = w[n]
        BY FoldedWalk, ZenonT(60)
  <2>2. QED
        BY <1>6, <2>1
<1> DEFINE T == {k \in Nat : k <= n => /\ w[k] \in Seq(S)
                                       /\ Components(w[k]) = Slice(parts, 0, k + 1)}
<1>8. 0 \in T
  <2>0. PICK one \in Nat : one = 0 + 1
        OBVIOUS
  <2>1. one \in 1..Len(parts) /\ 1 \in 1..Len(parts)
        BY <1>1, <2>0
  <2>2. Slice(parts, 0, 0) \o <<parts[1]>> = Slice(parts, 0, one)
    <3>1. Slice(parts, 0, 0) \o <<parts[one]>> = Slice(parts, 0, one)
          BY <2>0, <2>1, OneElementMore
    <3>2. one = 1
          BY <2>0
    <3>3. QED
          BY <3>1, <3>2
  <2>3. Slice(parts, 0, 0) = <<>>
        BY DEF Slice
  <2>4. <<>> \o <<parts[1]>> = <<parts[1]>>
        OBVIOUS
  <2>5. Components(first) = <<parts[1]>>
        BY <1>4, <2>1, ComponentsOfPart
  <2>6. w[0] = first
        BY <1>7 DEF Walk
  <2>7. Components(w[0]) = Slice(parts, 0, 0 + 1)
        BY <2>0, <2>2, <2>3, <2>4, <2>5, <2>6
  <2>8. QED
        BY <2>6, <2>7
<1>9. ASSUME NEW k \in Nat, k \in T PROVE k + 1 \in T
  <2> SUFFICES ASSUME k + 1 <= n
               PROVE  /\ w[k + 1] \in Seq(S)
                      /\ Components(w[k + 1]) = Slice(parts, 0, (k + 1) + 1)
      OBVIOUS
  <2>1. PICK l \in Nat : l = k + 1
        OBVIOUS
  <2>2. PICK m \in Nat : m = l + 1
        OBVIOUS
  <2>3. k <= n /\ l \in 1..n /\ l - 1 = k /\ m \in 1..Len(parts)
        BY <1>1, <2>1, <2>2
  <2>4. w[k] \in Seq(S) /\ Components(w[k]) = Slice(parts, 0, l)
        BY <1>9, <2>1, <2>3
  <2>5. PICK part \in Seq(S) : part = parts[m]
        BY <2>3
  <2>6. rest[l] = part
        BY <1>3, <2>2, <2>3, <2>5
  <2>7. w[l] = w[k] \o Slash \o part
        BY <1>7, <2>3, <2>6 DEF Walk, AddPart
  <2>8. Components(part) = <<part>>
        BY <2>3, <2>5, ComponentsOfPart
  <2>9. PICK before \in Seq(S) : before = w[k]
        BY <2>4
  <2>10. /\ before \o Slash \o part \in Seq(S)
         /\ Components(before \o Slash \o part) = Components(before) \o Components(part)
        BY ComponentsConcat
  <2>11. Slice(parts, 0, l) \o <<parts[m]>> = Slice(parts, 0, m)
        BY <2>2, <2>3, OneElementMore
  <2>12. w[l] \in Seq(S) /\ Components(w[l]) = Slice(parts, 0, m)
        BY <2>4, <2>5, <2>7, <2>8, <2>9, <2>10, <2>11
  <2>13. QED
        BY <2>1, <2>2, <2>12
<1>10. n \in T
  <2> HIDE DEF T
  <2>1. QED
        BY <1>8, <1>9, NatSetInduction
<1>11. Slice(parts, 0, n + 1) = parts
    BY <1>1, SliceAll
<1>12. QED
    BY <1>7, <1>10, <1>11

\* The components of a path that begins with a slash.
LEMMA RootedComponents ==
  ASSUME NEW S, "/" \in S, NEW s \in Seq(S)
  PROVE  Slash \o s \in Seq(S) /\ Components(Slash \o s) = <<<<>>>> \o Components(s)
<1>1. PICK none \in Seq(S) : none = <<>>
    BY EmptySeq
<1>2. Components(none) = <<<<>>>>
  <2>1. NoSlash(none)
        BY <1>1 DEF NoSlash
  <2>2. Components(none) = <<none>>
        BY <2>1, ComponentsOfPart
  <2>3. QED
        BY <1>1, <2>2
<1>3. /\ none \o Slash \o s \in Seq(S)
      /\ Components(none \o Slash \o s) = Components(none) \o Components(s)
    BY ComponentsConcat
<1>4. none \o Slash = Slash
  <2>1. PICK slash \in Seq(S) : slash = Slash
    <3>1. Slash \in Seq(S)
          BY DEF Slash
    <3>2. QED
          BY <3>1
  <2>2. none \o slash = slash
        BY <1>1, ConcatEmptySeq
  <2>3. QED
        BY <2>1, <2>2
<1>5. QED
    BY <1>2, <1>3, <1>4

\* A path that names the root, or the names below it.
Rooted(names) == Slash \o Join(Slash, names)
Plain(names) == \A j \in 1..Len(names) : NoSlash(names[j])

LEMMA CanonicalComponents ==
  ASSUME NEW S, "/" \in S, NEW names \in Seq(Seq(S)), Plain(names)
  PROVE  /\ Rooted(names) \in Seq(S)
         /\ Components(Rooted(names)) = <<<<>>>> \o (IF names = <<>> THEN <<<<>>>> ELSE names)
<1>1. CASE names = <<>>
  <2>1. PICK none \in Seq(S) : none = <<>>
        BY EmptySeq
  <2>2. Join(Slash, names) = none
        BY <1>1, <2>1 DEF Join
  <2>3. NoSlash(none)
        BY <2>1 DEF NoSlash
  <2>4. Components(none) = <<none>>
        BY <2>3, ComponentsOfPart
  <2>5. Slash \o none \in Seq(S) /\ Components(Slash \o none) = <<<<>>>> \o Components(none)
        BY RootedComponents
  <2>6. QED
        BY <1>1, <2>1, <2>2, <2>4, <2>5 DEF Rooted
<1>2. CASE names # <<>>
  <2>1. Len(names) # 0
        BY <1>2
  <2>2. PICK s \in Seq(S) : s = Join(Slash, names) /\ Components(s) = names
        BY <2>1, JoinComponents DEF Plain
  <2>3. Slash \o s \in Seq(S) /\ Components(Slash \o s) = <<<<>>>> \o Components(s)
        BY RootedComponents
  <2>4. QED
        BY <1>2, <2>2, <2>3 DEF Rooted
<1>3. QED
    BY <1>1, <1>2

\* The directory of a path, and the components of the rules in it.
Listed(root, names) == <<root>> \o (IF names = <<>> THEN <<root>> ELSE names)
Above(names) == IF names = <<>> THEN <<>> ELSE Front(names)
RulesBeside(names) == <<<<>>>> \o Above(names) \o <<<<".htaccess">>>>

\* All but the last of the components of a path are the root and its directory.
LEMMA FrontOfRooted ==
  ASSUME NEW V, NEW root \in V, NEW names \in Seq(V), NEW parts, parts = Listed(root, names)
  PROVE  /\ parts \in Seq(V) /\ Len(parts) >= 2
         /\ Above(names) \in Seq(V)
         /\ Front(parts) = <<root>> \o Above(names)
<1>1. PICK top \in Seq(V) : top = <<root>>
  <2>1. <<root>> \in Seq(V)
        OBVIOUS
  <2>2. QED
        BY <2>1
<1>2. Len(top) = 1 /\ top[1] = root
    BY <1>1
<1>3. parts = <<root>> \o (IF names = <<>> THEN <<root>> ELSE names)
    BY DEF Listed
<1>4. CASE names = <<>>
  <2>1. PICK whole \in Seq(V) : whole = top \o top
        BY ConcatProperties
  <2>2. /\ Len(whole) = Len(top) + Len(top)
        /\ \A i \in 1..Len(top) : whole[i] = top[i]
        BY <2>1, ConcatElements
  <2>3. Len(whole) = 2 /\ whole[1] = root
        BY <1>2, <2>2
  <2>4. parts = whole
        BY <1>1, <1>3, <1>4, <2>1
  <2>5. PICK k \in Nat : k = 1
        OBVIOUS
  <2>6. Within(whole, 0, k)
        BY <2>3, <2>5 DEF Within
  <2>7. PICK front \in Seq(V) : front = Slice(whole, 0, k)
        BY <2>6, SliceIs
  <2>8. Len(front) = k - 0
        BY <2>6, <2>7, SliceIs
  <2>9. ASSUME NEW i \in 1..(k - 0) PROVE front[i] = whole[0 + i]
        BY <2>6, <2>7, SliceElement
  <2>10. front = top
    <3>1. 1 \in 1..(k - 0) /\ 0 + 1 = 1
          BY <2>5
    <3>2. front[1] = whole[1]
          BY <2>9, <3>1
    <3>3. Len(front) = 1 /\ front[1] = root
          BY <2>3, <2>5, <2>8, <3>2
    <3>4. Len(front) = Len(top) /\ \A i \in 1..Len(front) : front[i] = top[i]
          BY <1>2, <3>3
    <3>5. QED
          BY <3>4, SeqEqual
  <2>11. Front(parts) = front
    <3>1. Len(parts) - 1 = k /\ 0 + 1 = 1
          BY <2>3, <2>4, <2>5
    <3>2. QED
          BY <2>4, <2>7, <3>1 DEF Front, Slice
  <2>12. Above(names) = <<>> /\ top \o <<>> = top
        BY <1>4, ConcatEmptySeq DEF Above
  <2>13. <<>> \in Seq(V)
        BY EmptySeq
  <2>14. QED
        BY <1>1, <2>3, <2>4, <2>10, <2>11, <2>12, <2>13
<1>5. CASE names # <<>>
  <2>1. PICK n \in Nat : n = Len(names) /\ n # 0
        BY <1>5
  <2>2. PICK whole \in Seq(V) : whole = top \o names
        BY ConcatProperties
  <2>3. /\ Len(whole) = Len(top) + Len(names)
        /\ \A i \in 1..Len(top) : whole[i] = top[i]
        /\ \A i \in 1..Len(names) : whole[Len(top) + i] = names[i]
        BY <2>2, ConcatElements
  <2>4. Len(whole) = 1 + n /\ whole[1] = root /\ \A i \in 1..n : whole[1 + i] = names[i]
        BY <1>2, <2>1, <2>3
  <2>5. PICK k \in Nat : k = n - 1
        BY <2>1
  <2>6. Within(names, 0, k) /\ Within(whole, 0, n)
        BY <2>1, <2>4, <2>5 DEF Within
  <2>7. PICK most \in Seq(V) : most = Slice(names, 0, k)
        BY <2>6, SliceIs
  <2>8. Len(most) = k - 0
        BY <2>6, <2>7, SliceIs
  <2>9. ASSUME NEW i \in 1..(k - 0) PROVE most[i] = names[0 + i]
        BY <2>6, <2>7, SliceElement
  <2>10. Len(most) = k /\ \A i \in 1..k : most[i] = names[i]
        BY <2>8, <2>9
  <2>11. PICK front \in Seq(V) : front = Slice(whole, 0, n)
        BY <2>6, SliceIs
  <2>12. Len(front) = n - 0
        BY <2>6, <2>11, SliceIs
  <2>13. ASSUME NEW i \in 1..(n - 0) PROVE front[i] = whole[0 + i]
        BY <2>6, <2>11, SliceElement
  <2>14. Len(front) = n /\ \A i \in 1..n : front[i] = whole[i]
        BY <2>12, <2>13
  <2>15. PICK both \in Seq(V) : both = top \o most
        BY ConcatProperties
  <2>16. /\ Len(both) = Len(top) + Len(most)
         /\ \A i \in 1..Len(top) : both[i] = top[i]
         /\ \A i \in 1..Len(most) : both[Len(top) + i] = most[i]
        BY <2>15, ConcatElements
  <2>17. Len(both) = n /\ both[1] = root /\ \A i \in 1..k : both[1 + i] = names[i]
        BY <1>2, <2>1, <2>5, <2>10, <2>16
  <2>18. ASSUME NEW i \in 1..n PROVE front[i] = both[i]
    <3>1. CASE i = 1
          BY <2>4, <2>14, <2>17, <3>1
    <3>2. CASE i # 1
      <4>1. PICK j \in 1..k : i = 1 + j
        <5>1. i - 1 \in 1..k /\ i = 1 + (i - 1)
              BY <2>5, <3>2
        <5>2. QED
              BY <5>1
      <4>2. j \in 1..n
            BY <2>5
      <4>3. QED
            BY <2>4, <2>14, <2>17, <4>1, <4>2
    <3>3. QED
          BY <3>1, <3>2
  <2>19. front = both
        BY <2>14, <2>17, <2>18, SeqEqual
  <2>20. whole = parts
        BY <1>1, <1>3, <1>5, <2>2
  <2>21. Front(parts) = front
        BY <2>4, <2>11, <2>20 DEF Front, Slice
  <2>22. Above(names) = most
        BY <1>5, <2>1, <2>5, <2>7 DEF Above, Front, Slice
  <2>23. QED
        BY <1>1, <2>1, <2>4, <2>15, <2>19, <2>20, <2>21, <2>22
<1>6. QED
    BY <1>4, <1>5

\* The rules for a path are looked for in its directory.
LEMMA RulesComponents ==
  ASSUME NEW S, "/" \in S, ".htaccess" \in S, NEW names \in Seq(Seq(S)), Plain(names)
  PROVE  /\ HtaccessPath(Rooted(names)) \in Seq(S)
         /\ Components(HtaccessPath(Rooted(names))) = RulesBeside(names)
<1>1. PICK s \in Seq(S) : s = Rooted(names)
    BY CanonicalComponents
<1>2. PICK parts \in Seq(Seq(S)) : parts = Components(s)
    BY ComponentsTyped
<1>3. parts = <<<<>>>> \o (IF names = <<>> THEN <<<<>>>> ELSE names)
    BY <1>1, <1>2, CanonicalComponents
<1>4. Split(s, Slash) = parts
    BY <1>2, SplitIsComponents
<1>5. PICK root \in Seq(S) : root = <<>>
    BY EmptySeq
<1>6. parts = Listed(root, names)
    BY <1>3, <1>5 DEF Listed
<1>7. PICK front : front = Front(parts)
    OBVIOUS
<1>8. Len(parts) >= 2 /\ Above(names) \in Seq(Seq(S)) /\ front = <<root>> \o Above(names)
  <2>1. PICK V : V = Seq(S)
        OBVIOUS
  <2>2. root \in V /\ names \in Seq(V)
        BY <2>1
  <2>3. /\ Len(parts) >= 2 /\ Above(names) \in Seq(V)
        /\ Front(parts) = <<root>> \o Above(names)
        BY <1>6, <2>2, FrontOfRooted, SMTT(60)
  <2>4. QED
        BY <1>7, <2>1, <2>3
<1>9. PICK top \in Seq(Seq(S)) : top = <<root>>
  <2>1. <<root>> \in Seq(Seq(S))
        OBVIOUS
  <2>2. QED
        BY <2>1
<1>10. PICK above \in Seq(Seq(S)) : above = Above(names)
    BY <1>8
<1>11. PICK most \in Seq(Seq(S)) : most = top \o above
    BY ConcatProperties
<1>12. most = front
    BY <1>8, <1>9, <1>10, <1>11
<1>13. PICK rules \in Seq(S) : rules = <<".htaccess">>
  <2>1. <<".htaccess">> \in Seq(S)
        OBVIOUS
  <2>2. QED
        BY <2>1
<1>14. PICK last \in Seq(Seq(S)) : last = <<rules>>
  <2>1. <<rules>> \in Seq(Seq(S))
        OBVIOUS
  <2>2. QED
        BY <2>1
<1>15. PICK all \in Seq(Seq(S)) : all = most \o last
    BY ConcatProperties
<1>16. Append(front, rules) = all
    BY <1>12, <1>14, <1>15, AppendIsConcat
<1>17. all = RulesBeside(names)
    BY <1>5, <1>9, <1>10, <1>11, <1>13, <1>14, <1>15 DEF RulesBeside
<1>18. Len(all) # 0 /\ Plain(all)
  <2>1. /\ Len(all) = Len(most) + Len(last)
        /\ \A i \in 1..Len(most) : all[i] = most[i]
        /\ \A i \in 1..Len(last) : all[Len(most) + i] = last[i]
        BY <1>15, ConcatElements
  <2>2. Len(last) = 1 /\ last[1] = rules
        BY <1>14
  <2>3. NoSlash(rules)
    <3>1. Len(rules) = 1 /\ rules[1] = ".htaccess"
          BY <1>13
    <3>2. QED
          BY <3>1 DEF NoSlash
  <2>4. PICK l \in Nat : l = Len(most)
        OBVIOUS
  <2>5. PICK n \in Nat : n = Len(parts) /\ n >= 2
        BY <1>8
  <2>6. \A i \in 1..l : NoSlash(most[i])
    <3>1. Len(front) = n - 1 /\ \A i \in 1..(n - 1) : front[i] = parts[i]
      <4>0. n - 1 \in Nat
            BY <2>5
      <4>1. PICK k \in Nat : k = n - 1
            BY <4>0
      <4>2. Within(parts, 0, k)
            BY <2>5, <4>1 DEF Within
      <4>3. front = Slice(parts, 0, k)
        <5>1. Len(parts) - 1 = k /\ 0 + 1 = 1
              BY <2>5, <4>1
        <5>2. QED
              BY <1>7, <5>1 DEF Front, Slice
      <4>4. Len(front) = k - 0
            BY <4>2, <4>3, SliceIs
      <4>5. ASSUME NEW i \in 1..(k - 0) PROVE front[i] = parts[0 + i]
            BY <4>2, <4>3, SliceElement
      <4>6. QED
            BY <4>1, <4>4, <4>5
    <3>2. \A i \in 1..n : NoSlash(parts[i])
      <4>1. \A i \in 1..Len(Components(s)) : NoSlash(Components(s)[i])
            BY ComponentsTyped
      <4>2. QED
            BY <1>2, <2>5, <4>1
    <3>3. QED
      <4>1. l = n - 1
            BY <1>12, <2>4, <3>1
      <4>2. ASSUME NEW i \in 1..l PROVE NoSlash(most[i])
        <5>1. i \in 1..(n - 1) /\ i \in 1..n
              BY <4>1
        <5>2. most[i] = parts[i]
              BY <1>12, <3>1, <5>1
        <5>3. QED
              BY <3>2, <5>1, <5>2
      <4>3. QED
            BY <4>2
  <2>7. ASSUME NEW i \in 1..(l + 1) PROVE NoSlash(all[i])
    <3>1. CASE i \in 1..l
          BY <2>1, <2>4, <2>6, <3>1
    <3>2. CASE i = l + 1
      <4>1. 1 \in 1..Len(last)
            BY <2>2
      <4>2. all[l + 1] = last[1]
            BY <2>1, <2>4, <4>1
      <4>3. QED
            BY <2>2, <2>3, <3>2, <4>2
    <3>3. QED
          BY <3>1, <3>2
  <2>8. Len(all) = l + 1
        BY <2>1, <2>2, <2>4
  <2>9. QED
        BY <2>7, <2>8 DEF Plain
<1>19. HtaccessPath(s) = Join(Slash, all)
  <2>1. ~(Len(parts) < 2)
        BY <1>8
  <2>2. QED
        BY <1>4, <1>7, <1>13, <1>16, <2>1 DEF HtaccessPath
<1>20. Join(Slash, all) \in Seq(S) /\ Components(Join(Slash, all)) = all
    BY <1>18, JoinComponents DEF Plain
<1>21. QED
    BY <1>1, <1>17, <1>19, <1>20

\* Below the root, one name after the other.
Down(touched) ==
  touched[1] = <<>> /\ \A k \in 2..Len(touched) : touched[k] \notin {<<>>, Here, Up}

\* Names are all there is in these lists of components, after the root.
LEMMA NamesLeadDown ==
  ASSUME NEW V, <<>> \in V, NEW names \in Seq(V), \A j \in 1..Len(names) : IsName(names[j])
  PROVE  Down(<<<<>>>> \o names)
<1>1. PICK top \in Seq(V) : top = <<<<>>>>
  <2>1. PICK root \in V : root = <<>>
        OBVIOUS
  <2>2. <<root>> \in Seq(V)
        OBVIOUS
  <2>3. QED
        BY <2>1, <2>2
<1>2. Len(top) = 1 /\ top[1] = <<>>
    BY <1>1
<1>3. PICK all \in Seq(V) : all = top \o names
    BY ConcatProperties
<1>4. /\ Len(all) = Len(top) + Len(names)
      /\ \A i \in 1..Len(top) : all[i] = top[i]
      /\ \A i \in 1..Len(names) : all[Len(top) + i] = names[i]
    BY <1>3, ConcatElements
<1>5. PICK n \in Nat : n = Len(names)
    OBVIOUS
<1>6. Len(all) = 1 + n /\ all[1] = <<>> /\ \A i \in 1..n : all[1 + i] = names[i]
    BY <1>2, <1>4, <1>5
<1>7. ASSUME NEW k \in 2..Len(all) PROVE all[k] \notin {<<>>, Here, Up}
  <2>1. PICK j \in 1..n : k = 1 + j
    <3>1. k - 1 \in 1..n /\ k = 1 + (k - 1)
          BY <1>6
    <3>2. QED
          BY <3>1
  <2>2. IsName(names[j])
        BY <1>5
  <2>3. QED
        BY <1>6, <2>1, <2>2 DEF IsName
<1>8. QED
    BY <1>1, <1>3, <1>6, <1>7 DEF Down

\* The directory of the names, and the rules in it, lead down too.
LEMMA RulesLeadDown ==
  ASSUME NEW V, <<>> \in V, <<".htaccess">> \in V, NEW names \in Seq(V),
         \A j \in 1..Len(names) : IsName(names[j])
  PROVE  Down(RulesBeside(names))
<1>1. PICK n \in Nat : n = Len(names)
    OBVIOUS
<1>2. /\ Above(names) \in Seq(V)
      /\ \A j \in 1..Len(Above(names)) : IsName(Above(names)[j])
  <2>1. CASE names = <<>>
    <3>1. Above(names) = <<>>
          BY <2>1 DEF Above
    <3>2. QED
          BY <3>1, EmptySeq
  <2>2. CASE names # <<>>
    <3>1. n - 1 \in Nat
          BY <1>1, <2>2
    <3>2. PICK k \in Nat : k = n - 1
          BY <3>1
    <3>3. Within(names, 0, k)
          BY <1>1, <3>2 DEF Within
    <3>4. PICK most \in Seq(V) : most = Slice(names, 0, k)
          BY <3>3, SliceIs
    <3>5. Len(most) = k - 0
          BY <3>3, <3>4, SliceIs
    <3>6. ASSUME NEW i \in 1..(k - 0) PROVE most[i] = names[0 + i]
          BY <3>3, <3>4, SliceElement
    <3>7. Above(names) = most
      <4>1. Len(names) - 1 = k /\ 0 + 1 = 1
            BY <1>1, <3>2
      <4>2. QED
            BY <2>2, <3>4, <4>1 DEF Above, Front, Slice
    <3>8. ASSUME NEW i \in 1..Len(most) PROVE IsName(most[i])
      <4>1. i \in 1..(k - 0) /\ i \in 1..Len(names) /\ 0 + i = i
            BY <1>1, <3>2, <3>5
      <4>2. most[i] = names[i]
            BY <3>6, <4>1
      <4>3. QED
            BY <4>1, <4>2
    <3>9. QED
          BY <3>7, <3>8
  <2>3. QED
        BY <2>1, <2>2
<1>3. PICK above \in Seq(V) : above = Above(names) /\ \A j \in 1..Len(above) : IsName(above[j])
    BY <1>2
<1>4. PICK last \in Seq(V) : last = <<<<".htaccess">>>>
  <2>1. PICK rules \in V : rules = <<".htaccess">>
        OBVIOUS
  <2>2. <<rules>> \in Seq(V)
        OBVIOUS
  <2>3. QED
        BY <2>1, <2>2
<1>5. PICK top \in Seq(V) : top = <<<<>>>>
  <2>1. PICK root \in V : root = <<>>
        OBVIOUS
  <2>2. <<root>> \in Seq(V)
        OBVIOUS
  <2>3. QED
        BY <2>1, <2>2
<1>6. PICK low \in Seq(V) : low = above \o last
    BY ConcatProperties
<1>7. \A j \in 1..Len(low) : IsName(low[j])
  <2>1. /\ Len(low) = Len(above) + Len(last)
        /\ \A i \in 1..Len(above) : low[i] = above[i]
        /\ \A i \in 1..Len(last) : low[Len(above) + i] = last[i]
        BY <1>6, ConcatElements
  <2>2. Len(last) = 1 /\ last[1] = <<".htaccess">>
        BY <1>4
  <2>3. PICK l \in Nat : l = Len(above)
        OBVIOUS
  <2>4. IsName(<<".htaccess">>)
        BY DEF IsName, Here, Up
  <2>5. 1 \in 1..Len(last)
        BY <2>2
  <2>6. low[l + 1] = <<".htaccess">>
        BY <2>1, <2>2, <2>3, <2>5
  <2>7. ASSUME NEW i \in 1..(l + 1) PROVE IsName(low[i])
    <3>1. CASE i = l + 1
          BY <2>4, <2>6, <3>1
    <3>2. CASE i # l + 1
      <4>1. i \in 1..Len(above)
            BY <2>3, <3>2
      <4>2. QED
            BY <1>3, <2>1, <4>1
    <3>3. QED
          BY <3>1, <3>2
  <2>8. QED
        BY <2>1, <2>2, <2>3, <2>7
<1>8. Down(<<<<>>>> \o low)
    BY <1>7, NamesLeadDown
<1>9. (top \o above) \o last = top \o (above \o last)
    BY ConcatAssociative, SMTT(60)
<1>10. QED
    BY <1>3, <1>4, <1>5, <1>6, <1>8, <1>9 DEF RulesBeside

-----------------------------------------------------------------------------
(* The lines of a frame.                                                   *)

\* Where a line ends, and that its ends do not overlap.
LEMMA OccursCRLF ==
  ASSUME NEW S, NEW s \in Seq(S), NEW p
  PROVE  Occurs(s, CRLF, p) <=> p \in 0..(Len(s) - 2) /\ s[p + 1] = "\r" /\ s[p + 2] = "\n"
<1>1. PICK L \in Nat : L = Len(s)
    OBVIOUS
<1>2. ASSUME p \in 0..(L - 2)
      PROVE  SubSeq(s, p + 1, p + 2) = CRLF <=> s[p + 1] = "\r" /\ s[p + 2] = "\n"
  <2>1. PICK q \in Nat : q = p + 2 /\ q - p = 2
        BY <1>2
  <2>2. Within(s, p, q) /\ p \in Nat /\ 1 \in 1..(q - p) /\ 2 \in 1..(q - p)
        BY <1>1, <1>2, <2>1 DEF Within
  <2>3. PICK t \in Seq(S) : t = Slice(s, p, q)
        BY <2>2, SliceIs
  <2>4. Len(t) = q - p
        BY <2>2, <2>3, SliceIs
  <2>5. t[1] = s[p + 1]
        BY <2>2, <2>3, SliceElement
  <2>6. t[2] = s[p + 2]
        BY <2>2, <2>3, SliceElement
  <2>7. t = <<s[p + 1], s[p + 2]>>
        BY <2>1, <2>4, <2>5, <2>6
  <2>8. SubSeq(s, p + 1, p + 2) = t
        BY <2>1, <2>3 DEF Slice
  <2>9. QED
        BY <2>7, <2>8 DEF CRLF
<1>3. Len(CRLF) = 2
    BY DEF CRLF
<1>4. QED
    BY <1>1, <1>2, <1>3 DEF Occurs

\* No end of a line begins within another.
LEMMA CRLFSeparates ==
  ASSUME NEW S, NEW s \in Seq(S)
  PROVE  /\ Separates(s, CRLF) /\ Begins(s, CRLF, Len(s)) = LineBegins(s)
         /\ LineEnds(s) = {p \in Nat : Occurs(s, CRLF, p)} \cup {Len(s)}
<1>1. PICK L \in Nat : L = Len(s)
    OBVIOUS
<1>2. CRLF # <<>> /\ Len(CRLF) = 2
    BY DEF CRLF
<1>3. \A p : Occurs(s, CRLF, p) <=> p \in 0..(L - 2) /\ s[p + 1] = "\r" /\ s[p + 2] = "\n"
    BY <1>1, OccursCRLF
<1>4. Separates(s, CRLF)
  <2>1. ASSUME NEW p, NEW q, Occurs(s, CRLF, p), Occurs(s, CRLF, q), p < q
        PROVE  p + 2 <= q
    <3>1. p \in 0..(L - 2) /\ q \in 0..(L - 2) /\ s[p + 2] = "\n" /\ s[q + 1] = "\r"
          BY <1>3, <2>1
    <3>2. q # p + 1
      <4>1. q = p + 1 => s[p + 2] = s[q + 1]
            BY <3>1
      <4>2. QED
            BY <3>1, <4>1
    <3>3. QED
          BY <2>1, <3>1, <3>2
  <2>2. QED
        BY <1>2, <2>1 DEF Separates
<1>5. LineEnds(s) = {p \in Nat : Occurs(s, CRLF, p)} \cup {L}
  <2>1. LineEnds(s) = {p \in 0..(L - 2) : SubSeq(s, p + 1, p + 2) = CRLF} \cup {L}
        BY <1>1 DEF LineEnds
  <2>2. {p \in 0..(L - 2) : SubSeq(s, p + 1, p + 2) = CRLF} = {p \in Nat : Occurs(s, CRLF, p)}
        BY <1>1, <1>2 DEF Occurs
  <2>3. QED
        BY <2>1, <2>2
<1>6. \A p \in Nat : Occurs(s, CRLF, p) => p + 2 <= L /\ p # L
    BY <1>3
<1>7. LineBegins(s) = {0} \cup {p + 2 : p \in {q \in Nat : Occurs(s, CRLF, q)}}
    BY <1>1, <1>5, <1>6 DEF LineBegins
<1>8. {q \in Nat : Occurs(s, CRLF, q)} = {q \in 0..L : Occurs(s, CRLF, q) /\ q + 2 <= L}
    BY <1>6
<1>9. Begins(s, CRLF, L) = LineBegins(s)
    BY <1>2, <1>7, <1>8 DEF Begins
<1>10. QED
    BY <1>1, <1>4, <1>5, <1>9

\* A line ends at the first end behind its beginning.
LEMMA EndOfLine ==
  ASSUME NEW S, NEW s \in Seq(S), NEW b \in 0..Len(s)
  PROVE  /\ EndOf(s, b) = Find(s, CRLF, b)
         /\ EndOf(s, b) \in b..Len(s)
         /\ EndOf(s, b) # Len(s) => Occurs(s, CRLF, EndOf(s, b))
<1>1. PICK L \in Nat : L = Len(s)
    OBVIOUS
<1>2. PICK V : CRLF \in Seq(V) /\ CRLF # <<>>
  <2>1. CRLF \in Seq({"\r", "\n"}) /\ CRLF # <<>>
        BY DEF CRLF
  <2>2. QED
        BY <2>1
<1>3. PICK sep \in Seq(V) : sep = CRLF /\ sep # <<>>
    BY <1>2
<1>4. PICK end : end = Find(s, sep, b)
    OBVIOUS
<1>5. \/ /\ end = Len(s)
         /\ \A p : Occurs(s, sep, p) => p < b
      \/ /\ end \in 0..Len(s) /\ end < Len(s) /\ b <= end /\ Occurs(s, sep, end)
         /\ \A p : Occurs(s, sep, p) /\ p < end => p < b
    BY <1>3, <1>4, FindNext
<1>6. LineEnds(s) = {p \in Nat : Occurs(s, sep, p)} \cup {L}
    BY <1>1, <1>3, CRLFSeparates
<1>7. PICK E : E = {p \in LineEnds(s) : p >= b}
    OBVIOUS
<1>8. E \in SUBSET Nat /\ L \in E
    BY <1>1, <1>6, <1>7
<1>9. Min(E) \in E /\ \A m \in E : Min(E) <= m
    BY <1>8, MinIsLeast
<1>10. PICK least \in Nat : least = Min(E)
    BY <1>8, <1>9
<1>11. least \in E /\ \A m \in E : least <= m
    BY <1>9, <1>10
<1>12. least \in b..L /\ (least # L => Occurs(s, sep, least))
  <2>1. least \in LineEnds(s) /\ least >= b /\ least <= L
        BY <1>7, <1>8, <1>11
  <2>2. QED
        BY <1>1, <1>6, <2>1
<1>13. end \in E
    BY <1>1, <1>5, <1>6, <1>7, <1>8
<1>14. least <= end
    BY <1>11, <1>13
<1>15. least = end
  <2>1. CASE least # L /\ least < end
    <3>1. Occurs(s, sep, least)
          BY <1>12, <2>1
    <3>2. least < b
          BY <1>5, <2>1, <3>1
    <3>3. QED
          BY <1>12, <3>2
  <2>2. CASE ~(least # L /\ least < end)
    <3>1. end \in Nat /\ end <= L
          BY <1>1, <1>5
    <3>2. QED
          BY <1>14, <2>2, <3>1
  <2>3. QED
        BY <2>1, <2>2
<1>16. EndOf(s, b) = least
    BY <1>7, <1>10 DEF EndOf
<1>17. QED
    BY <1>1, <1>3, <1>4, <1>12, <1>15, <1>16

\* f lists where the lines of s begin, and lines what is between there and their ends.
LinesAt(s, f, lines) ==
  /\ Len(f) = Len(lines) /\ Len(lines) # 0 /\ f[1] = 0
  /\ LineBegins(s) \ {0} = {f[j] : j \in 2..Len(lines)}
  /\ \A j \in 1..Len(lines) : f[j] \in 0..Len(s) /\ lines[j] = SubSeq(s, f[j] + 1, EndOf(s, f[j]))

\* Split cuts a frame into its lines.
LEMMA SplitLines ==
  ASSUME NEW S, NEW s \in Seq(S)
  PROVE  \E f : LinesAt(s, f, Split(s, CRLF))
<1>1. PICK L \in Nat : L = Len(s)
    OBVIOUS
<1>2. PICK V : CRLF \in Seq(V)
  <2>1. CRLF \in Seq({"\r", "\n"})
        BY DEF CRLF
  <2>2. QED
        BY <2>1
<1>3. PICK sep \in Seq(V) : sep = CRLF
    BY <1>2
<1>4. PICK lines : lines = Split(s, sep)
    OBVIOUS
<1>5. PICK n \in Nat : n = Len(lines) /\ n # 0
  <2>1. lines \in Seq(Seq(S)) /\ Len(lines) # 0
        BY <1>1, <1>4, SplitNTyped DEF Split
  <2>2. QED
        BY <2>1
<1>6. Separates(s, sep) /\ Begins(s, sep, L) = LineBegins(s)
    BY <1>1, <1>3, CRLFSeparates
<1>7. PICK f : CutWhere(s, sep, f, lines)
    BY <1>4, <1>6, SplitPieces
<1>8. /\ Ascending(f, LineBegins(s)) /\ Len(f) = n
      /\ \A j \in 1..n : lines[j] = PieceAt(s, sep, f[j])
    BY <1>1, <1>5, <1>6, <1>7 DEF CutWhere
<1>9. /\ LineBegins(s) = {f[j] : j \in 1..n} /\ f \in Seq(Nat)
      /\ \A i, j \in 1..n : i < j => f[i] < f[j]
    BY <1>8 DEF Ascending
<1>10. \A b \in LineBegins(s) : b \in 0..L
    BY <1>1, <1>6 DEF Begins
<1>11. \A j \in 1..n : f[j] \in 0..L
    BY <1>9, <1>10
<1>12. f[1] = 0
  <2>1. 0 \in LineBegins(s)
        BY DEF LineBegins
  <2>2. PICK i \in 1..n : f[i] = 0
        BY <1>9, <2>1
  <2>3. 1 \in 1..n /\ (i = 1 \/ 1 < i)
        BY <1>5
  <2>4. ~(1 < i)
    <3>1. 1 < i => f[1] < f[i]
          BY <1>9, <2>3
    <3>2. f[1] \in 0..L
          BY <1>11, <2>3
    <3>3. QED
          BY <2>2, <3>1, <3>2
  <2>5. QED
        BY <2>2, <2>3, <2>4
<1>13. LineBegins(s) \ {0} = {f[j] : j \in 2..n}
  <2>1. ASSUME NEW j \in 2..n PROVE f[j] # 0 /\ f[j] \in LineBegins(s)
    <3>1. 1 \in 1..n /\ j \in 1..n /\ 1 < j
          BY <1>5
    <3>2. f[1] < f[j] /\ f[j] \in LineBegins(s)
          BY <1>9, <3>1
    <3>3. QED
          BY <1>12, <3>2
  <2>2. ASSUME NEW b \in LineBegins(s), b # 0 PROVE \E j \in 2..n : b = f[j]
    <3>1. PICK j \in 1..n : b = f[j]
          BY <1>9
    <3>2. j # 1
          BY <1>12, <2>2, <3>1
    <3>3. QED
          BY <3>1, <3>2
  <2>3. QED
        BY <2>1, <2>2
<1>14. ASSUME NEW j \in 1..n
       PROVE  lines[j] = SubSeq(s, f[j] + 1, EndOf(s, f[j]))
  <2>1. PICK b \in 0..Len(s) : b = f[j]
        BY <1>1, <1>11
  <2>2. EndOf(s, b) = Find(s, sep, b)
        BY <1>3, EndOfLine
  <2>3. lines[j] = PieceAt(s, sep, b)
        BY <1>8, <2>1
  <2>4. QED
        BY <2>1, <2>2, <2>3 DEF PieceAt
<1>15. LinesAt(s, f, lines)
    BY <1>1, <1>5, <1>8, <1>11, <1>12, <1>13, <1>14 DEF LinesAt
<1>16. QED
    BY <1>3, <1>4, <1>15

-----------------------------------------------------------------------------
(* What a few cuts at a symbol make of a text.                             *)

\* end is where the next c is, at start or later; the length if there is none.
NextSymbol(s, c, start, end) ==
  /\ end \in start..Len(s)
  /\ end < Len(s) => s[end + 1] = c
  /\ \A k \in (start + 1)..end : s[k] # c

\* Find returns it.
LEMMA FindSymbol ==
  ASSUME NEW S, NEW s \in Seq(S), NEW c, NEW start \in 0..Len(s)
  PROVE  NextSymbol(s, c, start, Find(s, <<c>>, start))
<1>1. PICK L \in Nat : L = Len(s)
    OBVIOUS
<1>2. PICK V : <<c>> \in Seq(V)
  <2>1. <<c>> \in Seq({c})
        OBVIOUS
  <2>2. QED
        BY <2>1
<1>3. PICK sep \in Seq(V) : sep = <<c>> /\ sep # <<>>
    BY <1>2
<1>4. PICK end : end = Find(s, sep, start)
    OBVIOUS
<1>5. \/ /\ end = Len(s)
         /\ \A p : Occurs(s, sep, p) => p < start
      \/ /\ end \in 0..Len(s) /\ end < Len(s) /\ start <= end /\ Occurs(s, sep, end)
         /\ \A p : Occurs(s, sep, p) /\ p < end => p < start
    BY <1>3, <1>4, FindNext
<1>6. \A p : Occurs(s, sep, p) <=> p \in 0..(L - 1) /\ s[p + 1] = c
    BY <1>1, <1>3, OccursSymbol
<1>7. end \in start..L /\ (end < L => s[end + 1] = c)
    BY <1>1, <1>5, <1>6
<1>8. ASSUME NEW k \in (start + 1)..end PROVE s[k] # c
  <2>1. PICK p \in 0..(L - 1) : p = k - 1 /\ p + 1 = k /\ p < end /\ p >= start
        BY <1>1, <1>7
  <2>2. s[k] = c => Occurs(s, sep, p)
        BY <1>6, <2>1
  <2>3. Occurs(s, sep, p) => p < start
        BY <1>1, <1>5, <2>1
  <2>4. QED
        BY <2>1, <2>2, <2>3
<1>9. QED
    BY <1>1, <1>3, <1>4, <1>7, <1>8 DEF NextSymbol

\* The rest of a text from start on, cut no more.
LEMMA RestUncut ==
  ASSUME NEW S, NEW s \in Seq(S), NEW V, NEW sep \in Seq(V), NEW n \in Nat,
         NEW start \in 0..Len(s), NEW cuts \in 0..n,
         cuts = 0 \/ ~(EndFrom(s, sep, start) < Len(s))
  PROVE  Rest(s, sep, n)[Spot(start, cuts)] = <<SubSeq(s, start + 1, Len(s))>>
<1>1. PICK end : end = EndFrom(s, sep, start)
    OBVIOUS
<1>2. Rest(s, sep, n)[Spot(start, cuts)] =
        IF end < Len(s) /\ cuts > 0
        THEN <<SubSeq(s, start + 1, end)>> \o Rest(s, sep, n)[Spot(end + Len(sep), cuts - 1)]
        ELSE <<SubSeq(s, start + 1, Len(s))>>
    BY <1>1, RestIs
<1>3. ~(end < Len(s) /\ cuts > 0)
    BY <1>1
<1>4. QED
    BY <1>2, <1>3

\* From start on, the text is cut at end, and goes on from next with one cut less.
CutsOff(s, sep, start, cuts, end, next, left) ==
  /\ end = EndFrom(s, sep, start) /\ end < Len(s) /\ next = end + Len(sep)
  /\ left \in Nat /\ cuts = left + 1
GoesOn(r, s, start, cuts, end, next, left) ==
  r[Spot(start, cuts)] = <<SubSeq(s, start + 1, end)>> \o r[Spot(next, left)]

\* What SplitN makes of a text that is cut off there.
LEMMA RestCut ==
  ASSUME NEW S, NEW s \in Seq(S), NEW V, NEW sep \in Seq(V), NEW n \in Nat,
         NEW start \in 0..Len(s), NEW cuts \in 0..n, NEW end, NEW next, NEW left,
         CutsOff(s, sep, start, cuts, end, next, left)
  PROVE  GoesOn(Rest(s, sep, n), s, start, cuts, end, next, left)
<1>1. PICK e : e = EndFrom(s, sep, start)
    OBVIOUS
<1>2. Rest(s, sep, n)[Spot(start, cuts)] =
        IF e < Len(s) /\ cuts > 0
        THEN <<SubSeq(s, start + 1, e)>> \o Rest(s, sep, n)[Spot(e + Len(sep), cuts - 1)]
        ELSE <<SubSeq(s, start + 1, Len(s))>>
    BY <1>1, RestIs
<1>3. end = e /\ e < Len(s) /\ next = e + Len(sep) /\ cuts > 0 /\ cuts - 1 = left
    BY <1>1 DEF CutsOff
<1>4. QED
    BY <1>2, <1>3 DEF GoesOn

\* Sequences of two and of three.
LEMMA TwoAndThree ==
  ASSUME NEW x, NEW y, NEW z
  PROVE  <<x>> \o <<y>> = <<x, y>> /\ <<x>> \o (<<y>> \o <<z>>) = <<x, y, z>>
<1>1. PICK W : x \in W /\ y \in W /\ z \in W
  <2>1. x \in {x, y, z} /\ y \in {x, y, z} /\ z \in {x, y, z}
        OBVIOUS
  <2>2. QED
        BY <2>1
<1>2. \A u \in W : <<u>> \in Seq(W)
    OBVIOUS
<1>3. ASSUME NEW u \in W, NEW v \in W PROVE <<u>> \o <<v>> = <<u, v>>
  <2>1. PICK b \in Seq(W) : b = <<u>>
        BY <1>2
  <2>2. Append(b, v) = b \o <<v>>
        BY AppendIsConcat
  <2>3. Len(b) = 1 /\ b[1] = u
        BY <2>1
  <2>4. Append(b, v) = <<u, v>>
    <3>1. PICK d \in Seq(W) : d = Append(b, v)
          BY AppendProperties
    <3>2. Len(d) = Len(b) + 1 /\ d[Len(b) + 1] = v /\ \A i \in 1..Len(b) : d[i] = b[i]
          BY <3>1, AppendProperties
    <3>3. Len(d) = 2 /\ d[1] = u /\ d[2] = v
          BY <2>3, <3>2
    <3>4. d = <<u, v>>
          BY <3>3
    <3>5. QED
          BY <3>1, <3>4
  <2>5. QED
        BY <2>1, <2>2, <2>4
<1>4. PICK a \in Seq(W) : a = <<x>>
    BY <1>1, <1>2
<1>5. PICK b \in Seq(W) : b = <<y>>
    BY <1>1, <1>2
<1>6. PICK c \in Seq(W) : c = <<z>>
    BY <1>1, <1>2
<1>7. a \o b = <<x, y>>
    BY <1>1, <1>3, <1>4, <1>5
<1>8. PICK ab \in Seq(W) : ab = <<x, y>>
  <2>1. <<x, y>> \in Seq(W)
        BY <1>1
  <2>2. QED
        BY <2>1
<1>9. Append(ab, z) = ab \o <<z>>
    BY <1>1, AppendIsConcat
<1>10. Append(ab, z) = <<x, y, z>>
  <2>1. PICK d \in Seq(W) : d = Append(ab, z)
        BY <1>1, AppendProperties
  <2>2. Len(ab) = 2 /\ ab[1] = x /\ ab[2] = y
        BY <1>8
  <2>3. Len(d) = Len(ab) + 1 /\ d[Len(ab) + 1] = z /\ \A i \in 1..Len(ab) : d[i] = ab[i]
        BY <1>1, <2>1, AppendProperties
  <2>4. Len(d) = 3 /\ d[1] = x /\ d[2] = y /\ d[3] = z
        BY <2>2, <2>3
  <2>5. d = <<x, y, z>>
        BY <2>4
  <2>6. QED
        BY <2>1, <2>5
<1>11. (a \o b) \o c = a \o (b \o c)
    BY ConcatAssociative
<1>12. QED
    BY <1>4, <1>5, <1>6, <1>7, <1>8, <1>9, <1>10, <1>11

\* At most one cut.
LEMMA SplitOnce ==
  ASSUME NEW S, NEW s \in Seq(S), NEW c
  PROVE  LET end == Find(s, <<c>>, 0) IN
           SplitN(s, <<c>>, 1) =
             IF end < Len(s) THEN <<SubSeq(s, 1, end), SubSeq(s, end + 2, Len(s))>>
             ELSE <<SubSeq(s, 1, Len(s))>>
<1>1. PICK L \in Nat : L = Len(s)
    OBVIOUS
<1>2. PICK V : <<c>> \in Seq(V)
  <2>1. <<c>> \in Seq({c})
        OBVIOUS
  <2>2. QED
        BY <2>1
<1>3. PICK sep \in Seq(V) : sep = <<c>> /\ sep # <<>> /\ Len(sep) = 1
    BY <1>2
<1>4. PICK end : end = Find(s, sep, 0)
    OBVIOUS
<1>5. PICK start \in 0..Len(s) : start = 0
    OBVIOUS
<1>6. end = EndFrom(s, sep, start)
    BY <1>3, <1>4, <1>5 DEF EndFrom
<1>7. PICK one \in 0..1 : one = 1
    OBVIOUS
<1>8. PICK none \in 0..1 : none = 0
    OBVIOUS
<1>9. PICK n \in Nat : n = 1
    OBVIOUS
<1>10. SplitN(s, sep, n) = Rest(s, sep, n)[Spot(start, one)]
    BY <1>5, <1>7, <1>9, SplitNIs
<1>11. end \in 0..L
    BY <1>1, <1>3, <1>4, FindSymbol DEF NextSymbol
<1>12. CASE ~(end < L)
  <2>1. Rest(s, sep, n)[Spot(start, one)] = <<SubSeq(s, start + 1, Len(s))>>
        BY <1>1, <1>6, <1>7, <1>9, <1>12, RestUncut
  <2>2. QED
        BY <1>1, <1>3, <1>4, <1>5, <1>9, <1>10, <1>12, <2>1
<1>13. CASE end < L
  <2>1. PICK next \in 0..Len(s) : next = end + 1
        BY <1>1, <1>11, <1>13
  <2>2. Rest(s, sep, n)[Spot(start, one)] =
          <<SubSeq(s, start + 1, end)>> \o Rest(s, sep, n)[Spot(next, none)]
    <3>1. CutsOff(s, sep, start, one, end, next, none)
          BY <1>1, <1>3, <1>6, <1>7, <1>8, <1>13, <2>1 DEF CutsOff
    <3>2. one \in 0..n
          BY <1>7, <1>9
    <3>3. GoesOn(Rest(s, sep, n), s, start, one, end, next, none)
          BY <3>1, <3>2, RestCut
    <3>4. QED
          BY <3>3 DEF GoesOn
  <2>3. Rest(s, sep, n)[Spot(next, none)] = <<SubSeq(s, next + 1, Len(s))>>
    <3>1. none \in 0..n /\ none = 0
          BY <1>8, <1>9
    <3>2. QED
          BY <3>1, RestUncut
  <2>4. next + 1 = end + 2 /\ start + 1 = 1
        BY <1>5, <1>11, <2>1
  <2>5. SplitN(s, sep, n) = <<SubSeq(s, 1, end)>> \o <<SubSeq(s, end + 2, Len(s))>>
        BY <1>10, <2>2, <2>3, <2>4
  <2>6. <<SubSeq(s, 1, end)>> \o <<SubSeq(s, end + 2, Len(s))>>
          = <<SubSeq(s, 1, end), SubSeq(s, end + 2, Len(s))>>
        BY TwoAndThree
  <2>7. QED
        BY <1>1, <1>3, <1>4, <1>9, <1>13, <2>5, <2>6
<1>14. QED
    BY <1>12, <1>13

\* At most two.
LEMMA SplitTwice ==
  ASSUME NEW S, NEW s \in Seq(S), NEW c, Find(s, <<c>>, 0) < Len(s)
  PROVE  LET end == Find(s, <<c>>, 0)
             next == Find(s, <<c>>, end + 1)
         IN SplitN(s, <<c>>, 2) =
              IF next < Len(s)
              THEN <<SubSeq(s, 1, end), SubSeq(s, end + 2, next), SubSeq(s, next + 2, Len(s))>>
              ELSE <<SubSeq(s, 1, end), SubSeq(s, end + 2, Len(s))>>
<1>1. PICK L \in Nat : L = Len(s)
    OBVIOUS
<1>2. PICK V : <<c>> \in Seq(V)
  <2>1. <<c>> \in Seq({c})
        OBVIOUS
  <2>2. QED
        BY <2>1
<1>3. PICK sep \in Seq(V) : sep = <<c>> /\ sep # <<>> /\ Len(sep) = 1
    BY <1>2
<1>4. PICK end : end = Find(s, sep, 0)
    OBVIOUS
<1>5. PICK start \in 0..Len(s) : start = 0
    OBVIOUS
<1>6. end = EndFrom(s, sep, start)
    BY <1>3, <1>4, <1>5 DEF EndFrom
<1>7. end \in 0..L /\ end < L
    BY <1>1, <1>3, <1>4, FindSymbol DEF NextSymbol
<1>8. PICK n \in Nat : n = 2
    OBVIOUS
<1>9. PICK two \in 0..n : two = 2
    BY <1>8
<1>10. PICK one \in 0..n : one = 1
    BY <1>8
<1>11. PICK none \in 0..n : none = 0
    BY <1>8
<1>12. SplitN(s, sep, n) = Rest(s, sep, n)[Spot(start, two)]
    BY <1>5, <1>8, <1>9, SplitNIs
<1>13. PICK from \in 0..Len(s) : from = end + 1
    BY <1>1, <1>7
<1>14. PICK next : next = Find(s, sep, from)
    OBVIOUS
<1>15. next = EndFrom(s, sep, from) /\ next \in 0..L
  <2>1. next \in from..L
        BY <1>1, <1>3, <1>14, FindSymbol DEF NextSymbol
  <2>2. QED
        BY <1>3, <1>14, <2>1 DEF EndFrom
<1>16. Rest(s, sep, n)[Spot(start, two)] =
         <<SubSeq(s, start + 1, end)>> \o Rest(s, sep, n)[Spot(from, one)]
  <2>1. CutsOff(s, sep, start, two, end, from, one)
        BY <1>1, <1>3, <1>6, <1>7, <1>9, <1>10, <1>13 DEF CutsOff
  <2>2. GoesOn(Rest(s, sep, n), s, start, two, end, from, one)
        BY <2>1, RestCut
  <2>3. QED
        BY <2>2 DEF GoesOn
<1>17. start + 1 = 1 /\ from + 1 = end + 2
    BY <1>5, <1>7, <1>13
<1>18. CASE ~(next < L)
  <2>1. Rest(s, sep, n)[Spot(from, one)] = <<SubSeq(s, from + 1, Len(s))>>
        BY <1>1, <1>15, <1>18, RestUncut
  <2>2. SplitN(s, sep, n) = <<SubSeq(s, 1, end)>> \o <<SubSeq(s, end + 2, Len(s))>>
        BY <1>12, <1>16, <1>17, <2>1
  <2>3. <<SubSeq(s, 1, end)>> \o <<SubSeq(s, end + 2, Len(s))>>
          = <<SubSeq(s, 1, end), SubSeq(s, end + 2, Len(s))>>
        BY TwoAndThree
  <2>4. QED
        BY <1>1, <1>3, <1>4, <1>8, <1>13, <1>14, <1>18, <2>2, <2>3
<1>19. CASE next < L
  <2>1. PICK last \in 0..Len(s) : last = next + 1
        BY <1>1, <1>15, <1>19
  <2>2. Rest(s, sep, n)[Spot(from, one)] =
          <<SubSeq(s, from + 1, next)>> \o Rest(s, sep, n)[Spot(last, none)]
    <3>1. CutsOff(s, sep, from, one, next, last, none)
          BY <1>1, <1>3, <1>10, <1>11, <1>15, <1>19, <2>1 DEF CutsOff
    <3>2. GoesOn(Rest(s, sep, n), s, from, one, next, last, none)
          BY <3>1, RestCut
    <3>3. QED
          BY <3>2 DEF GoesOn
  <2>3. Rest(s, sep, n)[Spot(last, none)] = <<SubSeq(s, last + 1, Len(s))>>
        BY <1>11, RestUncut
  <2>4. last + 1 = next + 2
        BY <1>15, <2>1
  <2>5. SplitN(s, sep, n) =
          <<SubSeq(s, 1, end)>> \o (<<SubSeq(s, end + 2, next)>> \o <<SubSeq(s, next + 2, Len(s))>>)
        BY <1>12, <1>16, <1>17, <2>2, <2>3, <2>4
  <2>6. \A x, y, z : <<x>> \o (<<y>> \o <<z>>) = <<x, y, z>>
        BY TwoAndThree
  <2>7. SplitN(s, sep, n) =
          <<SubSeq(s, 1, end), SubSeq(s, end + 2, next), SubSeq(s, next + 2, Len(s))>>
        BY <2>5, <2>6
  <2>8. QED
        BY <1>1, <1>3, <1>4, <1>8, <1>13, <1>14, <1>19, <2>7, SMTT(60)
<1>20. QED
    BY <1>18, <1>19

-----------------------------------------------------------------------------
(* The first line of a request.                                            *)

\* w[k] is the size of the first k symbols.
Sizes(w, s, n) == w[0] = 0 /\ \A k \in 1..n : w[k] = w[k - 1] + Measure(s[k])

\* Size is the last of these sums.
LEMMA SizeSums ==
  ASSUME NEW S, NEW s \in Seq(S), NEW n \in Nat, n = Len(s)
  PROVE  \E w : Sizes(w, s, n) /\ Size(s) = w[n]
<1>1. DOMAIN s = 1..n
    OBVIOUS
<1>2. PICK end : end = Folded("size", 0, s, 1..n)[1..n]
    OBVIOUS
<1>3. PICK w : Walk(w, "size", 0, s, n) /\ end = w[n]
  <2>1. PICK how, base : how = "size" /\ base = 0
        OBVIOUS
  <2>2. PICK w : Walk(w, how, base, s, n) /\ Folded(how, base, s, 1..n)[1..n] = w[n]
    <3>1. PICK m \in Nat : m = n
          OBVIOUS
    <3>2. \E w : Walk(w, how, base, s, m) /\ Folded(how, base, s, 1..m)[1..m] = w[m]
          BY ONLY FoldedWalk
    <3>3. QED
          BY <3>1, <3>2
  <2>3. QED
        BY <1>2, <2>1, <2>2
<1>4. Sizes(w, s, n)
    BY <1>3 DEF Walk, AddPart, Sizes
<1>5. Size(s) = w[n]
    BY <1>1, <1>2, <1>3, SizeIs
<1>6. QED
    BY <1>4, <1>5

\* A symbol's size is a number.
LEMMA MeasureTyped == ASSUME NEW x PROVE Measure(x) \in Nat
BY StringsAssumption DEF Measure

\* Sizes are numbers.
LEMMA SizesTyped ==
  ASSUME NEW w, NEW s, NEW n \in Nat, Sizes(w, s, n)
  PROVE  \A k \in 0..n : w[k] \in Nat
<1> DEFINE T == {k \in Nat : k <= n => w[k] \in Nat}
<1>1. w[0] = 0 /\ \A k \in 1..n : w[k] = w[k - 1] + Measure(s[k])
    BY DEF Sizes
<1>2. 0 \in T
    BY <1>1
<1>3. ASSUME NEW k \in Nat, k \in T PROVE k + 1 \in T
  <2> SUFFICES ASSUME k + 1 <= n PROVE w[k + 1] \in Nat
      OBVIOUS
  <2>1. k + 1 \in 1..n /\ (k + 1) - 1 = k /\ w[k] \in Nat
        BY <1>3
  <2>2. w[k + 1] = w[k] + Measure(s[k + 1])
        BY <1>1, <2>1
  <2>3. Measure(s[k + 1]) \in Nat
        BY MeasureTyped
  <2>4. QED
        BY <2>1, <2>2, <2>3
<1>4. Nat \subseteq T
  <2> HIDE DEF T
  <2>1. QED
        BY <1>2, <1>3, NatSetInduction
<1>5. QED
    BY <1>4

\* The first two symbols and the rest.
LEMMA SizeOfRest ==
  ASSUME NEW S, NEW s \in Seq(S), Len(s) >= 2
  PROVE  Size(s) = Measure(s[1]) + Measure(s[2]) + Size(SubSeq(s, 3, Len(s)))
<1>1. PICK n \in Nat : n = Len(s) /\ n >= 2
    OBVIOUS
<1>2. PICK m \in Nat : n = m + 2
  <2>1. n - 2 \in Nat /\ n = (n - 2) + 2
        BY <1>1
  <2>2. QED
        BY <2>1
<1>3. PICK two \in Nat : two = 2
    OBVIOUS
<1>4. Within(s, two, n)
    BY <1>1, <1>3 DEF Within
<1>5. PICK t \in Seq(S) : t = Slice(s, two, n)
    BY <1>4, SliceIs
<1>6. Len(t) = n - two
    BY <1>4, <1>5, SliceIs
<1>7. ASSUME NEW i \in 1..(n - two) PROVE t[i] = s[two + i]
    BY <1>4, <1>5, SliceElement
<1>8. Len(t) = m /\ \A i \in 1..m : t[i] = s[i + 2]
    BY <1>2, <1>3, <1>6, <1>7
<1>9. t = SubSeq(s, 3, Len(s))
    BY <1>1, <1>3, <1>5 DEF Slice
<1>10. PICK w : Sizes(w, s, n) /\ Size(s) = w[n]
    BY <1>1, SizeSums
<1>11. PICK u : Sizes(u, t, m) /\ Size(t) = u[m]
    BY <1>8, SizeSums
<1>12. /\ \A k \in 0..n : w[k] \in Nat
       /\ \A k \in 0..m : u[k] \in Nat
    BY <1>10, <1>11, SizesTyped
<1>13. PICK base \in Nat : base = Measure(s[1]) + Measure(s[2])
  <2>1. Measure(s[1]) \in Nat /\ Measure(s[2]) \in Nat
        BY MeasureTyped
  <2>2. QED
        BY <2>1
<1>14. w[2] = base
  <2>1. 1 \in 1..n /\ 2 \in 1..n /\ 1 - 1 = 0 /\ 2 - 1 = 1
        BY <1>1
  <2>2. w[0] = 0 /\ w[1] = w[1 - 1] + Measure(s[1]) /\ w[2] = w[2 - 1] + Measure(s[2])
        BY <1>10, <2>1 DEF Sizes
  <2>3. Measure(s[1]) \in Nat /\ Measure(s[2]) \in Nat
        BY MeasureTyped
  <2>4. QED
        BY <1>13, <2>1, <2>2, <2>3
<1> DEFINE T == {k \in Nat : k <= m => w[k + 2] = base + u[k]}
<1>15. 0 \in T
    BY <1>11, <1>14 DEF Sizes
<1>16. ASSUME NEW k \in Nat, k \in T PROVE k + 1 \in T
  <2> SUFFICES ASSUME k + 1 <= m PROVE w[(k + 1) + 2] = base + u[k + 1]
      OBVIOUS
  <2>1. k + 1 \in 1..m /\ (k + 1) - 1 = k /\ k \in 0..m /\ w[k + 2] = base + u[k]
        BY <1>16
  <2>2. u[k + 1] = u[k] + Measure(t[k + 1])
        BY <1>11, <2>1 DEF Sizes
  <2>3. PICK i \in 1..n : i = (k + 1) + 2 /\ i - 1 = k + 2
        BY <1>2, <2>1
  <2>4. w[i] = w[i - 1] + Measure(s[i])
        BY <1>10 DEF Sizes
  <2>5. t[k + 1] = s[i]
        BY <1>8, <2>1, <2>3
  <2>6. PICK more \in Nat : more = Measure(s[i])
        BY MeasureTyped
  <2>7. PICK sum \in Nat : sum = u[k]
        BY <1>12, <2>1
  <2>8. w[(k + 1) + 2] = (base + sum) + more
        BY <2>1, <2>3, <2>4, <2>6, <2>7
  <2>9. u[k + 1] = sum + more
        BY <2>2, <2>5, <2>6, <2>7
  <2>10. (base + sum) + more = base + (sum + more)
        OBVIOUS
  <2>11. QED
        BY <2>8, <2>9, <2>10
<1>17. m \in T
  <2> HIDE DEF T
  <2>1. QED
        BY <1>15, <1>16, NatSetInduction
<1>18. QED
    BY <1>2, <1>9, <1>10, <1>11, <1>13, <1>17

\* A version that is accepted has at least three characters behind its slash.
LEMMA VersionIs ==
  ASSUME NEW S, NEW v \in Seq(S)
  PROVE  ValidVersion(v) <=> /\ Len(v) >= 2 /\ v[1] = "HTTP" /\ v[2] = "/"
                             /\ Size(SubSeq(v, 3, Len(v))) >= 3
<1>1. PICK n \in Nat : n = Len(v)
    OBVIOUS
<1>2. PICK least : least = <<"HTTP", "/", "1", ".", "0">>
    OBVIOUS
<1>3. PICK base \in Nat : base = Measure("HTTP") + Measure("/")
  <2>1. Measure("HTTP") \in Nat /\ Measure("/") \in Nat
        BY MeasureTyped
  <2>2. QED
        BY <2>1
<1>4. Size(least) = base + 3
  <2>0. PICK V : least \in Seq(V)
    <3>1. least \in Seq({"HTTP", "/", "1", ".", "0"})
          BY <1>2
    <3>2. QED
          BY <3>1
  <2>1. PICK whole \in Seq(V) : whole = least
        BY <2>0
  <2>2. PICK five \in Nat : five = 5 /\ five = Len(whole)
        BY <1>2, <2>1
  <2>3. PICK w : Sizes(w, whole, five) /\ Size(whole) = w[five]
        BY <2>2, SizeSums
  <2>4. /\ whole[1] = "HTTP" /\ whole[2] = "/" /\ whole[3] = "1"
        /\ whole[4] = "." /\ whole[5] = "0"
        BY <1>2, <2>1
  <2>5. Measure("1") = 1 /\ Measure(".") = 1 /\ Measure("0") = 1
        BY StringsAssumption DEF Punctuation, Measure
  <2>6. PICK http \in Nat : http = Measure("HTTP")
        BY MeasureTyped
  <2>7. PICK slash \in Nat : slash = Measure("/")
        BY MeasureTyped
  <2>8. w[0] = 0 /\ \A k \in 1..five : w[k] = w[k - 1] + Measure(whole[k])
        BY <2>3 DEF Sizes
  <2>9. w[1] = http
    <3>1. 1 \in 1..five /\ 1 - 1 = 0
          BY <2>2
    <3>2. w[1] = w[1 - 1] + Measure(whole[1])
          BY <2>8, <3>1
    <3>3. QED
          BY <2>4, <2>6, <2>8, <3>1, <3>2
  <2>10. w[2] = http + slash
    <3>1. 2 \in 1..five /\ 2 - 1 = 1
          BY <2>2
    <3>2. w[2] = w[2 - 1] + Measure(whole[2])
          BY <2>8, <3>1
    <3>3. QED
          BY <2>4, <2>7, <2>9, <3>1, <3>2
  <2>11. w[3] = http + slash + 1
    <3>1. 3 \in 1..five /\ 3 - 1 = 2
          BY <2>2
    <3>2. w[3] = w[3 - 1] + Measure(whole[3])
          BY <2>8, <3>1
    <3>3. QED
          BY <2>4, <2>5, <2>10, <3>1, <3>2
  <2>12. w[4] = http + slash + 2
    <3>1. 4 \in 1..five /\ 4 - 1 = 3
          BY <2>2
    <3>2. w[4] = w[4 - 1] + Measure(whole[4])
          BY <2>8, <3>1
    <3>3. QED
          BY <2>4, <2>5, <2>11, <3>1, <3>2
  <2>13. w[5] = http + slash + 3
    <3>1. 5 \in 1..five /\ 5 - 1 = 4
          BY <2>2
    <3>2. w[5] = w[5 - 1] + Measure(whole[5])
          BY <2>8, <3>1
    <3>3. QED
          BY <2>4, <2>5, <2>12, <3>1, <3>2
  <2>14. QED
        BY <1>3, <2>1, <2>2, <2>3, <2>6, <2>7, <2>13
<1>5. IsPrefix(<<"HTTP", "/">>, v) <=> n >= 2 /\ v[1] = "HTTP" /\ v[2] = "/"
  <2>1. PICK W : W = S \cup {"HTTP", "/"}
        OBVIOUS
  <2>2. PICK p \in Seq(W) : p = <<"HTTP", "/">>
    <3>1. <<"HTTP", "/">> \in Seq(W)
          BY <2>1
    <3>2. QED
          BY <3>1
  <2>3. v \in Seq(W)
        BY <2>1
  <2>4. IsPrefix(p, v) <=> Len(p) <= Len(v) /\ \A i \in 1..Len(p) : p[i] = v[i]
        BY <2>3, PrefixElements
  <2>5. Len(p) = 2 /\ p[1] = "HTTP" /\ p[2] = "/"
        BY <2>2
  <2>6. QED
        BY <1>1, <2>2, <2>4, <2>5
<1>6. ASSUME n >= 2, v[1] = "HTTP", v[2] = "/"
      PROVE  Size(v) >= Size(least) <=> Size(SubSeq(v, 3, Len(v))) >= 3
  <2>1. Size(v) = Measure(v[1]) + Measure(v[2]) + Size(SubSeq(v, 3, Len(v)))
        BY <1>1, <1>6, SizeOfRest
  <2>2. PICK size \in Nat : size = Size(SubSeq(v, 3, Len(v)))
    <3>1. Within(v, 2, n)
          BY <1>1, <1>6 DEF Within
    <3>2. PICK t \in Seq(S) : t = SubSeq(v, 3, n)
      <4>1. Slice(v, 2, n) = SubSeq(v, 3, n)
            BY DEF Slice
      <4>2. QED
            BY <3>1, <4>1, SliceIs
    <3>3. PICK m \in Nat : m = Len(t)
          OBVIOUS
    <3>4. PICK w : Sizes(w, t, m) /\ Size(t) = w[m]
          BY <3>3, SizeSums
    <3>5. Size(t) \in Nat
          BY <3>4, SizesTyped
    <3>6. QED
          BY <1>1, <3>2, <3>5
  <2>3. Size(v) = base + size
        BY <1>3, <1>6, <2>1, <2>2
  <2>4. QED
        BY <1>4, <2>2, <2>3
<1>7. QED
    BY <1>1, <1>2, <1>5, <1>6 DEF ValidVersion

-----------------------------------------------------------------------------
(* What the parser takes for a request.                                    *)

\* t is what s has between a and b.
Taken(t, s, a, b) ==
  t = SubSeq(s, a + 1, b) /\ Len(t) = b - a /\ \A i \in 1..(b - a) : t[i] = s[a + i]

\* It is a text.
LEMMA TakenIs ==
  ASSUME NEW S, NEW s \in Seq(S), NEW a \in Nat, NEW b \in Nat, Within(s, a, b)
  PROVE  \E t \in Seq(S) : Taken(t, s, a, b)
<1>1. PICK t \in Seq(S) : t = Slice(s, a, b)
    BY SliceIs
<1>2. Len(t) = b - a
    BY <1>1, SliceIs
<1>3. ASSUME NEW i \in 1..(b - a) PROVE t[i] = s[a + i]
    BY <1>1, SliceElement
<1>4. QED
    BY <1>1, <1>2, <1>3 DEF Taken, Slice

\* t without its first b symbols is s without its first c.
SameRest(t, b, s, c) == SubSeq(t, b + 1, Len(t)) = SubSeq(s, c + 1, Len(s))

\* What is left of a text whose beginning was taken off twice.
LEMMA TakenTwice ==
  ASSUME NEW S, NEW s \in Seq(S), NEW a \in Nat, NEW b \in Nat, NEW c \in Nat, c = a + b,
         Within(s, c, Len(s)), NEW t \in Seq(S), Taken(t, s, a, Len(s))
  PROVE  SameRest(t, b, s, c)
<1>1. PICK L \in Nat : L = Len(s) /\ c <= L
    BY DEF Within
<1>2. c = a + b
    OBVIOUS
<1>3. PICK m \in Nat : m = L - a /\ m = Len(t) /\ b <= m /\ \A i \in 1..m : t[i] = s[a + i]
  <2>1. L - a \in Nat /\ b <= L - a
        BY <1>1
  <2>2. Len(t) = L - a /\ \A i \in 1..(L - a) : t[i] = s[a + i]
        BY <1>1 DEF Taken
  <2>3. QED
        BY <2>1, <2>2
<1>4. Within(s, c, L) /\ Within(t, b, m)
    BY <1>1, <1>2, <1>3 DEF Within
<1>5. Same(t, b, m, s, c, L)
  <2>1. m - b = L - c
        BY <1>1, <1>2, <1>3
  <2>2. ASSUME NEW i \in 1..(m - b) PROVE t[b + i] = s[c + i]
    <3>1. b + i \in 1..m /\ a + (b + i) = c + i
          BY <1>2, <1>3
    <3>2. t[b + i] = s[a + (b + i)]
          BY <1>3, <3>1
    <3>3. QED
          BY <3>1, <3>2
  <2>3. QED
        BY <2>1, <2>2 DEF Same
<1>6. Slice(t, b, m) = Slice(s, c, L)
    BY <1>4, <1>5, SlicesAgree
<1>7. QED
    BY <1>1, <1>3, <1>6 DEF Slice, SameRest

\* The three parts that parse_request_frame accepts.
Accepts(parts) == Len(parts) = 3 /\ ValidUri(parts[2]) /\ ValidVersion(parts[3])

\* The reference, for any symbol instead of the space.
WellFormedBy(line, c) ==
  \E p, q \in DOMAIN line :
    /\ p < q /\ line[p] = c /\ line[q] = c
    /\ \A k \in 1..(q - 1) : line[k] = c => k = p
    /\ line[p + 1] = "/"
    /\ Len(line) >= q + 2 /\ line[q + 1] = "HTTP" /\ line[q + 2] = "/"
    /\ Size(SubSeq(line, q + 3, Len(line))) >= 3

\* The request line is accepted exactly if it is what the reference says.
LEMMA RequestLineBy ==
  ASSUME NEW S, NEW line \in Seq(S), NEW c, c # "/"
  PROVE  Accepts(SplitN(line, <<c>>, 2)) <=> WellFormedBy(line, c)
<1>1. PICK L \in Nat : L = Len(line)
    OBVIOUS
<1>2. PICK e : e = Find(line, <<c>>, 0)
    OBVIOUS
<1>3. e \in 0..L /\ (e < L => line[e + 1] = c) /\ \A k \in 1..e : line[k] # c
  <2>1. PICK zero \in 0..Len(line) : zero = 0
        OBVIOUS
  <2>3. NextSymbol(line, c, zero, Find(line, <<c>>, zero))
        BY FindSymbol
  <2>4. QED
        BY <1>1, <1>2, <2>1, <2>3 DEF NextSymbol
<1>4. CASE ~(e < L)
  <2>1. SplitN(line, <<c>>, 2) = <<SubSeq(line, 1, Len(line))>>
    <3>1. PICK V : <<c>> \in Seq(V)
      <4>1. <<c>> \in Seq({c})
            OBVIOUS
      <4>2. QED
            BY <4>1
    <3>2. PICK sep \in Seq(V) : sep = <<c>> /\ sep # <<>>
          BY <3>1
    <3>3. PICK start \in 0..Len(line) : start = 0
          OBVIOUS
    <3>4. e = EndFrom(line, sep, start)
          BY <1>2, <3>2, <3>3 DEF EndFrom
    <3>5. PICK n \in Nat : n = 2
          OBVIOUS
    <3>6. PICK two \in 0..n : two = n
          OBVIOUS
    <3>7. SplitN(line, sep, n) = Rest(line, sep, n)[Spot(start, two)]
          BY <3>3, <3>6, SplitNIs
    <3>8. Rest(line, sep, n)[Spot(start, two)] = <<SubSeq(line, start + 1, Len(line))>>
          BY <1>1, <1>4, <3>4, RestUncut
    <3>9. QED
          BY <3>2, <3>3, <3>5, <3>7, <3>8
  <2>2. ~Accepts(SplitN(line, <<c>>, 2))
        BY <2>1 DEF Accepts
  <2>3. \A k \in 1..L : line[k] # c
        BY <1>3, <1>4
  <2>4. ~WellFormedBy(line, c)
        BY <1>1, <2>3 DEF WellFormedBy
  <2>5. QED
        BY <2>2, <2>4
<1>5. CASE e < L
  <2>1. PICK p \in Nat : p = e + 1 /\ p \in 1..L
        BY <1>3, <1>5
  <2>2. PICK f : f = Find(line, <<c>>, p)
        OBVIOUS
  <2>3. f \in p..L /\ (f < L => line[f + 1] = c) /\ \A k \in (p + 1)..f : line[k] # c
    <3>1. PICK from \in 0..Len(line) : from = p
          BY <1>1, <2>1
    <3>3. NextSymbol(line, c, from, Find(line, <<c>>, from))
          BY FindSymbol
    <3>4. QED
          BY <1>1, <2>2, <3>1, <3>3 DEF NextSymbol
  <2>4. line[p] = c /\ \A k \in 1..(p - 1) : line[k] # c
        BY <1>3, <1>5, <2>1
  <2>5. SplitN(line, <<c>>, 2) =
          IF f < Len(line)
          THEN <<SubSeq(line, 1, e), SubSeq(line, e + 2, f), SubSeq(line, f + 2, Len(line))>>
          ELSE <<SubSeq(line, 1, e), SubSeq(line, e + 2, Len(line))>>
    <3>2. Find(line, <<c>>, 0) < Len(line)
          BY <1>1, <1>2, <1>5
    <3>3. LET end == Find(line, <<c>>, 0)
              next == Find(line, <<c>>, end + 1)
          IN SplitN(line, <<c>>, 2) =
               IF next < Len(line)
               THEN <<SubSeq(line, 1, end), SubSeq(line, end + 2, next),
                      SubSeq(line, next + 2, Len(line))>>
               ELSE <<SubSeq(line, 1, end), SubSeq(line, end + 2, Len(line))>>
          BY <3>2, SplitTwice
    <3>4. QED
          BY ONLY <1>2, <2>1, <2>2, <3>3
  <2>6. CASE ~(f < L)
    <3>1. ~Accepts(SplitN(line, <<c>>, 2))
      <4>1. SplitN(line, <<c>>, 2) = <<SubSeq(line, 1, e), SubSeq(line, e + 2, Len(line))>>
            BY <1>1, <2>5, <2>6
      <4>2. QED
            BY <4>1 DEF Accepts
    <3>2. \A k \in 1..L : line[k] = c => k = p
          BY <2>1, <2>3, <2>4, <2>6
    <3>3. ~WellFormedBy(line, c)
      <4>1. \A k, q \in DOMAIN line : ~(k < q /\ line[k] = c /\ line[q] = c)
            BY <1>1, <2>1, <3>2
      <4>2. QED
            BY <4>1 DEF WellFormedBy
    <3>4. QED
          BY <3>1, <3>3
  <2>7. CASE f < L
    <3>1. PICK q \in Nat : q = f + 1 /\ q \in 1..L /\ p < q
          BY <2>1, <2>3, <2>7
    <3>2. line[q] = c /\ \A k \in (p + 1)..(q - 1) : line[k] # c
          BY <2>1, <2>3, <2>7, <3>1
    <3>3. PICK uri \in Seq(S) : Taken(uri, line, p, f)
      <4>1. Within(line, p, f) /\ f \in Nat
            BY <1>1, <2>1, <2>3 DEF Within
      <4>2. QED
            BY <4>1, TakenIs
    <3>4. PICK version \in Seq(S) : Taken(version, line, q, L)
      <4>1. Within(line, q, L)
            BY <1>1, <3>1 DEF Within
      <4>2. QED
            BY <4>1, TakenIs
    <3>5. p + 1 = e + 2 /\ q + 1 = f + 2
          BY <1>3, <2>1, <2>3, <3>1
    <3>6. uri = SubSeq(line, e + 2, f) /\ version = SubSeq(line, f + 2, Len(line))
          BY <1>1, <3>3, <3>4, <3>5 DEF Taken
    <3>7. Accepts(SplitN(line, <<c>>, 2)) <=> ValidUri(uri) /\ ValidVersion(version)
      <4>1. SplitN(line, <<c>>, 2) =
              <<SubSeq(line, 1, e), SubSeq(line, e + 2, f), SubSeq(line, f + 2, Len(line))>>
            BY <1>1, <2>5, <2>7
      <4>2. PICK first : first = SubSeq(line, 1, e)
            OBVIOUS
      <4>3. PICK parts : parts = <<first, uri, version>>
            OBVIOUS
      <4>5. Len(parts) = 3 /\ parts[2] = uri /\ parts[3] = version
            BY <4>3
      <4>6. parts = SplitN(line, <<c>>, 2)
            BY <3>6, <4>1, <4>2, <4>3
      <4>7. QED
            BY <4>5, <4>6 DEF Accepts
    <3>8. ValidUri(uri) <=> line[p + 1] = "/"
      <4>1. CASE p = f
        <5>1. Len(uri) = 0
              BY <2>1, <3>3, <4>1 DEF Taken
        <5>2. uri = <<>>
              BY <5>1, EmptySeq
        <5>3. line[p + 1] = c
              BY <3>1, <3>2, <4>1
        <5>4. QED
              BY <5>2, <5>3 DEF ValidUri
      <4>2. CASE p # f
        <5>1. f - p \in Nat /\ 1 \in 1..(f - p)
              BY <2>1, <2>3, <4>2
        <5>2. Len(uri) = f - p /\ uri[1] = line[p + 1]
              BY <3>3, <5>1 DEF Taken
        <5>3. uri # <<>>
              BY <2>3, <4>2, <5>1, <5>2
        <5>4. QED
              BY <5>2, <5>3 DEF ValidUri
      <4>3. QED
            BY <4>1, <4>2
    <3>9. ValidVersion(version) <=> /\ L >= q + 2 /\ line[q + 1] = "HTTP" /\ line[q + 2] = "/"
                                    /\ Size(SubSeq(line, q + 3, L)) >= 3
      <4>1. ValidVersion(version) <=> /\ Len(version) >= 2 /\ version[1] = "HTTP"
                                      /\ version[2] = "/"
                                      /\ Size(SubSeq(version, 3, Len(version))) >= 3
            BY VersionIs
      <4>2. Len(version) = L - q /\ \A i \in 1..(L - q) : version[i] = line[q + i]
            BY <3>4 DEF Taken
      <4>3. Len(version) >= 2 <=> L >= q + 2
            BY <3>1, <4>2
      <4>4. ASSUME L >= q + 2
            PROVE  /\ version[1] = line[q + 1] /\ version[2] = line[q + 2]
                   /\ SubSeq(version, 3, Len(version)) = SubSeq(line, q + 3, L)
        <5>1. 1 \in 1..(L - q) /\ 2 \in 1..(L - q)
              BY <3>1, <4>4
        <5>2. PICK two \in Nat : two = 2
              OBVIOUS
        <5>3. PICK b \in Nat : b = q + two
              BY <3>1, <5>2
        <5>4. Within(line, b, Len(line))
              BY <1>1, <3>1, <4>4, <5>2, <5>3 DEF Within
        <5>5. Taken(version, line, q, Len(line))
              BY <1>1, <3>4
        <5>6. SameRest(version, two, line, b)
              BY <5>3, <5>4, <5>5, TakenTwice
        <5>7. two + 1 = 3 /\ b + 1 = q + 3
              BY <5>2, <5>3
        <5>8. SubSeq(version, 3, Len(version)) = SubSeq(line, q + 3, L)
              BY <1>1, <5>6, <5>7 DEF SameRest
        <5>9. QED
              BY <4>2, <5>1, <5>8
      <4>5. QED
            BY <4>1, <4>3, <4>4
    <3>10. WellFormedBy(line, c) <=>
             /\ line[p + 1] = "/" /\ L >= q + 2 /\ line[q + 1] = "HTTP" /\ line[q + 2] = "/"
             /\ Size(SubSeq(line, q + 3, L)) >= 3
      <4>1. DOMAIN line = 1..L /\ p \in 1..L /\ q \in 1..L
            BY <1>1, <2>1, <3>1
      <4>2. \A k \in 1..(q - 1) : line[k] = c => k = p
            BY <2>1, <2>4, <3>1, <3>2
      <4>3. ASSUME NEW a \in 1..L, NEW b \in 1..L, a < b, line[a] = c, line[b] = c,
                   \A k \in 1..(b - 1) : line[k] = c => k = a
            PROVE  a = p /\ b = q
        <5>1. p <= a
              BY <2>1, <2>4, <4>3
        <5>2. p \in 1..(b - 1)
              BY <2>1, <4>3, <5>1
        <5>3. a = p
              BY <2>4, <4>3, <5>2
        <5>4. q <= b
              BY <2>1, <3>1, <3>2, <4>3, <5>3
        <5>5. ~(q < b)
          <6>1. q < b => q \in 1..(b - 1)
                BY <3>1
          <6>2. QED
                BY <3>1, <3>2, <4>3, <5>3, <6>1
        <5>6. QED
              BY <3>1, <5>3, <5>4, <5>5
      <4>4. QED
            BY <1>1, <2>4, <3>1, <3>2, <4>1, <4>2, <4>3 DEF WellFormedBy
    <3>11. QED
          BY <3>7, <3>8, <3>9, <3>10
  <2>8. QED
        BY <2>6, <2>7
<1>6. QED
    BY <1>3, <1>4, <1>5

\* Of which the request line is an instance.
LEMMA RequestLineIs ==
  ASSUME NEW S, NEW line \in Seq(S)
  PROVE  Accepts(SplitN(line, <<" ">>, 2)) <=> WellFormedRequestLine(line)
<1>1. PICK c : c = " "
    OBVIOUS
<1>2. c # "/"
    BY <1>1, Zenon
<1>3. Accepts(SplitN(line, <<c>>, 2)) <=> WellFormedBy(line, c)
    BY <1>2, RequestLineBy
<1>4. WellFormedRequestLine(line) <=> WellFormedBy(line, " ")
    BY Zenon DEF WellFormedRequestLine, WellFormedBy
<1>5. QED
    BY <1>1, <1>3, <1>4, Zenon

-----------------------------------------------------------------------------
(* Strings as system calls see them.                                       *)

\* A string without a NUL has none before its end.
LEMMA NoNul ==
  ASSUME NEW S, NEW s \in Seq(S), <<"NUL">> \in Seq(S), \A k \in 1..Len(s) : s[k] # "NUL"
  PROVE  Find(s, <<"NUL">>, 0) = Len(s)
<1>1. PICK sep \in Seq(S) : sep = <<"NUL">>
    OBVIOUS
<1>2. ASSUME NEW p, Occurs(s, sep, p) PROVE FALSE
  <2>1. Len(sep) = 1 /\ sep[1] = "NUL"
        BY <1>1
  <2>2. PICK L \in Nat : L = Len(s)
        OBVIOUS
  <2>3. p \in 0..(L - 1) /\ SubSeq(s, p + 1, p + 1) = sep
        BY <1>2, <2>1, <2>2 DEF Occurs
  <2>4. PICK k \in 1..L : k = p + 1
        BY <2>3
  <2>5. \A i \in k..k : s[i] \in S
        BY <2>2, ElementOfSeq
  <2>6. SubSeq(s, k, k)[1] = s[k + 1 - 1]
        BY <2>5, SubSeqProperties
  <2>7. s[k] = "NUL"
        BY <2>1, <2>3, <2>4, <2>6
  <2>8. QED
        BY <2>2, <2>7
<1>3. QED
    BY <1>1, <1>2, FindIs

\* Nothing is cut off a string without a NUL.
LEMMA CStringIs ==
  ASSUME NEW S, "NUL" \notin S, NEW s \in Seq(S)
  PROVE  CString(s) = s
<1>1. PICK W : W = S \cup {"NUL"}
    OBVIOUS
<1>2. s \in Seq(W) /\ <<"NUL">> \in Seq(W)
    BY <1>1
<1>3. \A k \in 1..Len(s) : s[k] # "NUL"
    BY ElementOfSeq
<1>4. Find(s, <<"NUL">>, 0) = Len(s)
    BY <1>2, <1>3, NoNul
<1>5. Slice(s, 0, Len(s)) = s
    BY SliceAll
<1>6. QED
    BY <1>4, <1>5 DEF CString, Slice
=============================================================================
