---------------------------- MODULE SequenceLemmas ----------------------------
(***************************************************************************)
(* What the proofs need to know of sequences: induction over the natural   *)
(* numbers, the first element that satisfies a test, the concatenation of  *)
(* a sequence of sequences, and prefixes.                                  *)
(*                                                                         *)
(* Induction is on the least counterexample: WFMin gives every set of      *)
(* natural numbers a least element, and a set is not an operator.          *)
(***************************************************************************)
EXTENDS Naturals, FiniteSets, SequencesExt, SequenceTheorems, WellFoundedInduction, TLAPS

\* A set of natural numbers that is not empty has a least element.
LEMMA LeastElement ==
  ASSUME NEW T \in SUBSET Nat, T # {}
  PROVE  \E n \in T : \A m \in T : n <= m
<1>1. PICK n \in T : \A m \in T : <<m, n>> \notin OpToRel(<, Nat)
    BY WFMin, NatLessThanWellFounded
<1>2. \A m \in T : ~(m < n)
    BY <1>1 DEF OpToRel
<1>3. QED
    BY <1>2

\* Induction: a set of natural numbers with 0 and every successor is Nat.
LEMMA NatSetInduction ==
  ASSUME NEW T, 0 \in T, \A n \in Nat : n \in T => n + 1 \in T
  PROVE  Nat \subseteq T
<1> SUFFICES ASSUME Nat \ T # {} PROVE FALSE
    OBVIOUS
<1>1. PICK n \in Nat \ T : \A m \in Nat \ T : n <= m
    BY LeastElement
<1>2. n - 1 \in Nat /\ n - 1 \in T
    BY <1>1
<1>3. n - 1 + 1 \in T
    BY <1>2
<1>4. QED
    BY <1>1, <1>3

\* Min is the least element.
LEMMA MinIsLeast ==
  ASSUME NEW T \in SUBSET Nat, T # {}
  PROVE  Min(T) \in T /\ \A m \in T : Min(T) <= m
BY LeastElement DEF Min

-----------------------------------------------------------------------------
(* FlattenSeq.                                                             *)

\* What FlattenSeq computes on the way: the concatenation of the first i.
FlattenStep(f, seqs, n) ==
  f = [i \in 1..n |-> IF i = 1 THEN seqs[i] ELSE f[i - 1] \o seqs[i]]
Flattened(seqs, n) == CHOOSE f : FlattenStep(f, seqs, n)

\* What FlattenStep says of one element.
LEMMA FlattenElement ==
  ASSUME NEW f, NEW seqs, NEW n \in Nat, FlattenStep(f, seqs, n), NEW i \in 1..n
  PROVE  f[i] = IF i = 1 THEN seqs[i] ELSE f[i - 1] \o seqs[i]
<1>1. f[i] = [j \in 1..n |-> IF j = 1 THEN seqs[j] ELSE f[j - 1] \o seqs[j]][i]
    BY Zenon DEF FlattenStep
<1>2. QED
    BY <1>1

\* The recursion has a solution...
LEMMA FlattenExists ==
  ASSUME NEW seqs, NEW n \in Nat
  PROVE  FlattenStep(Flattened(seqs, n), seqs, n)
<1> DEFINE T == {k \in Nat : \E f : FlattenStep(f, seqs, k)}
<1>1. 0 \in T
  <2>1. FlattenStep([i \in 1..0 |-> {}], seqs, 0)
        BY DEF FlattenStep
  <2>2. QED
        BY <2>1
<1>2. ASSUME NEW k \in Nat, k \in T PROVE k + 1 \in T
  <2>1. PICK f : FlattenStep(f, seqs, k)
        BY <1>2
  <2> DEFINE g == [i \in 1..(k + 1) |->
                     IF i = 1 THEN seqs[i] ELSE f[i - 1] \o seqs[i]]
  <2>2. \A i \in 1..k : g[i] = f[i]
        BY <2>1, FlattenElement
  <2>3. \A i \in 1..(k + 1) : i # 1 => i - 1 \in 1..k
        OBVIOUS
  <2>4. FlattenStep(g, seqs, k + 1)
        BY <2>2, <2>3 DEF FlattenStep
  <2>5. QED
        BY <2>4
<1>3. n \in T
  <2> HIDE DEF T
  <2>1. QED
        BY <1>1, <1>2, NatSetInduction
<1>4. QED
    BY <1>3 DEF Flattened

\* ... which does not depend on how many elements follow.
LEMMA FlattenUnique ==
  ASSUME NEW S, NEW seqs \in Seq(S), NEW more \in Seq(S),
         NEW m \in Nat, NEW n \in Nat, m <= n, \A i \in 1..m : more[i] = seqs[i]
  PROVE  \A i \in 1..m : Flattened(seqs, m)[i] = Flattened(more, n)[i]
<1> DEFINE f == Flattened(seqs, m)
           g == Flattened(more, n)
           T == {i \in Nat : i \in 1..m => f[i] = g[i]}
<1>1. /\ \A i \in 1..m : f[i] = IF i = 1 THEN seqs[i] ELSE f[i - 1] \o seqs[i]
      /\ \A i \in 1..n : g[i] = IF i = 1 THEN more[i] ELSE g[i - 1] \o more[i]
    BY FlattenExists, FlattenElement
<1>2. 0 \in T
    OBVIOUS
<1>3. ASSUME NEW i \in Nat, i \in T PROVE i + 1 \in T
  <2> SUFFICES ASSUME i + 1 \in 1..m PROVE f[i + 1] = g[i + 1]
      OBVIOUS
  <2> HIDE DEF f, g
  <2>1. i + 1 \in 1..n /\ (i + 1) - 1 = i
        OBVIOUS
  <2>2. i # 0 => f[i] = g[i]
        BY <1>3
  <2>3. QED
        BY <1>1, <2>1, <2>2
<1>4. Nat \subseteq T
  <2> HIDE DEF T
  <2>1. QED
        BY <1>2, <1>3, NatSetInduction
<1>5. QED
    BY <1>4

\* The last of n elements is the same when one more follows.
LEMMA FlattenLonger ==
  ASSUME NEW S, NEW seqs \in Seq(S), NEW more \in Seq(S),
         NEW n \in Nat, n # 0, \A i \in 1..n : more[i] = seqs[i]
  PROVE  Flattened(seqs, n)[n] = Flattened(more, n + 1)[n]
<1>1. n <= n + 1 /\ n \in 1..n
    OBVIOUS
<1>2. QED
    BY <1>1, FlattenUnique

\* FlattenSeq is the last element of that function.
LEMMA FlattenSeqIs ==
  ASSUME NEW seqs, Len(seqs) # 0
  PROVE  FlattenSeq(seqs) = Flattened(seqs, Len(seqs))[Len(seqs)]
BY DEF FlattenSeq, Flattened, FlattenStep

\* FlattenSeq of sequences over S is a sequence over S...
LEMMA FlattenSeqType ==
  ASSUME NEW S, NEW seqs \in Seq(Seq(S))
  PROVE  FlattenSeq(seqs) \in Seq(S)
<1> DEFINE n == Len(seqs)
           f == Flattened(seqs, n)
           T == {i \in 1..n : f[i] \notin Seq(S)}
<1>1. CASE n = 0
    BY <1>1 DEF FlattenSeq
<1>2. CASE n # 0
  <2>1. \A i \in 1..n : f[i] = IF i = 1 THEN seqs[i] ELSE f[i - 1] \o seqs[i]
        BY FlattenExists, FlattenElement
  <2>2. ASSUME T # {} PROVE FALSE
    <3>1. PICK i \in T : \A j \in T : i <= j
      <4>1. T \in SUBSET Nat
            OBVIOUS
      <4>2. QED
            BY <2>2, <4>1, LeastElement
    <3>2. i \in 1..n /\ f[i] \notin Seq(S) /\ seqs[i] \in Seq(S)
          OBVIOUS
    <3>3. i # 1 => i - 1 \in 1..n /\ f[i - 1] \in Seq(S)
          BY <3>1, <3>2
    <3>4. f[i] = IF i = 1 THEN seqs[i] ELSE f[i - 1] \o seqs[i]
          BY <2>1, <3>2
    <3>5. i # 1 => f[i - 1] \o seqs[i] \in Seq(S)
          BY <3>2, <3>3, ConcatProperties
    <3>6. QED
      <4> HIDE DEF f
      <4>1. QED
            BY <3>2, <3>4, <3>5
  <2>3. f[n] \in Seq(S)
        BY <1>2, <2>2
  <2>4. QED
        BY <1>2, <2>3, FlattenSeqIs
<1>3. QED
    BY <1>1, <1>2

\* ... and one more element goes to its end.
LEMMA FlattenSeqAppend ==
  ASSUME NEW S, NEW seqs \in Seq(Seq(S)), NEW more \in Seq(Seq(S)), Len(more) = Len(seqs) + 1,
         \A i \in 1..Len(seqs) : more[i] = seqs[i]
  PROVE  FlattenSeq(more) = FlattenSeq(seqs) \o more[Len(more)]
<1>1. PICK n \in Nat : n = Len(seqs)
    OBVIOUS
<1>2. FlattenSeq(more) = Flattened(more, n + 1)[n + 1]
    BY <1>1, FlattenSeqIs
<1>3. Flattened(more, n + 1)[n + 1]
        = IF n + 1 = 1 THEN more[n + 1] ELSE Flattened(more, n + 1)[(n + 1) - 1] \o more[n + 1]
    BY FlattenExists, FlattenElement
<1>4. CASE n = 0
  <2>1. FlattenSeq(seqs) = seqs
        BY <1>1, <1>4 DEF FlattenSeq
  <2>2. seqs = <<>>
        BY <1>1, <1>4, EmptySeq
  <2>3. n + 1 = 1 /\ n + 1 = Len(more) /\ n + 1 \in 1..Len(more)
        BY <1>1, <1>4
  <2>4. FlattenSeq(more) = more[n + 1]
        BY <1>2, <1>3, <2>3
  <2>5. more[n + 1] \in Seq(S)
        BY <2>3, ElementOfSeq
  <2>6. QED
        BY <2>1, <2>2, <2>3, <2>4, <2>5, ConcatEmptySeq
<1>5. CASE n # 0
  <2>1. FlattenSeq(seqs) = Flattened(seqs, n)[n]
        BY <1>1, <1>5, FlattenSeqIs
  <2>2. Flattened(seqs, n)[n] = Flattened(more, n + 1)[n]
    <3>1. \A i \in 1..n : more[i] = seqs[i]
          BY <1>1
    <3>2. QED
          BY <1>5, <3>1, FlattenLonger
  <2>3. (n + 1) - 1 = n /\ n + 1 # 1
        BY <1>5
  <2>4. FlattenSeq(more) = Flattened(more, n + 1)[n] \o more[n + 1]
        BY <1>2, <1>3, <2>3
  <2>5. QED
        BY <1>1, <2>1, <2>2, <2>4
<1>6. QED
    BY <1>4, <1>5

-----------------------------------------------------------------------------
(* Prefixes, and the first element in a set.                               *)

\* IsPrefix, element by element.
LEMMA PrefixElements ==
  ASSUME NEW S, NEW s \in Seq(S), NEW t \in Seq(S)
  PROVE  IsPrefix(s, t) <=> Len(s) <= Len(t) /\ \A i \in 1..Len(s) : s[i] = t[i]
<1>1. /\ SubSeq(s, 1, Len(s)) \in Seq(S) /\ Len(SubSeq(s, 1, Len(s))) = Len(s)
      /\ \A i \in 1..Len(s) : SubSeq(s, 1, Len(s))[i] = s[i]
    BY SubSeqFull
<1>2. ASSUME Len(s) <= Len(t)
      PROVE  /\ SubSeq(t, 1, Len(s)) \in Seq(S) /\ Len(SubSeq(t, 1, Len(s))) = Len(s)
             /\ \A i \in 1..Len(s) : SubSeq(t, 1, Len(s))[i] = t[i]
    BY <1>2, SubSeqProperties
<1>3. QED
    BY <1>1, <1>2, SeqEqual DEF IsPrefix

\* A sequence is a prefix of itself and of itself with more behind it.
LEMMA PrefixOfConcat ==
  ASSUME NEW S, NEW s \in Seq(S), NEW t \in Seq(S)
  PROVE  IsPrefix(s, s \o t) /\ IsPrefix(s, s)
<1>1. /\ s \o t \in Seq(S) /\ Len(s \o t) = Len(s) + Len(t)
      /\ \A i \in 1..(Len(s) + Len(t)) : i <= Len(s) => (s \o t)[i] = s[i]
    BY ConcatProperties
<1>2. \A i \in 1..Len(s) : s[i] = (s \o t)[i]
    BY <1>1
<1>3. Len(s) <= Len(s \o t)
    BY <1>1
<1>4. IsPrefix(s, s \o t)
    BY <1>1, <1>2, <1>3, PrefixElements, Zenon
<1>5. IsPrefix(s, s)
    BY PrefixElements
<1>6. QED
    BY <1>4, <1>5

\* Concatenation is associative, with the inner results named.
LEMMA ConcatRegroup ==
  ASSUME NEW S, NEW s \in Seq(S), NEW t \in Seq(S), NEW u \in Seq(S),
         NEW v, v = s \o t, NEW w, w = t \o u
  PROVE  v \o u = s \o w
BY ConcatAssociative

\* A prefix of a prefix is a prefix.
LEMMA PrefixTransitive ==
  ASSUME NEW S, NEW s \in Seq(S), NEW t \in Seq(S), NEW u \in Seq(S),
         IsPrefix(s, t), IsPrefix(t, u)
  PROVE  IsPrefix(s, u)
BY PrefixElements

\* The first index of a set, or 0.
LEMMA FirstIndex ==
  ASSUME NEW n \in Nat, NEW I \in SUBSET (1..n), NEW end, end = IF I # {} THEN Min(I) ELSE 0
  PROVE  \/ end = 0 /\ I = {}
         \/ end \in I /\ end \in 1..n /\ \A i \in 1..(end - 1) : i \notin I
<1>1. CASE I = {}
    BY <1>1
<1>2. CASE I # {}
  <2>1. I \in SUBSET Nat /\ end = Min(I)
        BY <1>2
  <2>2. end \in I /\ \A i \in I : end <= i
        BY <1>2, <2>1, MinIsLeast
  <2>3. QED
        BY <2>2
<1>3. QED
    BY <1>1, <1>2

\* SelectInSeq returns the first index of an element of F, or 0.
LEMMA FirstInSet ==
  ASSUME NEW S, NEW s \in Seq(S), NEW F
  PROVE  LET end == SelectInSeq(s, LAMBDA x : x \in F) IN
           \/ end = 0 /\ \A i \in 1..Len(s) : s[i] \notin F
           \/ /\ end \in 1..Len(s) /\ s[end] \in F
              /\ \A i \in 1..(end - 1) : s[i] \notin F
<1> DEFINE I == {i \in 1..Len(s) : s[i] \in F}
<1>1. PICK end : end = SelectInSeq(s, LAMBDA x : x \in F)
    OBVIOUS
<1>2. end = IF I # {} THEN Min(I) ELSE 0
    BY <1>1 DEF SelectInSeq
<1>3. Len(s) \in Nat /\ I \in SUBSET (1..Len(s))
    OBVIOUS
<1>4. \/ end = 0 /\ I = {}
      \/ end \in I /\ end \in 1..Len(s) /\ \A i \in 1..(end - 1) : i \notin I
  <2> HIDE DEF I
  <2>1. QED
        BY <1>2, <1>3, FirstIndex
<1>5. \/ end = 0 /\ \A i \in 1..Len(s) : s[i] \notin F
      \/ end \in 1..Len(s) /\ s[end] \in F /\ \A i \in 1..(end - 1) : s[i] \notin F
    BY <1>4
<1>6. QED
    BY <1>1, <1>5
=============================================================================
