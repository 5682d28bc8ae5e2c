-------------------------- MODULE TranscriptLemmas --------------------------
(***************************************************************************)
(* What the proofs about both servers need to know of the transcript of    *)
(* answers that HttpService promises, of a client's bytes, and of the      *)
(* types of what a connection holds.                                       *)
(***************************************************************************)
EXTENDS Connections, SequenceLemmas

-----------------------------------------------------------------------------
(* The transcript of HttpService, of any requests, answers and final        *)
(* requests.  A server's instance of HttpService is one of these.           *)

PartsOf(n, status, size) ==
  [k \in 1..size |-> [request |-> n, status |-> status, part |-> k]]

PartsAfter(n, status, from, m) ==
  [k \in 1..m |-> [request |-> n, status |-> status, part |-> from + k]]

AnswerOf(n, r, Answer, Size) ==
  IF Answer[r] = "none" THEN <<>> ELSE PartsOf(n, Answer[r], Size[Answer[r]])

TranscriptOf(rs, Answer, Size, Final) ==
  LET end == SelectInSeq(rs, LAMBDA r : r \in Final)
      answers == [n \in 1..(IF end = 0 THEN Len(rs) ELSE end) |->
                    AnswerOf(n, rs[n], Answer, Size)]
  IN FlattenSeq(answers)

\* The answers have a number of parts.
Sized(Answer, Size) ==
  \A r \in Requests : Answer[r] = "none" \/ Size[Answer[r]] \in Nat

AnswerPart(Answer) ==
  [request : Nat, status : {Answer[r] : r \in Requests}, part : Nat]

\* The requests more are rs and another one.
OneMore(more, rs) == Len(more) = Len(rs) + 1 /\ \A n \in 1..Len(rs) : more[n] = rs[n]

NoneFinal(rs, Final) == \A n \in 1..Len(rs) : rs[n] \notin Final

\* Parts are parts.
LEMMA PartsOfType ==
  ASSUME NEW n \in Nat, NEW status, NEW size \in Nat, NEW S, status \in S
  PROVE  /\ PartsOf(n, status, size) \in Seq([request : Nat, status : S, part : Nat])
         /\ Len(PartsOf(n, status, size)) = size
BY DEF PartsOf

\* So are the parts that follow.
LEMMA PartsAfterType ==
  ASSUME NEW n \in Nat, NEW status, NEW from \in Nat, NEW m \in Nat, NEW S, status \in S
  PROVE  /\ PartsAfter(n, status, from, m) \in Seq([request : Nat, status : S, part : Nat])
         /\ Len(PartsAfter(n, status, from, m)) = m
<1>1. \A k \in 1..m : from + k \in Nat
    OBVIOUS
<1>2. QED
    BY <1>1 DEF PartsAfter

\* The first parts of a response, and m more.
LEMMA PartsOfConcat ==
  ASSUME NEW n, NEW status, NEW from \in Nat, NEW m \in Nat
  PROVE  PartsOf(n, status, from) \o PartsAfter(n, status, from, m) = PartsOf(n, status, from + m)
<1> DEFINE S == [request : {n}, status : {status}, part : Nat]
           a == PartsOf(n, status, from)
           b == PartsOf(n, status, from + m)
           more == PartsAfter(n, status, from, m)
<1>1. /\ a \in Seq(S) /\ Len(a) = from
      /\ \A k \in 1..from : a[k] = [request |-> n, status |-> status, part |-> k]
    BY DEF PartsOf
<1>2. /\ b \in Seq(S) /\ Len(b) = from + m
      /\ \A k \in 1..(from + m) : b[k] = [request |-> n, status |-> status, part |-> k]
    BY DEF PartsOf
<1>3. /\ more \in Seq(S) /\ Len(more) = m
      /\ \A k \in 1..m : more[k] = [request |-> n, status |-> status, part |-> from + k]
    BY DEF PartsAfter
<1> HIDE DEF S, a, b, more
<1>4. /\ a \o more \in Seq(S) /\ Len(a \o more) = from + m
      /\ \A k \in 1..(from + m) : (a \o more)[k] = IF k <= from THEN a[k] ELSE more[k - from]
    BY <1>1, <1>3, ConcatProperties, ZenonT(60)
<1>5. \A k \in 1..(from + m) : (a \o more)[k] = b[k]
  <2> SUFFICES ASSUME NEW k \in 1..(from + m) PROVE (a \o more)[k] = b[k]
      OBVIOUS
  <2>1. k > from => k - from \in 1..m /\ from + (k - from) = k
        OBVIOUS
  <2>2. k > from => more[k - from] = [request |-> n, status |-> status, part |-> k]
        BY <1>3, <2>1
  <2>3. k <= from => a[k] = [request |-> n, status |-> status, part |-> k]
        BY <1>1
  <2>4. QED
        BY <1>2, <1>4, <2>2, <2>3
<1>6. a \o more = b
    BY <1>2, <1>4, <1>5, SeqEqual
<1>7. QED
    BY <1>6 DEF a, b, more

\* An answer is a sequence of parts...
LEMMA AnswerOfType ==
  ASSUME NEW Answer, NEW Size, Sized(Answer, Size),
         NEW n \in Nat, NEW r \in Requests
  PROVE  AnswerOf(n, r, Answer, Size) \in Seq(AnswerPart(Answer))
<1>1. CASE Answer[r] = "none"
    BY <1>1 DEF AnswerOf
<1>2. CASE Answer[r] # "none"
  <2>1. Size[Answer[r]] \in Nat /\ Answer[r] \in {Answer[q] : q \in Requests}
        BY <1>2 DEF Sized
  <2>2. QED
        BY <1>2, <2>1, PartsOfType DEF AnswerOf, AnswerPart
<1>3. QED
    BY <1>1, <1>2

\* The answers to the requests up to the last one that is served.
AnswersTo(rs, k, Answer, Size) == [n \in 1..k |-> AnswerOf(n, rs[n], Answer, Size)]

\* ... and the answers to k requests are k of them.
LEMMA AnswersToType ==
  ASSUME NEW Answer, NEW Size, Sized(Answer, Size),
         NEW rs \in Seq(Requests), NEW k \in 0..Len(rs)
  PROVE  /\ AnswersTo(rs, k, Answer, Size) \in Seq(Seq(AnswerPart(Answer)))
         /\ Len(AnswersTo(rs, k, Answer, Size)) = k
<1>1. \A n \in 1..k : AnswerOf(n, rs[n], Answer, Size) \in Seq(AnswerPart(Answer))
    BY AnswerOfType
<1>2. QED
    BY <1>1 DEF AnswersTo

\* The transcript answers the requests up to the first final one, or all.
LEMMA TranscriptIs ==
  ASSUME NEW rs \in Seq(Requests), NEW Answer, NEW Size, NEW Final
  PROVE  \E k \in 0..Len(rs) :
           /\ TranscriptOf(rs, Answer, Size, Final) = FlattenSeq(AnswersTo(rs, k, Answer, Size))
           /\ \A n \in 1..(k - 1) : rs[n] \notin Final
           /\ k = Len(rs) \/ (k \in 1..Len(rs) /\ rs[k] \in Final)
<1> DEFINE end == SelectInSeq(rs, LAMBDA r : r \in Final)
           k == IF end = 0 THEN Len(rs) ELSE end
<1>1. TranscriptOf(rs, Answer, Size, Final) = FlattenSeq(AnswersTo(rs, k, Answer, Size))
    BY DEF TranscriptOf, AnswersTo
<1>2. \/ end = 0 /\ \A i \in 1..Len(rs) : rs[i] \notin Final
      \/ /\ end \in 1..Len(rs) /\ rs[end] \in Final
         /\ \A i \in 1..(end - 1) : rs[i] \notin Final
    BY FirstInSet
<1>3. /\ k \in 0..Len(rs) /\ \A n \in 1..(k - 1) : rs[n] \notin Final
      /\ k = Len(rs) \/ (k \in 1..Len(rs) /\ rs[k] \in Final)
  <2> HIDE DEF end
  <2>1. QED
        BY <1>2
<1>4. QED
  <2> HIDE DEF k
  <2>1. QED
        BY <1>1, <1>3

\* The transcript is a sequence of parts.
LEMMA TranscriptType ==
  ASSUME NEW rs \in Seq(Requests), NEW Answer, NEW Size, NEW Final,
         Sized(Answer, Size)
  PROVE  TranscriptOf(rs, Answer, Size, Final) \in Seq(AnswerPart(Answer))
BY TranscriptIs, AnswersToType, FlattenSeqType

\* No request, no answer.
LEMMA TranscriptEmpty ==
  ASSUME NEW Answer, NEW Size, NEW Final
  PROVE  TranscriptOf(<<>>, Answer, Size, Final) = <<>>
<1>1. PICK rs \in Seq(Requests) : rs = <<>> /\ Len(rs) = 0
    BY EmptySeq, Zenon
<1>2. PICK k \in 0..Len(rs) :
        TranscriptOf(rs, Answer, Size, Final) = FlattenSeq(AnswersTo(rs, k, Answer, Size))
    BY TranscriptIs
<1>3. AnswersTo(rs, k, Answer, Size) = <<>>
    BY <1>1 DEF AnswersTo
<1>4. QED
    BY <1>1, <1>2, <1>3 DEF FlattenSeq

\* One more request after others that are all served adds its answer...
LEMMA TranscriptServed ==
  ASSUME NEW rs \in Seq(Requests), NEW more \in Seq(Requests),
         NEW Answer, NEW Size, NEW Final, Sized(Answer, Size),
         OneMore(more, rs), NoneFinal(rs, Final)
  PROVE  TranscriptOf(more, Answer, Size, Final)
           = TranscriptOf(rs, Answer, Size, Final)
               \o AnswerOf(Len(more), more[Len(more)], Answer, Size)
<1>1. PICK k \in 0..Len(rs) :
        /\ TranscriptOf(rs, Answer, Size, Final) = FlattenSeq(AnswersTo(rs, k, Answer, Size))
        /\ k = Len(rs) \/ (k \in 1..Len(rs) /\ rs[k] \in Final)
    BY TranscriptIs
<1>2. PICK j \in 0..Len(more) :
        /\ TranscriptOf(more, Answer, Size, Final) = FlattenSeq(AnswersTo(more, j, Answer, Size))
        /\ j = Len(more) \/ (j \in 1..Len(more) /\ more[j] \in Final)
    BY TranscriptIs
<1>3. k = Len(rs) /\ j = k + 1 /\ j = Len(more)
    BY <1>1, <1>2 DEF NoneFinal, OneMore
<1>4. /\ AnswersTo(rs, k, Answer, Size) \in Seq(Seq(AnswerPart(Answer)))
      /\ Len(AnswersTo(rs, k, Answer, Size)) = k
    BY AnswersToType
<1>5. /\ AnswersTo(more, j, Answer, Size) \in Seq(Seq(AnswerPart(Answer)))
      /\ Len(AnswersTo(more, j, Answer, Size)) = j
    BY AnswersToType
<1>6. \A n \in 1..k : AnswersTo(more, j, Answer, Size)[n] = AnswersTo(rs, k, Answer, Size)[n]
    BY <1>3 DEF AnswersTo, OneMore
<1>7. AnswersTo(more, j, Answer, Size)[j] = AnswerOf(j, more[j], Answer, Size)
    BY <1>3 DEF AnswersTo
<1>8. QED
  <2> DEFINE a == AnswersTo(rs, k, Answer, Size)
             b == AnswersTo(more, j, Answer, Size)
  <2>1. FlattenSeq(b) = FlattenSeq(a) \o b[Len(b)]
    <3>1. /\ a \in Seq(Seq(AnswerPart(Answer))) /\ b \in Seq(Seq(AnswerPart(Answer)))
          /\ Len(b) = Len(a) + 1 /\ \A n \in 1..Len(a) : b[n] = a[n]
          BY <1>3, <1>4, <1>5, <1>6
    <3> HIDE DEF a, b
    <3>2. QED
          BY <3>1, FlattenSeqAppend
  <2>2. QED
        BY <1>1, <1>2, <1>3, <1>5, <1>7, <2>1

\* ... and changes nothing after one that is final.
LEMMA TranscriptEnded ==
  ASSUME NEW rs \in Seq(Requests), NEW more \in Seq(Requests),
         NEW Answer, NEW Size, NEW Final,
         OneMore(more, rs), ~NoneFinal(rs, Final)
  PROVE  TranscriptOf(more, Answer, Size, Final) = TranscriptOf(rs, Answer, Size, Final)
<1>1. PICK k \in 0..Len(rs) :
        /\ TranscriptOf(rs, Answer, Size, Final) = FlattenSeq(AnswersTo(rs, k, Answer, Size))
        /\ \A n \in 1..(k - 1) : rs[n] \notin Final
        /\ k = Len(rs) \/ (k \in 1..Len(rs) /\ rs[k] \in Final)
    BY TranscriptIs
<1>2. PICK j \in 0..Len(more) :
        /\ TranscriptOf(more, Answer, Size, Final) = FlattenSeq(AnswersTo(more, j, Answer, Size))
        /\ \A n \in 1..(j - 1) : more[n] \notin Final
        /\ j = Len(more) \/ (j \in 1..Len(more) /\ more[j] \in Final)
    BY TranscriptIs
<1>3. PICK n \in 1..Len(rs) : rs[n] \in Final
    BY DEF NoneFinal
<1>4. k \in 1..Len(rs) /\ rs[k] \in Final
    BY <1>1, <1>3
<1>5. j = k
    BY <1>1, <1>2, <1>4 DEF OneMore
<1>6. AnswersTo(more, j, Answer, Size) = AnswersTo(rs, k, Answer, Size)
    BY <1>5 DEF AnswersTo, OneMore
<1>7. QED
    BY <1>1, <1>2, <1>6

\* The transcript only grows with the requests...
LEMMA TranscriptGrows ==
  ASSUME NEW rs \in Seq(Requests), NEW more \in Seq(Requests),
         NEW Answer, NEW Size, NEW Final, Sized(Answer, Size),
         OneMore(more, rs)
  PROVE  IsPrefix(TranscriptOf(rs, Answer, Size, Final), TranscriptOf(more, Answer, Size, Final))
<1>1. PICK S : S = AnswerPart(Answer)
    OBVIOUS
<1>2. PICK s \in Seq(S) : s = TranscriptOf(rs, Answer, Size, Final)
    BY <1>1, TranscriptType
<1>3. PICK a \in Seq(S) : a = AnswerOf(Len(more), more[Len(more)], Answer, Size)
  <2>1. Len(more) \in Nat /\ more[Len(more)] \in Requests
        BY DEF OneMore
  <2>2. AnswerOf(Len(more), more[Len(more)], Answer, Size) \in Seq(S)
        BY <1>1, <2>1, AnswerOfType
  <2>3. QED
        BY <2>2
<1>4. IsPrefix(s, s) /\ IsPrefix(s, s \o a)
    BY PrefixOfConcat
<1>5. CASE NoneFinal(rs, Final)
  <2>1. TranscriptOf(more, Answer, Size, Final)
          = TranscriptOf(rs, Answer, Size, Final)
              \o AnswerOf(Len(more), more[Len(more)], Answer, Size)
        BY <1>5, TranscriptServed
  <2>2. TranscriptOf(more, Answer, Size, Final) = s \o a
        BY <1>2, <1>3, <2>1
  <2>3. QED
        BY <1>2, <1>4, <2>2
<1>6. CASE ~NoneFinal(rs, Final)
  <2>1. TranscriptOf(more, Answer, Size, Final) = s
        BY <1>2, <1>6, TranscriptEnded
  <2>2. QED
        BY <1>2, <1>4, <2>1
<1>7. QED
    BY <1>5, <1>6

\* ... so that of the first requests is a prefix of that of all.
LEMMA TranscriptPrefix ==
  ASSUME NEW rs \in Seq(Requests), NEW Answer, NEW Size, NEW Final,
         Sized(Answer, Size), NEW k \in 0..Len(rs)
  PROVE  IsPrefix(TranscriptOf(SubSeq(rs, 1, k), Answer, Size, Final),
                  TranscriptOf(rs, Answer, Size, Final))
<1> DEFINE Tr(m) == TranscriptOf(SubSeq(rs, 1, m), Answer, Size, Final)
           T == {m \in Nat : k + m <= Len(rs) => IsPrefix(Tr(k), Tr(k + m))}
<1>1. ASSUME NEW m \in 0..Len(rs)
      PROVE  /\ SubSeq(rs, 1, m) \in Seq(Requests) /\ Len(SubSeq(rs, 1, m)) = m
             /\ \A n \in 1..m : SubSeq(rs, 1, m)[n] = rs[n]
    BY SubSeqProperties
<1>2. PICK S : S = AnswerPart(Answer)
    OBVIOUS
<1>3. \A m \in 0..Len(rs) : Tr(m) \in Seq(S)
    BY <1>1, <1>2, TranscriptType
<1>4. ASSUME NEW i \in 0..Len(rs), NEW j \in 0..Len(rs), j = i + 1 PROVE IsPrefix(Tr(i), Tr(j))
  <2>1. PICK a \in Seq(Requests) : a = SubSeq(rs, 1, i)
        BY <1>1
  <2>2. PICK b \in Seq(Requests) : b = SubSeq(rs, 1, j)
        BY <1>1
  <2>3. OneMore(b, a)
        BY <1>1, <1>4, <2>1, <2>2 DEF OneMore
  <2>4. QED
        BY <2>1, <2>2, <2>3, TranscriptGrows
<1> HIDE DEF Tr
<1>5. 0 \in T
  <2>1. IsPrefix(Tr(k), Tr(k)) /\ k + 0 = k
        BY <1>3, PrefixOfConcat
  <2>2. QED
        BY <2>1
<1>6. ASSUME NEW m \in Nat, m \in T PROVE m + 1 \in T
  <2> SUFFICES ASSUME k + (m + 1) <= Len(rs) PROVE IsPrefix(Tr(k), Tr(k + (m + 1)))
      OBVIOUS
  <2>1. PICK i \in 0..Len(rs) : i = k + m
        OBVIOUS
  <2>2. PICK j \in 0..Len(rs) : j = i + 1 /\ j = k + (m + 1)
        BY <2>1
  <2>3. IsPrefix(Tr(k), Tr(i)) /\ IsPrefix(Tr(i), Tr(j))
        BY <1>4, <1>6, <2>1, <2>2
  <2>4. IsPrefix(Tr(k), Tr(j))
        BY <1>3, <2>3, PrefixTransitive
  <2>5. QED
        BY <2>2, <2>4
<1>7. Nat \subseteq T
  <2> HIDE DEF T
  <2>1. QED
        BY <1>5, <1>6, NatSetInduction
<1>8. PICK m \in Nat : k + m = Len(rs)
  <2>1. Len(rs) - k \in Nat /\ k + (Len(rs) - k) = Len(rs)
        OBVIOUS
  <2>2. QED
        BY <2>1
<1>9. IsPrefix(Tr(k), Tr(Len(rs)))
    BY <1>7, <1>8, SMTT(60)
<1>10. SubSeq(rs, 1, Len(rs)) = rs
    BY SubSeqFull
<1>11. QED
    BY <1>9, <1>10 DEF Tr

-----------------------------------------------------------------------------
(* What has been sent of the transcript.                                   *)

\* None of the first k requests ended the connection.
ServingOf(rs, k, Final) == \A n \in 1..k : rs[n] \notin Final

\* The transcript of the first requests.
LEMMA TrTypeOf ==
  ASSUME NEW Answer, NEW Size, NEW Final, Sized(Answer, Size), NEW rs \in Seq(Requests)
  PROVE  /\ TranscriptOf(rs, Answer, Size, Final) \in Seq(AnswerPart(Answer))
         /\ \A k \in 0..Len(rs) :
              /\ SubSeq(rs, 1, k) \in Seq(Requests)
              /\ TranscriptOf(SubSeq(rs, 1, k), Answer, Size, Final) \in Seq(AnswerPart(Answer))
              /\ IsPrefix(TranscriptOf(SubSeq(rs, 1, k), Answer, Size, Final),
                          TranscriptOf(rs, Answer, Size, Final))
<1>1. \A k \in 0..Len(rs) : SubSeq(rs, 1, k) \in Seq(Requests)
    BY SubSeqProperties
<1>2. QED
    BY <1>1, TranscriptType, TranscriptPrefix

\* The transcript grows by the answer to the next request.
LEMMA NextAnswerOf ==
  ASSUME NEW Answer, NEW Size, NEW Final, Sized(Answer, Size),
         NEW rs \in Seq(Requests), NEW n \in 1..Len(rs), ServingOf(rs, n - 1, Final)
  PROVE  /\ TranscriptOf(SubSeq(rs, 1, n), Answer, Size, Final) =
               IF Answer[rs[n]] = "none"
               THEN TranscriptOf(SubSeq(rs, 1, n - 1), Answer, Size, Final)
               ELSE TranscriptOf(SubSeq(rs, 1, n - 1), Answer, Size, Final)
                      \o PartsOf(n, Answer[rs[n]], Size[Answer[rs[n]]])
         /\ TranscriptOf(SubSeq(rs, 1, n), Answer, Size, Final) \in Seq(AnswerPart(Answer))
         /\ TranscriptOf(SubSeq(rs, 1, n - 1), Answer, Size, Final) \in Seq(AnswerPart(Answer))
         /\ IsPrefix(TranscriptOf(SubSeq(rs, 1, n), Answer, Size, Final),
                     TranscriptOf(rs, Answer, Size, Final))
<1>1. n \in 0..Len(rs) /\ n - 1 \in 0..Len(rs) /\ n \in Nat
    OBVIOUS
<1>2. PICK more : more = SubSeq(rs, 1, n)
    OBVIOUS
<1>3. PICK less : less = SubSeq(rs, 1, n - 1)
    OBVIOUS
<1>4. /\ more \in Seq(Requests) /\ Len(more) = n /\ more[n] = rs[n]
      /\ \A j \in 1..n : more[j] = rs[j]
      /\ TranscriptOf(more, Answer, Size, Final) \in Seq(AnswerPart(Answer))
      /\ IsPrefix(TranscriptOf(more, Answer, Size, Final), TranscriptOf(rs, Answer, Size, Final))
    BY <1>1, <1>2, TrTypeOf
<1>5. /\ less \in Seq(Requests) /\ Len(less) = n - 1
      /\ \A j \in 1..(n - 1) : less[j] = rs[j]
      /\ TranscriptOf(less, Answer, Size, Final) \in Seq(AnswerPart(Answer))
    BY <1>1, <1>3, TrTypeOf
<1>6. OneMore(more, less)
    BY <1>1, <1>4, <1>5, SMTT(60) DEF OneMore
<1>7. NoneFinal(less, Final)
    BY <1>5 DEF NoneFinal, ServingOf
<1>8. TranscriptOf(more, Answer, Size, Final)
        = TranscriptOf(less, Answer, Size, Final)
            \o AnswerOf(Len(more), more[Len(more)], Answer, Size)
  <2>1. PICK a \in Seq(Requests), b \in Seq(Requests) : a = less /\ b = more
        BY <1>4, <1>5
  <2>2. OneMore(b, a) /\ NoneFinal(a, Final)
        BY <1>6, <1>7, <2>1
  <2>3. TranscriptOf(b, Answer, Size, Final)
          = TranscriptOf(a, Answer, Size, Final) \o AnswerOf(Len(b), b[Len(b)], Answer, Size)
        BY <2>2, TranscriptServed
  <2>4. QED
        BY <2>1, <2>3
<1>9. TranscriptOf(more, Answer, Size, Final)
        = TranscriptOf(less, Answer, Size, Final) \o AnswerOf(n, rs[n], Answer, Size)
    BY <1>4, <1>8
<1>10. Answer[rs[n]] = "none" =>
         TranscriptOf(less, Answer, Size, Final) \o AnswerOf(n, rs[n], Answer, Size)
           = TranscriptOf(less, Answer, Size, Final)
  <2>1. TranscriptOf(less, Answer, Size, Final) \o <<>> = TranscriptOf(less, Answer, Size, Final)
        BY <1>5, ConcatEmptySeq
  <2>2. QED
        BY <2>1 DEF AnswerOf
<1>11. QED
    BY <1>2, <1>3, <1>4, <1>5, <1>9, <1>10 DEF AnswerOf

\* Of a response, the parts sent so far follow the answers before it.
LEMMA SentSoFarOf ==
  ASSUME NEW Answer, NEW Size, NEW Final, Sized(Answer, Size),
         NEW rs \in Seq(Requests), NEW n \in 1..Len(rs), ServingOf(rs, n - 1, Final),
         NEW status, status # "none", status = Answer[rs[n]], NEW moved \in 0..Size[status]
  PROVE  IsPrefix(TranscriptOf(SubSeq(rs, 1, n - 1), Answer, Size, Final)
                    \o PartsOf(n, status, moved),
                  TranscriptOf(rs, Answer, Size, Final))
<1>1. PICK all : all = TranscriptOf(SubSeq(rs, 1, n), Answer, Size, Final)
    OBVIOUS
<1>2. PICK before : before = TranscriptOf(SubSeq(rs, 1, n - 1), Answer, Size, Final)
    OBVIOUS
<1>s. PICK size \in Nat : size = Size[status]
    BY DEF Sized
<1>3. PICK more \in Nat : more = size - moved /\ moved \in Nat /\ moved + more = size
  <2>1. size - moved \in Nat /\ moved \in Nat /\ moved + (size - moved) = size
        BY <1>s
  <2>2. QED
        BY <2>1
<1>4. PICK first : first = PartsOf(n, status, moved)
    OBVIOUS
<1>5. PICK last : last = PartsAfter(n, status, moved, more)
    OBVIOUS
<1>S. PICK S : S = AnswerPart(Answer)
    OBVIOUS
<1>6. /\ all \in Seq(S) /\ before \in Seq(S) /\ TranscriptOf(rs, Answer, Size, Final) \in Seq(S)
      /\ IsPrefix(all, TranscriptOf(rs, Answer, Size, Final))
    BY <1>1, <1>2, <1>S, NextAnswerOf, TrTypeOf
<1>8. all = before \o PartsOf(n, status, size)
    BY <1>1, <1>2, <1>s, NextAnswerOf
<1>9. first \o last = PartsOf(n, status, size)
  <2>1. PartsOf(n, status, moved) \o PartsAfter(n, status, moved, more)
          = PartsOf(n, status, moved + more)
        BY <1>3, PartsOfConcat, ZenonT(60)
  <2>2. QED
        BY <1>3, <1>4, <1>5, <2>1, Zenon
<1>10. first \in Seq(S) /\ last \in Seq(S)
  <2>1. PICK Q : Q = {Answer[r] : r \in Requests}
        OBVIOUS
  <2>2. status \in Q /\ n \in Nat
        BY <2>1
  <2>3. PICK T : T = [request : Nat, status : Q, part : Nat]
        OBVIOUS
  <2>4. first \in Seq(T) /\ last \in Seq(T)
        BY <1>3, <1>4, <1>5, <2>2, <2>3, PartsOfType, PartsAfterType
  <2>5. QED
        BY <1>S, <2>1, <2>3, <2>4 DEF AnswerPart
<1>12. before \o first \in Seq(S) /\ (before \o first) \o last = all
  <2>1. before \o first \in Seq(S) /\ (before \o first) \o last = before \o (first \o last)
    <3>1. before \in Seq(S) /\ first \in Seq(S) /\ last \in Seq(S)
          BY <1>6, <1>10
    <3>2. before \o first \in Seq(S)
          BY <3>1, ConcatProperties
    <3>3. (before \o first) \o last = before \o (first \o last)
          BY <3>1, ConcatRegroup
    <3>4. QED
          BY <3>2, <3>3
  <2>2. QED
        BY <1>8, <1>9, <2>1, Zenon
<1>13. IsPrefix(before \o first, (before \o first) \o last)
    BY <1>10, <1>12, PrefixOfConcat
<1>14. IsPrefix(before \o first, TranscriptOf(rs, Answer, Size, Final))
    BY <1>6, <1>12, <1>13, PrefixTransitive
<1>15. QED
    BY <1>2, <1>4, <1>14

\* The parts that Transmit sends are the next ones of the answer.
LEMMA PartsIs ==
  ASSUME NEW n, NEW status, NEW from \in Nat, NEW m \in Nat
  PROVE  Parts(n, status, from + 1, from + m) = PartsAfter(n, status, from, m)
<1>1. (from + m) - (from + 1) + 1 = m /\ \A k \in 1..m : from + 1 + k - 1 = from + k
    OBVIOUS
<1>2. QED
    BY <1>1 DEF Parts, PartsAfter

\* What send() takes continues the response.
SentToOf(rs, n, status, moved, out, Answer, Size, Final) ==
  out = TranscriptOf(SubSeq(rs, 1, n - 1), Answer, Size, Final) \o PartsOf(n, status, moved)

\* m more parts of the response, sent behind the first ones.
LEMMA SendPartsOf ==
  ASSUME NEW Answer, NEW Size, NEW Final, Sized(Answer, Size),
         NEW rs \in Seq(Requests), NEW n \in 1..Len(rs), ServingOf(rs, n - 1, Final), NEW out,
         NEW status, status # "none", status = Answer[rs[n]],
         NEW moved \in Nat, NEW m \in Nat, m # 0,
         SentToOf(rs, n, status, moved, out, Answer, Size, Final),
         NEW parts, parts = Parts(n, status, moved + 1, moved + m), NEW to, to = moved + m
  PROVE  /\ SentToOf(rs, n, status, to, out \o parts, Answer, Size, Final)
         /\ out \o parts \in Seq(AnswerPart(Answer))
         /\ Len(out \o parts) > Len(out)
<1>1. PICK S : S = AnswerPart(Answer)
    OBVIOUS
<1>2. PICK before \in Seq(S) : before = TranscriptOf(SubSeq(rs, 1, n - 1), Answer, Size, Final)
    BY <1>1, NextAnswerOf
<1>3. PICK Q : Q = {Answer[r] : r \in Requests}
    OBVIOUS
<1>4. status \in Q /\ n \in Nat
    BY <1>3
<1>5. S = [request : Nat, status : Q, part : Nat]
    BY <1>1, <1>3 DEF AnswerPart
<1>6. PICK first \in Seq(S) : first = PartsOf(n, status, moved)
    BY <1>4, <1>5, PartsOfType
<1>p. Parts(n, status, moved + 1, moved + m) = PartsAfter(n, status, moved, m)
    BY PartsIs
<1>7. PICK more \in Seq(S) : /\ more = parts /\ Len(more) = m
                             /\ more = PartsAfter(n, status, moved, m)
  <2>1. PartsAfter(n, status, moved, m) \in Seq(S) /\ Len(PartsAfter(n, status, moved, m)) = m
        BY <1>4, <1>5, PartsAfterType
  <2>2. QED
        BY <1>p, <2>1, Zenon
<1>8. first \o more = PartsOf(n, status, moved + m)
  <2>1. PartsOf(n, status, moved) \o PartsAfter(n, status, moved, m) = PartsOf(n, status, moved + m)
        BY <1>4, PartsOfConcat
  <2>2. QED
        BY <1>6, <1>7, <2>1, Zenon
<1>9. out = before \o first
    BY <1>2, <1>6 DEF SentToOf
<1>10. out \in Seq(S) /\ out \o more = before \o (first \o more)
  <2>1. before \o first \in Seq(S)
        BY ConcatProperties
  <2>2. (before \o first) \o more = before \o (first \o more)
        BY ConcatRegroup, SMTT(60)
  <2>3. QED
        BY <1>9, <2>1, <2>2
<1>11. out \o more \in Seq(S) /\ Len(out \o more) = Len(out) + Len(more) /\ Len(out) \in Nat
    BY <1>10, ConcatProperties
<1>12. SentToOf(rs, n, status, to, out \o parts, Answer, Size, Final)
    BY <1>2, <1>7, <1>8, <1>10 DEF SentToOf
<1>13. Len(out \o parts) > Len(out)
    BY <1>7, <1>11
<1>14. QED
    BY <1>1, <1>7, <1>11, <1>12, <1>13

-----------------------------------------------------------------------------
(* The client's bytes.                                                     *)

\* The part of a client's bytes that has not been handled, when its first k
\* requests have been and it has sent L of them.
Arrived(s, k, L) ==
  /\ s \in Seq(Nat) /\ k \in 0..L
  /\ \A j \in 1..Len(s) : s[j] # 0 => s[j] \in (k + 1)..L
  /\ \A i, j \in 1..Len(s) : i < j /\ s[i] # 0 /\ s[j] # 0 => s[i] < s[j]
  /\ \A n \in (k + 1)..L : \E j \in 1..Len(s) : s[j] = n

\* FirstEnd returns the first element that is not 0, or 0.
LEMMA FirstEndIs ==
  ASSUME NEW bytes \in Seq(Nat)
  PROVE  \/ FirstEnd(bytes) = 0 /\ \A j \in 1..Len(bytes) : bytes[j] = 0
         \/ /\ FirstEnd(bytes) \in 1..Len(bytes) /\ bytes[FirstEnd(bytes)] # 0
            /\ \A j \in 1..(FirstEnd(bytes) - 1) : bytes[j] = 0
<1> DEFINE I == {i \in 1..Len(bytes) : bytes[i] # 0}
<1>1. PICK end : end = FirstEnd(bytes)
    OBVIOUS
<1>2. end = IF I # {} THEN Min(I) ELSE 0
    BY <1>1 DEF FirstEnd, SelectInSeq
<1>3. Len(bytes) \in Nat /\ I \in SUBSET (1..Len(bytes))
    OBVIOUS
<1>4. \/ end = 0 /\ I = {}
      \/ end \in I /\ end \in 1..Len(bytes) /\ \A i \in 1..(end - 1) : i \notin I
  <2> HIDE DEF I
  <2>1. QED
        BY <1>2, <1>3, FirstIndex
<1>5. \/ end = 0 /\ \A j \in 1..Len(bytes) : bytes[j] = 0
      \/ end \in 1..Len(bytes) /\ bytes[end] # 0 /\ \A j \in 1..(end - 1) : bytes[j] = 0
    BY <1>4
<1>6. QED
    BY <1>1, <1>5

\* The elements of two sequences in a row.
LEMMA ConcatNat ==
  ASSUME NEW s \in Seq(Nat), NEW t \in Seq(Nat)
  PROVE  /\ s \o t \in Seq(Nat) /\ Len(s \o t) = Len(s) + Len(t)
         /\ \A j \in 1..Len(s) : (s \o t)[j] = s[j]
         /\ \A j \in 1..Len(t) : (s \o t)[Len(s) + j] = t[j]
<1>1. /\ s \o t \in Seq(Nat) /\ Len(s \o t) = Len(s) + Len(t)
      /\ \A i \in 1..(Len(s) + Len(t)) : (s \o t)[i] = IF i <= Len(s) THEN s[i] ELSE t[i - Len(s)]
    BY ConcatProperties
<1>2. \A j \in 1..Len(s) : (s \o t)[j] = s[j]
    BY <1>1
<1>3. ASSUME NEW j \in 1..Len(t) PROVE (s \o t)[Len(s) + j] = t[j]
  <2>1. Len(s) \in Nat /\ Len(t) \in Nat
        OBVIOUS
  <2>2. /\ Len(s) + j \in 1..(Len(s) + Len(t)) /\ ~(Len(s) + j <= Len(s))
        /\ (Len(s) + j) - Len(s) = j
        BY <2>1
  <2>3. QED
        BY <1>1, <2>2
<1>4. QED
    BY <1>1, <1>2, <1>3

\* What After leaves.
LEMMA AfterIs ==
  ASSUME NEW s \in Seq(Nat), NEW end \in 0..Len(s)
  PROVE  /\ SubSeq(s, end + 1, Len(s)) \in Seq(Nat)
         /\ Len(SubSeq(s, end + 1, Len(s))) = Len(s) - end
         /\ \A j \in 1..(Len(s) - end) : SubSeq(s, end + 1, Len(s))[j] = s[end + j]
BY SubSeqProperties

\* The first complete request in the bytes is the first one not handled yet, and
\* the others remain.
FirstAt(s, end) ==
  end \in 1..Len(s) /\ s[end] # 0 /\ \A j \in 1..(end - 1) : s[j] = 0
RestAfter(s, end, t) ==
  t \in Seq(Nat) /\ Len(t) = Len(s) - end /\ \A j \in 1..Len(t) : t[j] = s[end + j]

\* The first complete request of what has arrived is the next to handle.
LEMMA FirstIsNext ==
  ASSUME NEW s, NEW k, NEW L \in Nat, Arrived(s, k, L),
         NEW end, FirstAt(s, end), NEW t, RestAfter(s, end, t)
  PROVE  s[end] = k + 1 /\ k + 1 \in 1..L /\ Arrived(t, k + 1, L)
<1> USE DEF FirstAt, RestAfter
<1>1. s \in Seq(Nat) /\ k \in Nat /\ s[end] \in (k + 1)..L
    BY DEF Arrived
<1>2. s[end] = k + 1
  <2>1. k + 1 \in (k + 1)..L
        BY <1>1
  <2>2. PICK j \in 1..Len(s) : s[j] = k + 1
        BY <2>1 DEF Arrived
  <2>3. j >= end
        BY <1>1, <2>2
  <2>4. j > end => s[end] < s[j]
        BY <1>1, <2>2 DEF Arrived
  <2>5. QED
        BY <1>1, <2>2, <2>3, <2>4
<1>3. ASSUME NEW j \in 1..Len(t), t[j] # 0 PROVE t[j] \in (k + 2)..L
  <2>1. end + j \in 1..Len(s) /\ end < end + j /\ t[j] = s[end + j]
        BY <1>1, <1>3
  <2>2. s[end + j] \in (k + 1)..L /\ s[end] < s[end + j]
        BY <1>3, <2>1 DEF Arrived
  <2>3. QED
        BY <1>1, <1>2, <2>1, <2>2
<1>4. ASSUME NEW i \in 1..Len(t), NEW j \in 1..Len(t), i < j, t[i] # 0, t[j] # 0 PROVE t[i] < t[j]
  <2>1. end + i \in 1..Len(s) /\ end + j \in 1..Len(s) /\ end + i < end + j
        BY <1>1, <1>4
  <2>2. t[i] = s[end + i] /\ t[j] = s[end + j]
        OBVIOUS
  <2>3. QED
        BY <1>4, <2>1, <2>2 DEF Arrived
<1>5. ASSUME NEW n \in (k + 2)..L PROVE \E j \in 1..Len(t) : t[j] = n
  <2>1. n \in (k + 1)..L
        BY <1>1
  <2>2. PICK i \in 1..Len(s) : s[i] = n
        BY <2>1 DEF Arrived
  <2>3. i > end
    <3>1. i # end /\ s[i] # 0
          BY <1>1, <1>2, <2>2
    <3>2. QED
          BY <1>1, <3>1
  <2>4. PICK j \in 1..Len(t) : i = end + j
    <3>1. i - end \in 1..Len(t) /\ i = end + (i - end)
          BY <1>1, <2>3
    <3>2. QED
          BY <3>1
  <2>5. QED
        BY <2>2, <2>4
<1>6. k + 1 \in 0..L /\ (k + 1) + 1 = k + 2
    BY <1>1
<1>7. QED
    BY <1>1, <1>2, <1>3, <1>4, <1>5, <1>6 DEF Arrived

\* The same of the bytes that have been read, which a rest follows.
LEMMA FirstRequest ==
  ASSUME NEW bytes \in Seq(Nat), NEW rest \in Seq(Nat), NEW k, NEW L \in Nat,
         Arrived(bytes \o rest, k, L), FirstEnd(bytes) # 0
  PROVE  /\ bytes[FirstEnd(bytes)] = k + 1 /\ k + 1 \in 1..L
         /\ After(bytes, FirstEnd(bytes)) \in Seq(Nat)
         /\ Arrived(After(bytes, FirstEnd(bytes)) \o rest, k + 1, L)
<1>1. PICK s \in Seq(Nat) : s = bytes \o rest
    BY ConcatNat
<1>2. PICK end \in 1..Len(bytes) : /\ end = FirstEnd(bytes) /\ bytes[end] # 0
                                   /\ \A j \in 1..(end - 1) : bytes[j] = 0
    BY FirstEndIs
<1>3. PICK left \in Seq(Nat) : /\ left = After(bytes, end) /\ Len(left) = Len(bytes) - end
                               /\ \A j \in 1..(Len(bytes) - end) : left[j] = bytes[end + j]
  <2>1. end \in 0..Len(bytes)
        OBVIOUS
  <2>2. /\ After(bytes, end) \in Seq(Nat) /\ Len(After(bytes, end)) = Len(bytes) - end
        /\ \A j \in 1..(Len(bytes) - end) : After(bytes, end)[j] = bytes[end + j]
        BY <2>1, AfterIs DEF After
  <2>3. QED
        BY <2>2, Zenon
<1>4. PICK t \in Seq(Nat) : t = left \o rest
    BY ConcatNat
<1>5. /\ Len(s) = Len(bytes) + Len(rest) /\ \A j \in 1..Len(bytes) : s[j] = bytes[j]
      /\ \A j \in 1..Len(rest) : s[Len(bytes) + j] = rest[j]
    BY <1>1, ConcatNat
<1>6. /\ Len(t) = Len(left) + Len(rest) /\ \A j \in 1..Len(left) : t[j] = left[j]
      /\ \A j \in 1..Len(rest) : t[Len(left) + j] = rest[j]
    BY <1>4, ConcatNat
<1>7. FirstAt(s, end)
  <2>1. Len(bytes) \in Nat /\ Len(rest) \in Nat
        OBVIOUS
  <2>2. end \in 1..Len(s) /\ \A j \in 1..(end - 1) : j \in 1..Len(bytes)
        BY <1>2, <1>5, <2>1
  <2>3. QED
        BY <1>2, <1>5, <2>2 DEF FirstAt
<1>8. Len(t) = Len(s) - end
    BY <1>3, <1>5, <1>6
<1>9. ASSUME NEW j \in 1..Len(t) PROVE t[j] = s[end + j]
  <2>1. Len(bytes) \in Nat /\ Len(rest) \in Nat /\ Len(left) \in Nat
        OBVIOUS
  <2>2. CASE j <= Len(left)
    <3>1. t[j] = left[j] /\ left[j] = bytes[end + j]
          BY <1>3, <1>6, <2>1, <2>2
    <3>2. end + j \in 1..Len(bytes)
          BY <1>3, <2>1, <2>2
    <3>3. QED
          BY <1>5, <3>1, <3>2
  <2>3. CASE j > Len(left)
    <3>1. PICK i \in 1..Len(rest) : j = Len(left) + i /\ end + j = Len(bytes) + i
      <4>1. j - Len(left) \in 1..Len(rest)
            BY <1>6, <2>1, <2>3
      <4>2. j = Len(left) + (j - Len(left)) /\ end + j = Len(bytes) + (j - Len(left))
            BY <1>3, <2>1
      <4>3. QED
            BY <4>1, <4>2
    <3>2. QED
          BY <1>5, <1>6, <3>1
  <2>4. QED
        BY <2>1, <2>2, <2>3
<1>10. s[end] = k + 1 /\ k + 1 \in 1..L /\ Arrived(t, k + 1, L)
  <2>1. RestAfter(s, end, t)
        BY <1>8, <1>9 DEF RestAfter
  <2>2. Arrived(s, k, L)
        BY <1>1
  <2>3. QED
        BY <1>7, <2>1, <2>2, FirstIsNext
<1>11. QED
    BY <1>2, <1>3, <1>4, <1>5, <1>10
\* A piece of a request, and the rest of one, arrive behind what has arrived.
LEMMA ArrivedMore ==
  ASSUME NEW s, NEW k, NEW L \in Nat, Arrived(s, k, L)
  PROVE  Arrived(Append(s, 0), k, L) /\ Arrived(Append(s, L + 1), k, L + 1)
<1>1. s \in Seq(Nat) /\ k \in 0..L /\ k \in Nat /\ Len(s) \in Nat
    BY DEF Arrived
<1>2. ASSUME NEW b \in Nat
      PROVE  /\ Append(s, b) \in Seq(Nat) /\ Len(Append(s, b)) = Len(s) + 1
             /\ \A j \in 1..Len(s) : Append(s, b)[j] = s[j]
             /\ Append(s, b)[Len(s) + 1] = b
    BY <1>1
<1>3. Arrived(Append(s, 0), k, L)
  <2>1. PICK t \in Seq(Nat) :
          /\ t = Append(s, 0) /\ Len(t) = Len(s) + 1 /\ t[Len(s) + 1] = 0
          /\ \A j \in 1..Len(s) : t[j] = s[j]
        BY <1>2
  <2>2. \A j \in 1..Len(t) : t[j] # 0 => j \in 1..Len(s)
        BY <1>1, <2>1
  <2>3. \A n \in (k + 1)..L : \E j \in 1..Len(t) : t[j] = n
    <3>1. \A j \in 1..Len(s) : j \in 1..Len(t)
          BY <1>1, <2>1
    <3>2. QED
          BY <2>1, <3>1 DEF Arrived
  <2>4. QED
        BY <1>1, <2>1, <2>2, <2>3 DEF Arrived
<1>4. Arrived(Append(s, L + 1), k, L + 1)
  <2>1. PICK t \in Seq(Nat) :
          /\ t = Append(s, L + 1) /\ Len(t) = Len(s) + 1 /\ t[Len(s) + 1] = L + 1
          /\ \A j \in 1..Len(s) : t[j] = s[j]
    <3>1. PICK b \in Nat : b = L + 1
          OBVIOUS
    <3>2. QED
          BY <1>2, <3>1
  <2>2. \A j \in 1..Len(t) : j = Len(s) + 1 \/ j \in 1..Len(s)
        BY <1>1, <2>1
  <2>3. \A j \in 1..Len(s) : s[j] # 0 => s[j] \in (k + 1)..L
        BY DEF Arrived
  <2>4. \A j \in 1..Len(t) : t[j] # 0 => t[j] \in (k + 1)..(L + 1)
        BY <1>1, <2>1, <2>2, <2>3
  <2>5. ASSUME NEW i \in 1..Len(t), NEW j \in 1..Len(t), i < j, t[i] # 0, t[j] # 0
        PROVE  t[i] < t[j]
    <3>1. i \in 1..Len(s)
          BY <1>1, <2>1, <2>5
    <3>2. t[i] = s[i] /\ s[i] \in (k + 1)..L
          BY <2>1, <2>3, <2>5, <3>1
    <3>3. CASE j = Len(s) + 1
          BY <1>1, <2>1, <3>2, <3>3
    <3>4. CASE j \in 1..Len(s)
          BY <2>1, <2>5, <3>1, <3>4 DEF Arrived
    <3>5. QED
          BY <2>2, <3>3, <3>4
  <2>6. ASSUME NEW n \in (k + 1)..(L + 1) PROVE \E j \in 1..Len(t) : t[j] = n
    <3>1. CASE n = L + 1
      <4>1. Len(s) + 1 \in 1..Len(t)
            BY <1>1, <2>1
      <4>2. QED
            BY <2>1, <3>1, <4>1
    <3>2. CASE n # L + 1
      <4>1. n \in (k + 1)..L
            BY <1>1, <3>2
      <4>2. PICK j \in 1..Len(s) : s[j] = n
            BY <4>1 DEF Arrived
      <4>3. j \in 1..Len(t)
            BY <1>1, <2>1
      <4>4. QED
            BY <2>1, <4>2, <4>3
    <3>3. QED
          BY <3>1, <3>2
  <2>7. k \in 0..(L + 1)
        BY <1>1
  <2>8. QED
        BY <2>1, <2>4, <2>5, <2>6, <2>7 DEF Arrived
<1>5. QED
    BY <1>3, <1>4

\* One more byte at the end of the second of two sequences.
LEMMA ConcatAppend ==
  ASSUME NEW s \in Seq(Nat), NEW t \in Seq(Nat), NEW b \in Nat
  PROVE  s \o Append(t, b) = Append(s \o t, b)
<1>1. Append(t, b) \in Seq(Nat) /\ Append(t, b) = t \o <<b>> /\ <<b>> \in Seq(Nat)
    BY AppendIsConcat
<1>2. s \o t \in Seq(Nat) /\ Append(s \o t, b) = (s \o t) \o <<b>>
    BY ConcatNat, AppendIsConcat
<1>3. (s \o t) \o <<b>> = s \o (t \o <<b>>)
    BY <1>1, ConcatRegroup
<1>4. QED
    BY <1>1, <1>2, <1>3

\* recv() moves bytes from the inbox to the end of the buffer.
LEMMA ReceivedBytes ==
  ASSUME NEW s \in Seq(Nat), NEW t \in Seq(Nat), NEW m \in 0..Len(t)
  PROVE  /\ s \o SubSeq(t, 1, m) \in Seq(Nat) /\ SubSeq(t, m + 1, Len(t)) \in Seq(Nat)
         /\ (s \o SubSeq(t, 1, m)) \o SubSeq(t, m + 1, Len(t)) = s \o t
<1>1. /\ SubSeq(t, 1, m) \in Seq(Nat) /\ SubSeq(t, m + 1, Len(t)) \in Seq(Nat)
      /\ SubSeq(t, 1, Len(t)) = t
    OBVIOUS
<1>2. PICK a \in Seq(Nat), b \in Seq(Nat) : a = SubSeq(t, 1, m) /\ b = SubSeq(t, m + 1, Len(t))
    BY <1>1
<1>3. a \o b = t
  <2>1. 1 \in 1..(Len(t) + 1) /\ m \in (1 - 1)..Len(t) /\ Len(t) \in m..Len(t)
        OBVIOUS
  <2>2. SubSeq(t, 1, m) \o SubSeq(t, m + 1, Len(t)) = SubSeq(t, 1, Len(t))
        BY <2>1, ConcatAdjacentSubSeq
  <2>3. QED
        BY <1>1, <1>2, <2>2, Zenon
<1>4. (s \o a) \o b = s \o (a \o b)
    BY ConcatRegroup
<1>5. QED
    BY <1>1, <1>2, <1>3, <1>4, ConcatNat

-----------------------------------------------------------------------------
(* What a client does to its connection.                                   *)

\* What a client sends arrives behind the rest, and no connection but its own
\* changes.
ArrivesAtEnd(c) ==
  \A s \in Seq(Nat), k \in Nat :
    Arrived(s \o inbox[c], k, Len(asked[c])) => Arrived(s \o inbox'[c], k, Len(asked'[c]))
Asks(c) ==
  /\ Len(asked[c]) < MaxRequests
  /\ \E r \in Requests : asked' = [asked EXCEPT ![c] = Append(@, r)]
ClientEffect(c) ==
  /\ UNCHANGED <<closed, buffer, wire>>
  /\ \A d \in Conns : d # c => /\ conn'[d] = conn[d] /\ asked'[d] = asked[d]
                               /\ peer'[d] = peer[d] /\ inbox'[d] = inbox[d]
  /\ conn'[c] = conn[c] \/ (conn[c] = "away" /\ conn'[c] = "backlog" /\ c \notin closed)
  /\ asked'[c] = asked[c] \/ OneMore(asked'[c], asked[c])
  /\ peer'[c] # "reset" => peer[c] # "reset"
  /\ inbox'[c] \in Seq(Nat) /\ asked'[c] \in Seq(Requests) /\ ArrivesAtEnd(c)
  /\ asked' = asked \/ Asks(c)

\* Every step of a client is of that kind.
LEMMA ClientEffectIs ==
  ASSUME NEW c \in Conns, Client(c), inbox \in [Conns -> Seq(Nat)],
         asked \in [Conns -> Seq(Requests)], peer \in [Conns -> {"open", "fin", "reset"}],
         conn = [d \in Conns |-> conn[d]]
  PROVE  ClientEffect(c)
<1>1. Len(asked[c]) \in Nat /\ inbox[c] \in Seq(Nat) /\ asked[c] \in Seq(Requests)
    OBVIOUS
<1>2. UNCHANGED <<closed, buffer, wire>>
    BY DEF Client, Connect, SendPiece, SendRequest, Finish, Reset
<1>3. CASE UNCHANGED <<inbox, asked>>
  <2>1. ArrivesAtEnd(c)
        BY <1>3 DEF ArrivesAtEnd
  <2>2. CASE Connect(c)
    <3>1. /\ c \notin closed /\ conn[c] = "away" /\ conn' = [conn EXCEPT ![c] = "backlog"]
          /\ peer' = peer
          BY <2>2 DEF Connect, clientVars
    <3>2. QED
          BY <1>1, <1>2, <1>3, <2>1, <3>1 DEF ClientEffect
  <2>3. CASE Finish(c) \/ Reset(c)
    <3>1. /\ conn' = conn /\ (peer'[c] # "reset" => peer[c] # "reset")
          /\ \A d \in Conns : d # c => peer'[d] = peer[d]
          BY <2>3 DEF Finish, Reset
    <3>2. QED
          BY <1>1, <1>2, <1>3, <2>1, <3>1 DEF ClientEffect
  <2>4. CASE SendPiece(c) \/ SendRequest(c)
    <3>1. inbox' = [inbox EXCEPT ![c] = Append(inbox[c], 0)]
          \/ inbox' = [inbox EXCEPT ![c] = Append(inbox[c], Len(asked[c]) + 1)]
          BY <2>4 DEF SendPiece, SendRequest
    <3>2. Len(inbox'[c]) = Len(inbox[c]) + 1 /\ Len(inbox[c]) \in Nat
          BY <1>1, <3>1
    <3>3. QED
          BY <1>3, <3>2
  <2>5. QED
        BY <2>2, <2>3, <2>4 DEF Client
<1>4. CASE SendPiece(c)
  <2>1. /\ inbox' = [inbox EXCEPT ![c] = Append(inbox[c], 0)] /\ UNCHANGED <<conn, peer, asked>>
        BY <1>4 DEF SendPiece
  <2>2. ASSUME NEW s \in Seq(Nat), NEW k \in Nat, Arrived(s \o inbox[c], k, Len(asked[c]))
        PROVE  Arrived(s \o inbox'[c], k, Len(asked'[c]))
    <3>1. s \o Append(inbox[c], 0) = Append(s \o inbox[c], 0)
          BY <1>1, ConcatAppend
    <3>2. Arrived(Append(s \o inbox[c], 0), k, Len(asked[c]))
          BY <1>1, <2>2, ArrivedMore
    <3>3. QED
          BY <1>1, <2>1, <3>1, <3>2
  <2>3. ArrivesAtEnd(c)
        BY <2>2 DEF ArrivesAtEnd
  <2>4. inbox'[c] = Append(inbox[c], 0) /\ \A d \in Conns : d # c => inbox'[d] = inbox[d]
        BY <2>1
  <2>5. QED
        BY <1>1, <1>2, <2>1, <2>3, <2>4 DEF ClientEffect
<1>5. CASE SendRequest(c)
  <2>1. PICK r \in Requests :
          /\ asked' = [asked EXCEPT ![c] = Append(asked[c], r)] /\ Len(asked[c]) < MaxRequests
          /\ inbox' = [inbox EXCEPT ![c] = Append(inbox[c], Len(asked[c]) + 1)]
          /\ UNCHANGED <<conn, peer>>
        BY <1>5 DEF SendRequest
  <2>2. PICK L \in Nat : L = Len(asked[c])
        BY <1>1
  <2>3. /\ asked'[c] = Append(asked[c], r) /\ inbox'[c] = Append(inbox[c], L + 1)
        /\ \A d \in Conns : d # c => asked'[d] = asked[d] /\ inbox'[d] = inbox[d]
        BY <1>1, <2>1, <2>2
  <2>4. Len(asked'[c]) = L + 1 /\ \A n \in 1..L : asked'[c][n] = asked[c][n]
        BY <1>1, <2>2, <2>3
  <2>5. OneMore(asked'[c], asked[c])
        BY <2>2, <2>4 DEF OneMore
  <2>6. ASSUME NEW s \in Seq(Nat), NEW k \in Nat, Arrived(s \o inbox[c], k, Len(asked[c]))
        PROVE  Arrived(s \o inbox'[c], k, Len(asked'[c]))
    <3>1. PICK b \in Nat : b = L + 1
          OBVIOUS
    <3>2. s \o Append(inbox[c], b) = Append(s \o inbox[c], b)
          BY <1>1, ConcatAppend
    <3>3. Arrived(Append(s \o inbox[c], L + 1), k, L + 1)
          BY <2>2, <2>6, ArrivedMore
    <3>4. QED
          BY <2>3, <2>4, <3>1, <3>2, <3>3
  <2>7. ArrivesAtEnd(c)
        BY <2>6 DEF ArrivesAtEnd
  <2>8. inbox'[c] \in Seq(Nat) /\ asked'[c] \in Seq(Requests)
        BY <1>1, <2>2, <2>3
  <2>9. Asks(c)
        BY <2>1 DEF Asks
  <2>10. QED
        BY <1>2, <2>1, <2>3, <2>5, <2>7, <2>8, <2>9 DEF ClientEffect
<1>6. QED
  <2>1. Connect(c) \/ Finish(c) \/ Reset(c) => UNCHANGED <<inbox, asked>>
        BY DEF Connect, Finish, Reset, clientVars
  <2>2. QED
        BY <1>3, <1>4, <1>5, <2>1 DEF Client

\* No server has read from the connection or written to it.
NotServed(c) ==
  /\ wire[c] = <<>> /\ buffer[c] = <<>> /\ Arrived(inbox[c], 0, Len(asked[c]))

\* A client does not change that.
LEMMA NotServedStill ==
  ASSUME NEW c \in Conns, ClientEffect(c), NotServed(c), inbox[c] \in Seq(Nat)
  PROVE  NotServed(c)'
<1>1. <<>> \o inbox[c] = inbox[c] /\ <<>> \o inbox'[c] = inbox'[c]
  <2>1. inbox'[c] \in Seq(Nat)
        BY DEF ClientEffect
  <2>2. QED
        BY <2>1, ConcatEmptySeq
<1>2. PICK none \in Seq(Nat) : none = <<>>
  <2>1. <<>> \in Seq(Nat)
        OBVIOUS
  <2>2. QED
        BY <2>1
<1>3. Arrived(none \o inbox[c], 0, Len(asked[c]))
    BY <1>1, <1>2 DEF NotServed
<1>4. Arrived(none \o inbox'[c], 0, Len(asked'[c]))
    BY <1>3 DEF ClientEffect, ArrivesAtEnd
<1>5. QED
    BY <1>1, <1>2, <1>4 DEF ClientEffect, NotServed

-----------------------------------------------------------------------------
(* The types of what a connection holds.                                   *)

AnyPart(S) == [request : 1..MaxRequests, status : S, part : Nat \ {0}]

\* Symbols stand for requests that have been sent.
Symbols(c) ==
  /\ Len(asked[c]) <= MaxRequests
  /\ inbox[c] \in Seq(0..Len(asked[c])) /\ buffer[c] \in Seq(0..Len(asked[c]))
ConnectionsInv(S) == ConnectionsTypeOK(S) /\ \A c \in Conns : Symbols(c)

\* A sequence of small numbers is one of larger ones.
LEMMA Widen ==
  ASSUME NEW L \in Nat, NEW M \in Nat, L <= M, NEW s \in Seq(0..L)
  PROVE  s \in Seq(0..M)
<1>1. \A j \in 1..Len(s) : s[j] \in 0..M
    OBVIOUS
<1>2. s = [j \in 1..Len(s) |-> s[j]] /\ Len(s) \in Nat
    OBVIOUS
<1>3. QED
    BY <1>1, <1>2

\* Nothing has been sent at first.
LEMMA InitConnections ==
  ASSUME NEW S, ConnectionsInit
  PROVE  ConnectionsInv(S)
<1>1. ASSUME NEW T PROVE <<>> \in Seq(T)
    OBVIOUS
<1>2. Len(<<>>) = 0 /\ MaxRequests \in Nat
    BY ConnectionsAssumption
<1>3. ConnectionsTypeOK(S)
    BY <1>1 DEF ConnectionsInit, ConnectionsTypeOK
<1>4. \A c \in Conns : Symbols(c)
    BY <1>1, <1>2 DEF ConnectionsInit, Symbols
<1>5. QED
    BY <1>3, <1>4 DEF ConnectionsInv

\* A client's step keeps the types, and the requests sent only become more.
LEMMA ClientTyped ==
  ASSUME NEW S, ConnectionsInv(S), NEW c \in Conns, Client(c)
  PROVE  ConnectionsInv(S)' /\ \A d \in Conns : Len(asked[d]) <= Len(asked'[d])
<1>1. /\ MaxRequests \in Nat /\ asked \in [Conns -> Seq(Requests)] /\ Symbols(c)
      /\ asked[c] \in Seq(Requests) /\ Len(asked[c]) \in Nat
    BY ConnectionsAssumption DEF ConnectionsInv, ConnectionsTypeOK
<1>2. CASE UNCHANGED <<inbox, asked>>
  <2>1. /\ conn' \in [Conns -> {"away", "backlog", "accepted"}] /\ closed' \in SUBSET Conns
        /\ peer' \in [Conns -> {"open", "fin", "reset"}] /\ partial' \in [Conns -> BOOLEAN]
        /\ buffer' = buffer /\ wire' = wire
        BY <1>2 DEF ConnectionsInv, ConnectionsTypeOK, Client, Connect, SendPiece, SendRequest,
           Finish, Reset, clientVars
  <2>2. ConnectionsTypeOK(S)'
        BY <1>2, <2>1 DEF ConnectionsInv, ConnectionsTypeOK
  <2>3. \A d \in Conns : Symbols(d)'
        BY <1>2, <2>1 DEF ConnectionsInv, Symbols
  <2>4. \A d \in Conns : Len(asked[d]) <= Len(asked'[d])
        BY <1>1, <1>2
  <2>5. QED
        BY <2>2, <2>3, <2>4 DEF ConnectionsInv
<1>3. ASSUME NEW rs \in Seq(Requests), NEW b \in Nat, asked' = [asked EXCEPT ![c] = rs],
             inbox' = [inbox EXCEPT ![c] = Append(inbox[c], b)],
             Len(asked[c]) <= Len(rs), Len(rs) <= MaxRequests, b <= Len(rs),
             UNCHANGED <<conn, closed, peer, buffer, wire>>, partial' \in [Conns -> BOOLEAN]
      PROVE  ConnectionsInv(S)' /\ \A d \in Conns : Len(asked[d]) <= Len(asked'[d])
  <2>1. PICK M \in Nat : M = Len(rs)
        OBVIOUS
  <2>2. /\ \A d \in Conns : asked'[d] = IF d = c THEN rs ELSE asked[d]
        /\ \A d \in Conns : inbox'[d] = IF d = c THEN Append(inbox[c], b) ELSE inbox[d]
        BY <1>1, <1>3 DEF ConnectionsInv, ConnectionsTypeOK
  <2>3. inbox[c] \in Seq(0..M) /\ buffer[c] \in Seq(0..M)
        BY <1>1, <1>3, <2>1, Widen DEF Symbols
  <2>4. Append(inbox[c], b) \in Seq(0..M)
        BY <1>3, <2>1, <2>3
  <2>5. Symbols(c)'
        BY <1>3, <2>1, <2>2, <2>3, <2>4 DEF Symbols
  <2>6. \A d \in Conns : Symbols(d)'
    <3> SUFFICES ASSUME NEW d \in Conns, d # c PROVE Symbols(d)'
        BY <2>5
    <3>1. Symbols(d) /\ asked'[d] = asked[d] /\ inbox'[d] = inbox[d] /\ buffer' = buffer
          BY <1>3, <2>2 DEF ConnectionsInv
    <3>2. QED
          BY <3>1 DEF Symbols
  <2>7. Append(inbox[c], b) \in Seq(0..MaxRequests)
        BY <1>1, <1>3, <2>1, <2>4, Widen
  <2>8. ConnectionsTypeOK(S)'
        BY <1>3, <2>7 DEF ConnectionsInv, ConnectionsTypeOK
  <2>9. \A d \in Conns : Len(asked[d]) <= Len(asked'[d])
        BY <1>1, <1>3, <2>2
  <2>10. QED
        BY <2>6, <2>8, <2>9 DEF ConnectionsInv
<1>4. CASE SendPiece(c)
  <2>1. PICK rs \in Seq(Requests) : rs = asked[c]
        BY <1>1
  <2>2. /\ asked' = asked /\ asked = [asked EXCEPT ![c] = rs]
        /\ inbox' = [inbox EXCEPT ![c] = Append(inbox[c], 0)]
        /\ UNCHANGED <<conn, closed, peer, buffer, wire>> /\ partial' \in [Conns -> BOOLEAN]
        BY <1>1, <1>4, <2>1 DEF SendPiece, ConnectionsInv, ConnectionsTypeOK
  <2>3. Len(rs) <= MaxRequests /\ 0 <= Len(rs) /\ Len(asked[c]) <= Len(rs) /\ 0 \in Nat
        BY <1>1, <2>1 DEF Symbols
  <2>4. QED
        BY <1>3, <2>2, <2>3
<1>5. CASE SendRequest(c)
  <2>1. PICK r \in Requests : asked' = [asked EXCEPT ![c] = Append(asked[c], r)]
        BY <1>5 DEF SendRequest
  <2>0. Append(asked[c], r) \in Seq(Requests) /\ Len(Append(asked[c], r)) = Len(asked[c]) + 1
        BY <1>1
  <2>2. PICK rs \in Seq(Requests) : rs = Append(asked[c], r) /\ Len(rs) = Len(asked[c]) + 1
        BY <2>0
  <2>3. PICK b \in Nat : b = Len(asked[c]) + 1
        BY <1>1
  <2>4. /\ asked' = [asked EXCEPT ![c] = rs]
        /\ inbox' = [inbox EXCEPT ![c] = Append(inbox[c], b)] /\ Len(asked[c]) < MaxRequests
        /\ UNCHANGED <<conn, closed, peer, buffer, wire>> /\ partial' \in [Conns -> BOOLEAN]
        BY <1>1, <1>5, <2>1, <2>2, <2>3 DEF SendRequest, ConnectionsInv, ConnectionsTypeOK
  <2>5. Len(asked[c]) <= Len(rs) /\ Len(rs) <= MaxRequests /\ b <= Len(rs)
        BY <1>1, <2>2, <2>3, <2>4
  <2>6. QED
        BY <1>3, <2>4, <2>5
<1>6. QED
  <2>1. Connect(c) \/ Finish(c) \/ Reset(c) => UNCHANGED <<inbox, asked>>
        BY DEF Connect, Finish, Reset, clientVars
  <2>2. QED
        BY <1>2, <1>4, <1>5, <2>1 DEF Client

\* The first complete request of the bytes is one that has been sent, and so are
\* those behind it.
LEMMA ReadTyped ==
  ASSUME NEW L \in Nat, NEW bytes \in Seq(0..L)
  PROVE  /\ FirstEnd(bytes) = 0 \/ bytes[FirstEnd(bytes)] \in 1..L
         /\ After(bytes, FirstEnd(bytes)) \in Seq(0..L)
<1>1. bytes \in Seq(Nat) /\ Len(bytes) \in Nat
    OBVIOUS
<1>2. PICK end \in 0..Len(bytes) : end = FirstEnd(bytes) /\ (end # 0 => bytes[end] # 0)
    BY <1>1, FirstEndIs
<1>3. SubSeq(bytes, end + 1, Len(bytes)) \in Seq(0..L)
    BY <1>1, SubSeqProperties
<1>4. end # 0 => bytes[end] \in 1..L
    BY <1>2
<1>5. QED
    BY <1>2, <1>3, <1>4 DEF After

\* recv() moves such symbols from the one sequence to the other.
LEMMA ReceivedTyped ==
  ASSUME NEW S, NEW s \in Seq(S), NEW t \in Seq(S), NEW m \in 1..Len(t)
  PROVE  s \o SubSeq(t, 1, m) \in Seq(S) /\ SubSeq(t, m + 1, Len(t)) \in Seq(S)
<1>1. SubSeq(t, 1, m) \in Seq(S) /\ SubSeq(t, m + 1, Len(t)) \in Seq(S)
    BY SubSeqProperties
<1>2. QED
    BY <1>1, ConcatProperties

\* What send() takes is typed.
LEMMA SentTyped ==
  ASSUME NEW n \in 1..MaxRequests, NEW S, NEW status \in S, NEW from \in Nat, NEW m \in Nat,
         NEW out \in Seq(AnyPart(S))
  PROVE  out \o Parts(n, status, from + 1, from + m) \in Seq(AnyPart(S))
<1>1. \A k \in 1..m : [request |-> n, status |-> status, part |-> from + k] \in AnyPart(S)
  <2>1. \A k \in 1..m : from + k \in Nat \ {0}
        OBVIOUS
  <2>2. QED
        BY <2>1 DEF AnyPart
<1>2. PartsAfter(n, status, from, m) \in Seq(AnyPart(S))
    BY <1>1 DEF PartsAfter
<1>3. PICK more \in Seq(AnyPart(S)) : more = PartsAfter(n, status, from, m)
    BY <1>2
<1>4. Parts(n, status, from + 1, from + m) = more
    BY <1>3, PartsIs
<1>5. out \o more \in Seq(AnyPart(S))
    BY ConcatProperties
<1>6. QED
    BY <1>4, <1>5

\* A step of the server for the connection c keeps the types.
LEMMA ServedTyped ==
  ASSUME NEW S, ConnectionsInv(S), NEW c \in Conns, UNCHANGED clientVars,
         conn' \in [Conns -> {"away", "backlog", "accepted"}], closed' \in SUBSET Conns,
         NEW bytes \in Seq(0..Len(asked[c])), buffer' = [buffer EXCEPT ![c] = bytes],
         NEW rest \in Seq(0..Len(asked[c])), inbox' = [inbox EXCEPT ![c] = rest],
         NEW out \in Seq(AnyPart(S)), wire' = [wire EXCEPT ![c] = out]
  PROVE  ConnectionsInv(S)'
<1>1. /\ MaxRequests \in Nat /\ Len(asked[c]) \in Nat /\ Len(asked[c]) <= MaxRequests
      /\ asked' = asked /\ peer' = peer /\ partial' = partial
    BY ConnectionsAssumption DEF ConnectionsInv, ConnectionsTypeOK, Symbols, clientVars
<1>2. bytes \in Seq(0..MaxRequests) /\ rest \in Seq(0..MaxRequests)
    BY <1>1, Widen
<1>3. ConnectionsTypeOK(S)'
  <2>1. /\ buffer' \in [Conns -> Seq(0..MaxRequests)] /\ inbox' \in [Conns -> Seq(0..MaxRequests)]
        /\ wire' \in [Conns -> Seq(AnyPart(S))]
        BY <1>2 DEF ConnectionsInv, ConnectionsTypeOK, AnyPart
  <2>2. QED
        BY <1>1, <2>1 DEF ConnectionsInv, ConnectionsTypeOK, AnyPart
<1>4. ASSUME NEW d \in Conns PROVE Symbols(d)'
  <2>1. /\ buffer'[d] = IF d = c THEN bytes ELSE buffer[d]
        /\ inbox'[d] = IF d = c THEN rest ELSE inbox[d]
        BY DEF ConnectionsInv, ConnectionsTypeOK
  <2>2. Symbols(d)
        BY DEF ConnectionsInv
  <2>3. QED
        BY <1>1, <2>1, <2>2 DEF Symbols
<1>5. QED
    BY <1>3, <1>4 DEF ConnectionsInv
=============================================================================
