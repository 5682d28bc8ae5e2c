----------------------- MODULE SynchronizedQueueProofs -----------------------
(***************************************************************************)
(* The safety of SynchronizedQueue for any number of threads and elements. *)
(* The inductive invariant Inv adds to the properties what each of them    *)
(* rests on: a consumer about to remove has read the element at the front  *)
(* (so nothing else removed it meanwhile), and a producer on its way to    *)
(* enqueue has a fresh element.  NoLostWakeup is proved on top of it, by   *)
(* counting threads.                                                       *)
(***************************************************************************)
EXTENDS SynchronizedQueue, FiniteSetTheorems, TLAPS

\* What a consumer read is still at the front when it removes it.
FrontStays == \A c \in Consumers : pc[c] = "remove" => elem[c] = Head(queue)

\* A call of push carries an element that no other call carries or has queued.
Pushing(p) == pc[p] \in {"lock", "enqueue"}
FreshElements ==
  /\ \A p \in Producers : Pushing(p) =>
       elem[p] \in offered /\ \A k \in DOMAIN added : added[k] # elem[p]
  /\ \A p, q \in Producers : Pushing(p) /\ Pushing(q) /\ p # q => elem[p] # elem[q]
  /\ \A k \in DOMAIN added : added[k] \in offered

Inv ==
  /\ TypeOK /\ MutualExclusion /\ NeverPopsEmpty
  /\ FrontStays /\ FreshElements /\ NothingLost

-----------------------------------------------------------------------------
(* Sequences: adding at the end, moving the head across.                   *)

\* Adding at the end of the second of two joined sequences.
LEMMA ConcatAppend ==
  ASSUME NEW S, NEW s \in Seq(S), NEW t \in Seq(S), NEW e \in S
  PROVE  s \o Append(t, e) = Append(s \o t, e)
OBVIOUS

\* Moving the head of the second of two joined sequences to the end of the first.
LEMMA MoveHead ==
  ASSUME NEW S, NEW s \in Seq(S), NEW t \in Seq(S), t # <<>>
  PROVE  Append(s, Head(t)) \o Tail(t) = s \o t
OBVIOUS

\* The first element after the first of two joined sequences.
LEMMA NextAfter ==
  ASSUME NEW S, NEW s \in Seq(S), NEW t \in Seq(S), t # <<>>
  PROVE  Len(s) < Len(s \o t) /\ (s \o t)[Len(s) + 1] = Head(t)
OBVIOUS

-----------------------------------------------------------------------------
(* The invariant.                                                          *)

LEMMA InitInv == Init => Inv
BY NoItemAssumption, ThreadsAssumption
DEF Init, Inv, TypeOK, MutualExclusion, Inside, NeverPopsEmpty, FrontStays, FreshElements,
    Pushing, NothingLost, Threads, ProducerLabels, ConsumerLabels

USE DEF Threads, GoTo, ProducerLabels, ConsumerLabels

LEMMA NextTypeOK == Inv /\ [Next]_vars => TypeOK'
<1> SUFFICES ASSUME Inv, [Next]_vars PROVE TypeOK'
    OBVIOUS
<1>1. CASE \E t \in Threads : Lock(t)
    BY <1>1, ThreadsAssumption DEF Lock, Inv, TypeOK
<1>2. CASE \E t \in Threads : Unlock(t)
    BY <1>2, ThreadsAssumption DEF Unlock, Inv, TypeOK
<1>3. ASSUME NEW p \in Producers, CallPush(p) PROVE TypeOK'
    BY <1>3, ThreadsAssumption DEF CallPush, Inv, TypeOK
<1>4. ASSUME NEW p \in Producers, Enqueue(p) PROVE TypeOK'
    BY <1>4, ThreadsAssumption DEF Enqueue, Inv, TypeOK, FreshElements, Pushing
<1>5. ASSUME NEW p \in Producers, NotifyOne(p) PROVE TypeOK'
    BY <1>5, ThreadsAssumption DEF NotifyOne, Waiting, Inv, TypeOK
<1>6. ASSUME NEW c \in Consumers, CallPop(c) \/ SpuriousWakeup(c) PROVE TypeOK'
    BY <1>6, ThreadsAssumption DEF CallPop, SpuriousWakeup, Inv, TypeOK
<1>7. ASSUME NEW c \in Consumers, TestSize(c) PROVE TypeOK'
    BY <1>7, ThreadsAssumption DEF TestSize, Inv, TypeOK
<1>8. ASSUME NEW c \in Consumers, Front(c) PROVE TypeOK'
    BY <1>8, ThreadsAssumption DEF Front, Inv, TypeOK
<1>9. ASSUME NEW c \in Consumers, Remove(c) PROVE TypeOK'
  <2>1. queue # <<>> /\ elem[c] = Head(queue)
        BY <1>9 DEF Remove, Inv, NeverPopsEmpty, FrontStays
  <2>2. Head(queue) \in Items /\ Tail(queue) \in Seq(Items)
        BY <2>1 DEF Inv, TypeOK
  <2>3. QED
        BY <1>9, <2>1, <2>2, ThreadsAssumption DEF Remove, Inv, TypeOK
<1>10. CASE UNCHANGED vars
    BY <1>10 DEF vars, Inv, TypeOK
<1>11. QED
    BY <1>1, <1>2, <1>3, <1>4, <1>5, <1>6, <1>7, <1>8, <1>9, <1>10
    DEF Next, ProducerStep, ConsumerStep

LEMMA NextMutualExclusion == Inv /\ [Next]_vars => MutualExclusion'
<1> SUFFICES ASSUME Inv, [Next]_vars PROVE MutualExclusion'
    OBVIOUS
<1> USE DEF Inv, TypeOK, MutualExclusion, Inside
<1>1. ASSUME NEW t \in Threads, Lock(t) PROVE MutualExclusion'
    BY <1>1, ThreadsAssumption DEF Lock
<1>2. ASSUME NEW t \in Threads, Unlock(t) PROVE MutualExclusion'
    BY <1>2, ThreadsAssumption DEF Unlock
<1>3. ASSUME NEW p \in Producers, CallPush(p) \/ Enqueue(p) PROVE MutualExclusion'
    BY <1>3, ThreadsAssumption DEF CallPush, Enqueue
<1>4. ASSUME NEW p \in Producers, NotifyOne(p) PROVE MutualExclusion'
    BY <1>4, ThreadsAssumption DEF NotifyOne, Waiting
<1>5. ASSUME NEW c \in Consumers, CallPop(c) \/ SpuriousWakeup(c) PROVE MutualExclusion'
    BY <1>5, ThreadsAssumption DEF CallPop, SpuriousWakeup
<1>6. ASSUME NEW c \in Consumers, TestSize(c) PROVE MutualExclusion'
    BY <1>6, ThreadsAssumption DEF TestSize
<1>7. ASSUME NEW c \in Consumers, Front(c) \/ Remove(c) PROVE MutualExclusion'
    BY <1>7, ThreadsAssumption DEF Front, Remove
<1>8. CASE UNCHANGED vars
    BY <1>8 DEF vars
<1>9. QED
    BY <1>1, <1>2, <1>3, <1>4, <1>5, <1>6, <1>7, <1>8 DEF Next, ProducerStep, ConsumerStep

\* Only the thread that holds the mutex can change the queue or a pc inside, so
\* what the holder has seen stays true until it leaves.
LEMMA OneInside ==
  ASSUME Inv, NEW s \in Inside, NEW t \in Inside
  PROVE  s = t
BY DEF Inv, MutualExclusion

LEMMA NextFront == Inv /\ [Next]_vars => NeverPopsEmpty' /\ FrontStays'
<1> SUFFICES ASSUME Inv, [Next]_vars PROVE NeverPopsEmpty' /\ FrontStays'
    OBVIOUS
<1> USE DEF Inv, TypeOK, NeverPopsEmpty, FrontStays
<1>1. ASSUME NEW t \in Threads, Lock(t) \/ Unlock(t) PROVE NeverPopsEmpty' /\ FrontStays'
    BY <1>1, ThreadsAssumption DEF Lock, Unlock
<1>2. ASSUME NEW p \in Producers, CallPush(p) PROVE NeverPopsEmpty' /\ FrontStays'
    BY <1>2, ThreadsAssumption DEF CallPush
<1>3. ASSUME NEW p \in Producers, Enqueue(p) PROVE NeverPopsEmpty' /\ FrontStays'
  <2>1. p \in Inside
        BY <1>3 DEF Enqueue, Inside
  <2>2. ASSUME NEW c \in Consumers PROVE c \notin Inside
        BY <2>1, OneInside, ThreadsAssumption
  <2>3. \A c \in Consumers : pc[c] \notin {"front", "remove"}
        BY <2>2 DEF Inside
  <2>4. QED
        BY <1>3, <2>3, ThreadsAssumption DEF Enqueue
<1>4. ASSUME NEW p \in Producers, NotifyOne(p) PROVE NeverPopsEmpty' /\ FrontStays'
    BY <1>4, ThreadsAssumption DEF NotifyOne, Waiting
<1>5. ASSUME NEW c \in Consumers, CallPop(c) \/ SpuriousWakeup(c)
      PROVE NeverPopsEmpty' /\ FrontStays'
    BY <1>5, ThreadsAssumption DEF CallPop, SpuriousWakeup
<1>6. ASSUME NEW c \in Consumers, TestSize(c) \/ Front(c) PROVE NeverPopsEmpty' /\ FrontStays'
    BY <1>6, ThreadsAssumption DEF TestSize, Front
<1>7. ASSUME NEW c \in Consumers, Remove(c) PROVE NeverPopsEmpty' /\ FrontStays'
  <2>1. \A d \in Consumers \ {c} : pc[d] \notin {"front", "remove"}
        BY <1>7, OneInside DEF Remove, Inside
  <2>2. QED
        BY <1>7, <2>1, ThreadsAssumption DEF Remove
<1>8. CASE UNCHANGED vars
    BY <1>8 DEF vars
<1>9. QED
    BY <1>1, <1>2, <1>3, <1>4, <1>5, <1>6, <1>7, <1>8 DEF Next, ProducerStep, ConsumerStep

LEMMA NextFreshElements == Inv /\ [Next]_vars => FreshElements'
<1> SUFFICES ASSUME Inv, [Next]_vars PROVE FreshElements'
    OBVIOUS
<1> USE DEF Inv, TypeOK, FreshElements, Pushing
<1>1. ASSUME NEW t \in Threads, Lock(t) \/ Unlock(t) PROVE FreshElements'
    BY <1>1, ThreadsAssumption DEF Lock, Unlock
<1>2. ASSUME NEW p \in Producers, CallPush(p) PROVE FreshElements'
    BY <1>2, ThreadsAssumption DEF CallPush
<1>3. ASSUME NEW p \in Producers, Enqueue(p) PROVE FreshElements'
  <2>1. /\ Pushing(p) /\ elem[p] \in offered /\ offered' = offered /\ elem' = elem
        /\ \A q \in Producers : Pushing(q)' => Pushing(q) /\ q # p
        BY <1>3, ThreadsAssumption DEF Enqueue
  <2>2. \A k \in DOMAIN added' : added'[k] = elem[p] \/ (k \in DOMAIN added /\ added'[k] = added[k])
        BY <1>3, <2>1 DEF Enqueue
  <2>3. QED
        BY <2>1, <2>2
<1>4. ASSUME NEW p \in Producers, NotifyOne(p) PROVE FreshElements'
    BY <1>4, ThreadsAssumption DEF NotifyOne, Waiting
<1>5. ASSUME NEW c \in Consumers, CallPop(c) \/ SpuriousWakeup(c) PROVE FreshElements'
    BY <1>5, ThreadsAssumption DEF CallPop, SpuriousWakeup
<1>6. ASSUME NEW c \in Consumers, TestSize(c) \/ Front(c) \/ Remove(c) PROVE FreshElements'
    BY <1>6, ThreadsAssumption DEF TestSize, Front, Remove
<1>7. CASE UNCHANGED vars
    BY <1>7 DEF vars
<1>8. QED
    BY <1>1, <1>2, <1>3, <1>4, <1>5, <1>6, <1>7 DEF Next, ProducerStep, ConsumerStep

LEMMA NextNothingLost == Inv /\ [Next]_vars => NothingLost'
<1> SUFFICES ASSUME Inv, [Next]_vars PROVE NothingLost'
    OBVIOUS
<1>q. queue \in Seq(Items) /\ handed \in Seq(Items)
    BY DEF Inv, TypeOK
<1>n. handed \o queue = added
    BY DEF Inv, NothingLost
<1>1. ASSUME NEW p \in Producers, Enqueue(p) PROVE NothingLost'
  <2>1. elem[p] \in Items
        BY <1>1 DEF Enqueue, Inv, TypeOK, FreshElements, Pushing
  <2>2. handed \o Append(queue, elem[p]) = Append(handed \o queue, elem[p])
        BY <1>q, <2>1, ConcatAppend
  <2>3. QED
        BY <1>1, <1>n, <2>2 DEF Enqueue, NothingLost
<1>2. ASSUME NEW c \in Consumers, Remove(c) PROVE NothingLost'
  <2>1. queue # <<>> /\ elem[c] = Head(queue)
        BY <1>2 DEF Remove, Inv, NeverPopsEmpty, FrontStays
  <2>2. Append(handed, Head(queue)) \o Tail(queue) = handed \o queue
        BY <1>q, <2>1, MoveHead
  <2>3. QED
        BY <1>2, <1>n, <2>1, <2>2 DEF Remove, NothingLost
<1>3. CASE UNCHANGED <<queue, added, handed>>
    BY <1>3, <1>n DEF NothingLost
<1>4. QED
    BY <1>1, <1>2, <1>3
    DEF Next, vars, ProducerStep, ConsumerStep, Lock, Unlock, CallPush, NotifyOne, CallPop,
        TestSize, SpuriousWakeup, Front

LEMMA NextInv == Inv /\ [Next]_vars => Inv'
<1> SUFFICES ASSUME Inv, [Next]_vars PROVE Inv'
    OBVIOUS
<1>1. TypeOK' /\ MutualExclusion' /\ FreshElements' /\ NothingLost'
    BY NextTypeOK, NextMutualExclusion, NextFreshElements, NextNothingLost
<1>2. NeverPopsEmpty' /\ FrontStays'
    BY NextFront
<1>3. QED
    BY <1>1, <1>2 DEF Inv

LEMMA Invariance == Spec => []Inv
<1>1. Init => Inv
    BY InitInv
<1>2. Inv /\ [Next]_vars => Inv'
    BY NextInv
<1>3. QED
    BY <1>1, <1>2, PTL DEF Spec

-----------------------------------------------------------------------------
(* No lost wake-up: counting the threads on their way to the queue.        *)

\* The threads counted are finitely many.
LEMMA Finite ==
  /\ IsFiniteSet(Looking) /\ IsFiniteSet(Notifying)
  /\ Cardinality(Looking) \in Nat /\ Cardinality(Notifying) \in Nat
  /\ Cardinality(Looking') \in Nat /\ Cardinality(Notifying') \in Nat
<1>1. /\ Looking \subseteq Consumers /\ Notifying \subseteq Producers
      /\ Looking' \subseteq Consumers /\ Notifying' \subseteq Producers
    BY DEF Looking, Notifying
<1>2. /\ IsFiniteSet(Looking) /\ IsFiniteSet(Notifying)
      /\ IsFiniteSet(Looking') /\ IsFiniteSet(Notifying')
    BY <1>1, ThreadsAssumption, FS_Subset
<1>3. QED
    BY <1>2, FS_CardinalityType

LEMMA NextNoLostWakeup == Inv /\ NoLostWakeup /\ [Next]_vars => NoLostWakeup'
<1> SUFFICES ASSUME Inv, NoLostWakeup, [Next]_vars PROVE NoLostWakeup'
    OBVIOUS
<1>q. queue \in Seq(Items) /\ Len(queue) \in Nat
    BY DEF Inv, TypeOK
<1>s. ASSUME Looking' = Looking, Notifying' = Notifying, Waiting' = Waiting, queue' = queue
      PROVE  NoLostWakeup'
    BY <1>s DEF NoLostWakeup
<1>1. ASSUME NEW t \in Threads, Lock(t) \/ Unlock(t) PROVE NoLostWakeup'
  <2>1. Looking' = Looking /\ Notifying' = Notifying /\ Waiting' = Waiting /\ queue' = queue
        BY <1>1, ThreadsAssumption
        DEF Lock, Unlock, Looking, Notifying, Waiting, Inv, TypeOK
  <2>2. QED
        BY <2>1, <1>s
<1>2. ASSUME NEW p \in Producers, CallPush(p) PROVE NoLostWakeup'
  <2>1. Looking' = Looking /\ Notifying' = Notifying /\ Waiting' = Waiting /\ queue' = queue
        BY <1>2, ThreadsAssumption DEF CallPush, Looking, Notifying, Waiting, Inv, TypeOK
  <2>2. QED
        BY <2>1, <1>s
<1>3. ASSUME NEW p \in Producers, Enqueue(p) PROVE NoLostWakeup'
  <2>1. Looking' = Looking /\ Waiting' = Waiting /\ Notifying' = Notifying \cup {p} /\ p \notin Notifying
        BY <1>3, ThreadsAssumption DEF Enqueue, Looking, Notifying, Waiting, Inv, TypeOK
  <2>2. elem[p] \in Items
        BY <1>3 DEF Enqueue, Inv, TypeOK, FreshElements, Pushing
  <2>3. Len(queue') = Len(queue) + 1
        BY <1>3, <1>q, <2>2 DEF Enqueue
  <2>4. Cardinality(Notifying') = Cardinality(Notifying) + 1
        BY <2>1, Finite, FS_AddElement
  <2>5. QED
        BY <1>q, <2>1, <2>3, <2>4, Finite DEF NoLostWakeup
<1>4. ASSUME NEW p \in Producers, NotifyOne(p) PROVE NoLostWakeup'
  <2>1. CASE Waiting = {} /\ GoTo(p, "unlock")
    <3>1. Waiting' = {}
        BY <1>4, <2>1, ThreadsAssumption DEF Waiting, Inv, TypeOK
    <3>2. QED
        BY <3>1 DEF NoLostWakeup
  <2>2. ASSUME NEW c \in Waiting, pc' = [pc EXCEPT ![p] = "unlock", ![c] = "relock"]
        PROVE NoLostWakeup'
    <3>1. /\ Looking' = Looking \cup {c} /\ c \notin Looking
          /\ Notifying' = Notifying \ {p} /\ p \in Notifying
          /\ queue' = queue
        BY <1>4, <2>2, ThreadsAssumption
        DEF NotifyOne, Looking, Notifying, Waiting, Inv, TypeOK
    <3>2. /\ Cardinality(Looking') = Cardinality(Looking) + 1
          /\ Cardinality(Notifying') = Cardinality(Notifying) - 1
        BY <3>1, Finite, FS_AddElement, FS_RemoveElement
    <3>3. QED
        BY <1>q, <2>2, <3>1, <3>2, Finite DEF NoLostWakeup
  <2>3. QED
        BY <1>4, <2>1, <2>2 DEF NotifyOne
<1>5. ASSUME NEW c \in Consumers, CallPop(c) \/ SpuriousWakeup(c) PROVE NoLostWakeup'
  <2>1. /\ Looking' = Looking \cup {c} /\ c \notin Looking /\ Notifying' = Notifying
        /\ Waiting' \subseteq Waiting /\ queue' = queue
        BY <1>5, ThreadsAssumption
        DEF CallPop, SpuriousWakeup, Looking, Notifying, Waiting, Inv, TypeOK
  <2>2. Cardinality(Looking') = Cardinality(Looking) + 1
        BY <2>1, Finite, FS_AddElement
  <2>3. QED
        BY <1>q, <2>1, <2>2, Finite DEF NoLostWakeup
<1>6. ASSUME NEW c \in Consumers, TestSize(c) PROVE NoLostWakeup'
  <2>1. CASE queue = <<>>
    <3>1. Len(queue') = 0
        BY <1>6, <2>1 DEF TestSize
    <3>2. QED
        BY <3>1, Finite DEF NoLostWakeup
  <2>2. CASE queue # <<>>
    <3>1. Looking' = Looking /\ Notifying' = Notifying /\ Waiting' = Waiting /\ queue' = queue
        BY <1>6, <2>2, ThreadsAssumption
        DEF TestSize, Looking, Notifying, Waiting, Inv, TypeOK
    <3>2. QED
        BY <3>1, <1>s
  <2>3. QED
        BY <2>1, <2>2
<1>7. ASSUME NEW c \in Consumers, Front(c) PROVE NoLostWakeup'
  <2>1. Looking' = Looking /\ Notifying' = Notifying /\ Waiting' = Waiting /\ queue' = queue
        BY <1>7, ThreadsAssumption DEF Front, Looking, Notifying, Waiting, Inv, TypeOK
  <2>2. QED
        BY <2>1, <1>s
<1>8. ASSUME NEW c \in Consumers, Remove(c) PROVE NoLostWakeup'
  <2>1. /\ Looking' = Looking \ {c} /\ c \in Looking
        /\ Notifying' = Notifying /\ Waiting' = Waiting
        BY <1>8, ThreadsAssumption DEF Remove, Looking, Notifying, Waiting, Inv, TypeOK
  <2>2. Cardinality(Looking') = Cardinality(Looking) - 1
        BY <2>1, Finite, FS_RemoveElement
  <2>3. queue # <<>>
        BY <1>8 DEF Remove, Inv, NeverPopsEmpty
  <2>4. Len(queue') = Len(queue) - 1
        BY <1>8, <1>q, <2>3 DEF Remove
  <2>5. QED
        BY <1>q, <2>1, <2>2, <2>4, Finite DEF NoLostWakeup
<1>9. CASE UNCHANGED vars
    BY <1>9, <1>s DEF vars, Looking, Notifying, Waiting
<1>10. QED
    BY <1>1, <1>2, <1>3, <1>4, <1>5, <1>6, <1>7, <1>8, <1>9
    DEF Next, ProducerStep, ConsumerStep

-----------------------------------------------------------------------------
(* The theorems.                                                           *)

\* Every variable keeps its type (synchronized_queue.h:19-21); no element that
\* was never pushed comes out of pop.
THEOREM TypeCorrect == Spec => []TypeOK
<1>1. Inv => TypeOK
    BY DEF Inv
<1>2. QED
    BY <1>1, Invariance, PTL

\* The mutex protects the queue (synchronized_queue.h:27, 33), however many
\* threads there are.
THEOREM QueueProtected == Spec => []MutualExclusion
<1>1. Inv => MutualExclusion
    BY DEF Inv
<1>2. QED
    BY <1>1, Invariance, PTL

\* front() and pop() never run on an empty queue (synchronized_queue.h:34-39).
THEOREM PopsAnElement == Spec => []NeverPopsEmpty
<1>1. Inv => NeverPopsEmpty
    BY DEF Inv
<1>2. QED
    BY <1>1, Invariance, PTL

\* Elements come out once each, in the order in which they went in.
THEOREM FirstInFirstOut == Spec => []NothingLost
<1>1. Inv => NothingLost
    BY DEF Inv
<1>2. QED
    BY <1>1, Invariance, PTL

\* While a worker sleeps, each queued element has a thread of its own on the way
\* (synchronized_queue.h:29, 34-36): one notify_one per push is enough, although
\* another consumer may take the element before the one woken for it.
THEOREM NoWakeupLost == Spec => []NoLostWakeup
<1>1. Init => NoLostWakeup
    BY DEF Init, NoLostWakeup, Waiting
<1>2. Inv /\ NoLostWakeup /\ [Next]_vars => NoLostWakeup'
    BY NextNoLostWakeup
<1>3. QED
    BY <1>1, <1>2, Invariance, PTL DEF Spec

\* Every step is a step of the work queue or leaves it alone: what the class's
\* comment promises (synchronized_queue.h:9-16), but for its liveness.
THEOREM RefinesWorkQueue == Spec => WorkQueue!Init /\ [][WorkQueue!Next]_(WorkQueue!vars)
<1>1. Init => WorkQueue!Init
    BY DEF Init, WorkQueue!Init
<1>2. ASSUME Inv, [Next]_vars PROVE [WorkQueue!Next]_(WorkQueue!vars)
  <2> USE DEF WorkQueue!Next, WorkQueue!vars
  <2>1. ASSUME NEW p \in Producers, Enqueue(p) PROVE WorkQueue!Next
    <3>1. elem[p] \in Items /\ \A k \in DOMAIN added : added[k] # elem[p]
        BY <1>2, <2>1 DEF Enqueue, Inv, TypeOK, FreshElements, Pushing
    <3>2. WorkQueue!Add(elem[p])
        BY <2>1, <3>1 DEF Enqueue, WorkQueue!Add
    <3>3. QED
        BY <3>1, <3>2
  <2>2. ASSUME NEW c \in Consumers, Remove(c) PROVE WorkQueue!Next
    <3>1. queue # <<>> /\ elem[c] = Head(queue)
        BY <1>2, <2>2 DEF Remove, Inv, NeverPopsEmpty, FrontStays
    <3>2. Len(handed) < Len(handed \o queue) /\ (handed \o queue)[Len(handed) + 1] = Head(queue)
      <4>1. queue \in Seq(Items) /\ handed \in Seq(Items)
            BY <1>2 DEF Inv, TypeOK
      <4>2. QED
            BY <3>1, <4>1, NextAfter, Zenon
    <3>3. WorkQueue!HandOver
        BY <1>2, <2>2, <3>1, <3>2 DEF Remove, Inv, NothingLost, WorkQueue!HandOver
    <3>4. QED
        BY <3>3
  <2>3. CASE UNCHANGED <<added, handed>>
        BY <2>3
  <2>4. QED
        BY <1>2, <2>1, <2>2, <2>3
        DEF Next, vars, ProducerStep, ConsumerStep, Lock, Unlock, CallPush, NotifyOne, CallPop,
            TestSize, SpuriousWakeup, Front
<1>3. QED
    BY <1>1, <1>2, Invariance, PTL DEF Spec
=============================================================================
