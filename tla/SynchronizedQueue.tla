-------------------------- MODULE SynchronizedQueue --------------------------
(***************************************************************************)
(* SynchronizedQueue<T> (synchronized_queue.h): a std::queue under a mutex *)
(* with a condition variable.  Every statement of push and pop that        *)
(* another thread can observe is a step of its own; only the mutex keeps   *)
(* them apart.  Producers call push (the serve loop, through               *)
(* ThreadPoolHttpConnectionHandler::handle_connection), consumers call pop *)
(* over and over (the pool's workers).                                     *)
(*                                                                         *)
(* A waiting consumer is one whose pc is "waiting".  notify_one wakes one  *)
(* of them, any of them; the condition variable may also wake one without  *)
(* a notification.                                                         *)
(***************************************************************************)
EXTENDS Sequences, Naturals, FiniteSets

CONSTANTS
  Producers, Consumers, \* the threads
  Items,                \* the elements; each is pushed at most once
  NoItem                \* a local that has not been assigned

ASSUME ThreadsAssumption ==
  /\ Producers \cap Consumers = {}
  /\ IsFiniteSet(Producers) /\ IsFiniteSet(Consumers)
ASSUME NoItemAssumption == NoItem \notin Items

VARIABLES
  queue,                \* the std::queue
  holder,               \* {} or the set of the one thread that holds the mutex
  pc,                   \* where each thread is in push or pop
  elem,                 \* each thread's local or parameter elem
  offered,              \* the elements push has been called with
  added, handed         \* history: the elements as queued, as removed

vars == <<queue, holder, pc, elem, offered, added, handed>>

Threads == Producers \cup Consumers

GoTo(t, label) == pc' = [pc EXCEPT ![t] = label]

Init ==
  /\ queue = <<>> /\ holder = {}
  /\ pc = [t \in Threads |-> "idle"]
  /\ elem = [t \in Threads |-> NoItem]
  /\ offered = {} /\ added = <<>> /\ handed = <<>>

-----------------------------------------------------------------------------
(* Both functions start by locking the mutex and end by unlocking it.      *)

\* Wrong on purpose: nothing waits for the mutex.
LockNothing(t) ==
  /\ pc[t] \in {"lock", "relock"}
  /\ holder' = {t}
  /\ GoTo(t, IF t \in Producers THEN "enqueue" ELSE "test")
  /\ UNCHANGED <<queue, elem, offered, added, handed>>

\* Wrong on purpose: an if around wait, not a while.
LockWithoutRetest(t) ==
  /\ pc[t] \in {"lock", "relock"} /\ holder = {}
  /\ holder' = {t}
  /\ GoTo(t, IF t \in Producers THEN "enqueue" ELSE IF pc[t] = "lock" THEN "test" ELSE "front")
  /\ UNCHANGED <<queue, elem, offered, added, handed>>

\* The guard at the start of push and pop, or wait locking the mutex again.
Lock(t) ==
  /\ pc[t] \in {"lock", "relock"} /\ holder = {}
  /\ holder' = {t}
  /\ GoTo(t, IF t \in Producers THEN "enqueue" ELSE "test")
  /\ UNCHANGED <<queue, elem, offered, added, handed>>

Unlock(t) ==
  /\ pc[t] = "unlock"
  /\ holder' = holder \ {t}
  /\ GoTo(t, "idle")
  /\ UNCHANGED <<queue, elem, offered, added, handed>>

-----------------------------------------------------------------------------
(* push(elem)                                                              *)

CallPush(p) ==
  /\ pc[p] = "idle"
  /\ \E e \in Items \ offered :
       /\ elem' = [elem EXCEPT ![p] = e]
       /\ offered' = offered \cup {e}
  /\ GoTo(p, "lock")
  /\ UNCHANGED <<queue, holder, added, handed>>

Enqueue(p) ==
  /\ pc[p] = "enqueue"
  /\ queue' = Append(queue, elem[p])
  /\ added' = Append(added, elem[p])
  /\ GoTo(p, "notify")
  /\ UNCHANGED <<holder, elem, offered, handed>>

Waiting == {c \in Consumers : pc[c] = "waiting"}

\* Wrong on purpose: nobody is woken, or only for the first element.
NotifyNobody(p) ==
  /\ pc[p] = "notify" /\ GoTo(p, "unlock")
  /\ UNCHANGED <<queue, holder, elem, offered, added, handed>>
NotifyForFirst(p) ==
  /\ pc[p] = "notify"
  /\ \/ (Waiting = {} \/ Len(queue) > 1) /\ GoTo(p, "unlock")
     \/ Len(queue) = 1 /\ \E c \in Waiting : pc' = [pc EXCEPT ![p] = "unlock", ![c] = "relock"]
  /\ UNCHANGED <<queue, holder, elem, offered, added, handed>>

NotifyOne(p) ==
  /\ pc[p] = "notify"
  /\ \/ Waiting = {} /\ GoTo(p, "unlock")
     \/ \E c \in Waiting : pc' = [pc EXCEPT ![p] = "unlock", ![c] = "relock"]
  /\ UNCHANGED <<queue, holder, elem, offered, added, handed>>

-----------------------------------------------------------------------------
(* pop()                                                                   *)

CallPop(c) ==
  /\ pc[c] = "idle"
  /\ GoTo(c, "lock")
  /\ UNCHANGED <<queue, holder, elem, offered, added, handed>>

\* while (queue.size() == 0) cv.wait(guard): wait unlocks and blocks in one
\* step, and the loop tests again once wait has locked the mutex again.
TestSize(c) ==
  /\ pc[c] = "test"
  /\ \/ queue = <<>> /\ GoTo(c, "waiting") /\ holder' = holder \ {c}
     \/ queue # <<>> /\ GoTo(c, "front") /\ UNCHANGED holder
  /\ UNCHANGED <<queue, elem, offered, added, handed>>

SpuriousWakeup(c) ==
  /\ pc[c] = "waiting"
  /\ GoTo(c, "relock")
  /\ UNCHANGED <<queue, holder, elem, offered, added, handed>>

\* Wrong on purpose: back() for front().
FrontIsBack(c) ==
  /\ pc[c] = "front"
  /\ elem' = [elem EXCEPT ![c] = IF queue = <<>> THEN NoItem ELSE queue[Len(queue)]]
  /\ GoTo(c, "remove")
  /\ UNCHANGED <<queue, holder, offered, added, handed>>

\* Undefined on an empty queue: the local is then left unassigned.
Front(c) ==
  /\ pc[c] = "front"
  /\ elem' = [elem EXCEPT ![c] = IF queue = <<>> THEN NoItem ELSE Head(queue)]
  /\ GoTo(c, "remove")
  /\ UNCHANGED <<queue, holder, offered, added, handed>>

Remove(c) ==
  /\ pc[c] = "remove"
  /\ queue' = IF queue = <<>> THEN <<>> ELSE Tail(queue)
  /\ handed' = Append(handed, elem[c])
  /\ GoTo(c, "unlock")
  /\ UNCHANGED <<holder, elem, offered, added>>

-----------------------------------------------------------------------------
ProducerStep(p) == Enqueue(p) \/ NotifyOne(p) \/ Unlock(p)
ConsumerStep(c) == CallPop(c) \/ TestSize(c) \/ Front(c) \/ Remove(c) \/ Unlock(c)

Next ==
  \/ \E t \in Threads : Lock(t)
  \/ \E p \in Producers : CallPush(p) \/ ProducerStep(p)
  \/ \E c \in Consumers : ConsumerStep(c) \/ SpuriousWakeup(c)

\* A thread that can run runs; a free mutex that threads want is given to one
\* of them, not necessarily to each.  Nobody has to call push, and the
\* condition variable never has to wake anybody by itself.
Fairness ==
  /\ WF_vars(\E t \in Threads : Lock(t))
  /\ \A p \in Producers : WF_vars(ProducerStep(p))
  /\ \A c \in Consumers : WF_vars(ConsumerStep(c))

Spec == Init /\ [][Next]_vars
FairSpec == Spec /\ Fairness

-----------------------------------------------------------------------------
(* Properties.                                                             *)

ProducerLabels == {"idle", "lock", "enqueue", "notify", "unlock"}
ConsumerLabels ==
  {"idle", "lock", "test", "waiting", "relock", "front", "remove", "unlock"}

\* The type of the queue's state (synchronized_queue.h:19-21).
TypeOK ==
  /\ queue \in Seq(Items) /\ added \in Seq(Items) /\ handed \in Seq(Items)
  /\ holder \in SUBSET Threads
  /\ pc \in [Threads -> ProducerLabels \cup ConsumerLabels]
  /\ \A p \in Producers : pc[p] \in ProducerLabels
  /\ \A c \in Consumers : pc[c] \in ConsumerLabels
  /\ elem \in [Threads -> Items \cup {NoItem}]
  /\ offered \in SUBSET Items

Inside == {t \in Threads : pc[t] \notin {"idle", "lock", "waiting", "relock"}}

\* "The internal queue is protected from concurrent access by a mutex"
\* (synchronized_queue.h:11): the thread that touches the queue is the one
\* that holds the mutex, so there is at most one.
MutualExclusion ==
  /\ Inside = holder
  /\ \A s, t \in holder : s = t

\* front() and pop() are only reached with an element to take, whatever woke
\* the consumer and whoever ran in between (synchronized_queue.h:34-39).
NeverPopsEmpty ==
  \A c \in Consumers : pc[c] \in {"front", "remove"} => queue # <<>>

\* No element is lost, duplicated or reordered between push and pop: what has
\* been handed over and what is still queued is what was added.
NothingLost == handed \o queue = added

\* A consumer that has not been told to wait any longer and will look at the
\* queue before it waits again.
Looking == {c \in Consumers : pc[c] \in {"lock", "relock", "test", "front", "remove"}}
Notifying == {p \in Producers : pc[p] = "notify"}

\* No lost wake-up (synchronized_queue.h:29, 34-36): while a consumer sleeps,
\* every queued element has a consumer of its own on the way to it, or a
\* producer about to send one.  Without it an element could sit in the queue
\* with an idle worker asleep beside it.
NoLostWakeup ==
  Waiting # {} =>
    Len(queue) <= Cardinality(Looking) + Cardinality(Notifying)

\* The class implements the work queue its comment promises, liveness included
\* (synchronized_queue.h:9-16).
WorkQueue == INSTANCE WorkQueue
ImplementsWorkQueue == WorkQueue!Spec
=============================================================================
