---------------------------- MODULE SyncServerProofs ----------------------------
(***************************************************************************)
(* Theorems about the synchronous servers, for every thread model, any     *)
(* connections, requests and faults and any size of the pool: exceptions   *)
(* that escape from serving a connection never end a pool, no worker is    *)
(* lost or doubled, the queue holds exactly the connections that wait.     *)
(* While send() fails only on connections that stay broken, answers come   *)
(* back whole, in order and with the status each request deserves, and     *)
(* every step of a server is one of HttpService or none.                   *)
(***************************************************************************)
EXTENDS SyncServer, TranscriptLemmas, FiniteSetTheorems

\* The parts of the type that the proofs rely on.
PoolType ==
  /\ at \in [Conns -> {"outside", "queued", "read", "write", "done"}]
  /\ conn \in [Conns -> {"away", "backlog", "accepted"}]
  /\ idle \in Nat /\ added \in Seq(Conns) /\ handed \in Seq(Conns)

\* A connection that has not been accepted is nobody's.
Newcomers == \A c \in Conns : conn[c] # "accepted" => at[c] = "outside"

\* The workers took the first connections of the queue, in order.
TakenInOrder ==
  /\ Len(handed) <= Len(added)
  /\ \A k \in 1..Len(handed) : handed[k] = added[k]

\* A connection is pushed once, after it has been accepted, and only in a pool.
PushedOnce ==
  /\ \A j, k \in 1..Len(added) : added[j] = added[k] => j = k
  /\ \A k \in 1..Len(added) : conn[added[k]] = "accepted"
  /\ mode # "pool" => added = <<>>

\* What has not been taken is "queued", and nothing else is; in a pool whatever
\* is being served has been taken.
WaitingQueued ==
  /\ \A k \in (Len(handed) + 1)..Len(added) : at[added[k]] = "queued"
  /\ \A c \in Conns :
       at[c] = "queued" => \E k \in (Len(handed) + 1)..Len(added) : added[k] = c
  /\ mode = "pool" => \A c \in Busy : \E k \in 1..Len(handed) : handed[k] = c

\* Only finitely many connections are served at a time, which makes counting
\* them meaningful.
FinitelyBusy == process = "running" => IsFiniteSet(Busy)

QueueInv == PoolType /\ Newcomers /\ TakenInOrder /\ PushedOnce /\ WaitingQueued
PoolInv == QueueInv /\ FinitelyBusy /\ ThreadsConserved

-----------------------------------------------------------------------------
(* The pool survives.                                                      *)

\* A step that ends the process is an accept() or SIGPIPE fault, or is taken
\* outside the pool: the only exceptions that leave handle_connection in a pool
\* are stopped by its worker (connection_handlers.cpp:60-64).
LEMMA NextSurvives == PoolSurvives /\ [Next]_vars => PoolSurvives'
<1> SUFFICES ASSUME PoolSurvives, [Next]_vars,
                    mode' = "pool", Faults \cap {"accept", "sigpipe"} = {}
             PROVE process' = "running"
  BY DEF PoolSurvives
<1>1. mode' = mode
  BY ZenonT(60) DEF Next, vars, serverVars, Accept, Queue!Add, Start, Take, Queue!HandOver, AcceptFails,
         Stop, ThreadFails, Handle, ReadSome, ReadClosed, ReadFails, SendSome, SendCutShort,
         SendFails, ReadRequest, AfterWrite, Respond, Return, Escape
<1>2. mode = "pool" /\ process = "running" /\ "accept" \notin Faults /\ "sigpipe" \notin Faults
  BY <1>1 DEF PoolSurvives
<1>3. CASE \E c \in Conns : Accept(c)
  BY <1>2, <1>3 DEF Accept
<1>4. CASE \E c \in Conns : Handle(c)
  BY <1>2, <1>4 DEF Handle, ReadSome, ReadClosed, ReadFails, SendSome, SendCutShort, SendFails,
         ReadRequest, AfterWrite, Respond, Return, Escape
<1>5. CASE Take
  BY <1>2, <1>5 DEF Take
<1>6. CASE AcceptFails \/ ThreadFails
  BY <1>2, <1>6 DEF AcceptFails, ThreadFails
<1>7. CASE (\E c \in Conns : Client(c) /\ UNCHANGED serverVars) \/ UNCHANGED vars
  BY <1>2, <1>7 DEF serverVars, vars
<1> QED
  BY <1>3, <1>4, <1>5, <1>6, <1>7 DEF Next

\* In the pool nothing a client does ends the process (connection_handlers.cpp:57-66).
THEOREM PoolOutlivesClients == Spec => []PoolSurvives
<1>1. Init => PoolSurvives
  BY DEF Init, PoolSurvives
<1> QED
  BY <1>1, NextSurvives, PTL DEF Spec

-----------------------------------------------------------------------------
(* The queue and its workers.                                              *)

LEMMA InitPool == Init => PoolInv
<1> SUFFICES ASSUME Init PROVE PoolInv
  OBVIOUS
<1>1. Busy = {} /\ added = <<>> /\ handed = <<>>
  BY DEF Init, Busy, Queue!Init
<1>2. QueueInv
  BY <1>1, SyncAssumption
     DEF Init, ConnectionsInit, QueueInv, PoolType, Newcomers, TakenInOrder, PushedOnce, WaitingQueued
<1>3. IsFiniteSet(Busy) /\ Cardinality(Busy) = 0
  BY <1>1, FS_EmptySet
<1> QED
  BY <1>2, <1>3, SyncAssumption DEF Init, PoolInv, FinitelyBusy, ThreadsConserved

\* A thread goes on serving its connection.
LEMMA StayBusy ==
  ASSUME PoolInv, NEW c \in Busy, NEW s \in {"read", "write"},
         at' = [at EXCEPT ![c] = s],
         UNCHANGED <<mode, process, added, handed, idle, conn>>
  PROVE  PoolInv'
<1>1. Busy' = Busy
  BY DEF Busy, PoolInv, QueueInv, PoolType
<1>2. at[c] \notin {"queued", "outside"} /\ c \in Conns
  BY DEF Busy
<1>3. PoolType' /\ Newcomers' /\ TakenInOrder' /\ PushedOnce'
  BY <1>2 DEF PoolInv, QueueInv, PoolType, Newcomers, TakenInOrder, PushedOnce
<1>4. WaitingQueued'
  BY <1>1, <1>2 DEF PoolInv, QueueInv, PoolType, WaitingQueued, PushedOnce
<1> QED
  BY <1>1, <1>3, <1>4 DEF PoolInv, QueueInv, FinitelyBusy, ThreadsConserved

\* handle_connection returns: one connection less, and in a pool one idle worker more.
LEMMA ReturnFrees ==
  ASSUME PoolInv, NEW c \in Busy, process = "running", Return(c), UNCHANGED conn
  PROVE  PoolInv'
<1>1. Busy' = Busy \ {c}
  BY DEF Busy, PoolInv, QueueInv, PoolType, Return
<1>2. at[c] \notin {"queued", "outside"} /\ c \in Conns
  BY DEF Busy
<1>3. PoolType' /\ Newcomers' /\ TakenInOrder' /\ PushedOnce'
  BY <1>2 DEF PoolInv, QueueInv, PoolType, Newcomers, TakenInOrder, PushedOnce, Return
<1>4. WaitingQueued'
  BY <1>1, <1>2 DEF PoolInv, QueueInv, PoolType, WaitingQueued, PushedOnce, Return
<1>5. IsFiniteSet(Busy') /\ Cardinality(Busy') = Cardinality(Busy) - 1
      /\ Cardinality(Busy) \in Nat
  BY <1>1, FS_RemoveElement, FS_CardinalityType DEF PoolInv, FinitelyBusy
<1>6. ThreadsConserved'
  <2>1. mode' = mode /\ idle \in Nat /\ idle' = IF mode = "pool" THEN idle + 1 ELSE idle
    BY DEF PoolInv, QueueInv, PoolType, Return
  <2>2. /\ mode = "nothread" => Cardinality(Busy) <= 1
        /\ mode = "pool" => Cardinality(Busy) + idle = PoolSize
    BY DEF PoolInv, ThreadsConserved
  <2> QED
    BY <1>5, <2>1, <2>2 DEF ThreadsConserved
<1> QED
  BY <1>3, <1>4, <1>5, <1>6 DEF PoolInv, QueueInv, FinitelyBusy

\* The end of the process leaves the queue as it is.
LEMMA StopEnds ==
  ASSUME PoolInv, NEW how \in {"exited", "terminated"}, Stop(how)
  PROVE  PoolInv'
<1>1. Busy' = Busy
  BY DEF Busy, Stop
<1>2. QueueInv'
  BY <1>1 DEF PoolInv, QueueInv, PoolType, Newcomers, TakenInOrder, PushedOnce, WaitingQueued, Stop
<1> QED
  BY <1>2 DEF PoolInv, FinitelyBusy, ThreadsConserved, Stop

\* The main thread queues a connection, starts a thread for it, or serves it.
LEMMA AcceptPool ==
  ASSUME PoolInv, NEW c \in Conns, Accept(c)
  PROVE  PoolInv'
<1>1. /\ conn[c] = "backlog" /\ conn' = [conn EXCEPT ![c] = "accepted"]
      /\ UNCHANGED <<mode, process, idle>> /\ process = "running"
      /\ mode = "nothread" => Busy = {}
  BY DEF Accept
<1>2. at[c] = "outside" /\ \A k \in 1..Len(added) : added[k] # c
  BY <1>1 DEF PoolInv, QueueInv, Newcomers, PushedOnce
<1>3. CASE mode = "pool"
  <2>1. /\ added' = Append(added, c) /\ UNCHANGED handed
        /\ at' = [at EXCEPT ![c] = "queued"]
    BY <1>3 DEF Accept, Queue!Add
  <2>2. Busy' = Busy
    BY <1>2, <2>1 DEF Busy, PoolInv, QueueInv, PoolType
  <2>3. /\ added' \in Seq(Conns) /\ Len(added') = Len(added) + 1 /\ added'[Len(added) + 1] = c
        /\ \A k \in 1..Len(added) : added'[k] = added[k]
        /\ Len(added) \in Nat /\ Len(handed) \in Nat
    BY <2>1 DEF PoolInv, QueueInv, PoolType
  <2>4. PoolType' /\ Newcomers'
    BY <1>1, <2>1, <2>3 DEF PoolInv, QueueInv, PoolType, Newcomers
  <2>5. TakenInOrder'
    BY <2>1, <2>3 DEF PoolInv, QueueInv, TakenInOrder
  <2>6. PushedOnce'
    <3>1. \A k \in 1..Len(added') : k \in 1..Len(added) \/ (k = Len(added) + 1 /\ added'[k] = c)
      BY <2>3
    <3>2. \A j, k \in 1..Len(added') : added'[j] = added'[k] => j = k
      BY <1>2, <2>3, <3>1 DEF PoolInv, QueueInv, PushedOnce
    <3>3. \A k \in 1..Len(added') : conn'[added'[k]] = "accepted"
      BY <1>1, <1>2, <2>3, <3>1 DEF PoolInv, QueueInv, PoolType, PushedOnce
    <3> QED
      BY <1>1, <1>3, <3>2, <3>3 DEF PushedOnce
  <2>7. WaitingQueued'
    <3>1. \A k \in (Len(handed') + 1)..Len(added') : at'[added'[k]] = "queued"
      BY <1>2, <2>1, <2>3 DEF PoolInv, QueueInv, PoolType, WaitingQueued
    <3>2. ASSUME NEW d \in Conns, at'[d] = "queued"
          PROVE  \E k \in (Len(handed') + 1)..Len(added') : added'[k] = d
      BY <2>1, <2>3, <3>2 DEF PoolInv, QueueInv, PoolType, WaitingQueued, TakenInOrder
    <3>3. \A d \in Busy' : \E k \in 1..Len(handed') : handed'[k] = d
      BY <1>3, <2>1, <2>2 DEF PoolInv, QueueInv, WaitingQueued
    <3> QED
      BY <3>1, <3>2, <3>3 DEF WaitingQueued
  <2> QED
    BY <1>1, <2>2, <2>4, <2>5, <2>6, <2>7 DEF PoolInv, QueueInv, FinitelyBusy, ThreadsConserved
<1>4. CASE mode # "pool"
  <2>1. at' = [at EXCEPT ![c] = "read"] /\ UNCHANGED <<added, handed>>
    BY <1>4 DEF Accept, Start
  <2>2. Busy' = Busy \cup {c}
    BY <2>1 DEF Busy, PoolInv, QueueInv, PoolType
  <2>3. PoolType' /\ Newcomers' /\ TakenInOrder' /\ PushedOnce'
    BY <1>1, <2>1 DEF PoolInv, QueueInv, PoolType, Newcomers, TakenInOrder, PushedOnce
  <2>4. WaitingQueued'
    BY <1>1, <1>2, <1>4, <2>1 DEF PoolInv, QueueInv, PoolType, WaitingQueued
  <2>5. IsFiniteSet(Busy') /\ (mode = "nothread" => Cardinality(Busy') = 1)
    <3>1. IsFiniteSet(Busy')
      BY <1>1, <2>2, FS_AddElement DEF PoolInv, FinitelyBusy
    <3>2. mode = "nothread" => Busy' = {c}
      BY <1>1, <2>2
    <3> QED
      BY <3>1, <3>2, FS_Singleton
  <2> QED
    BY <1>1, <1>4, <2>3, <2>4, <2>5 DEF PoolInv, QueueInv, FinitelyBusy, ThreadsConserved
<1> QED
  BY <1>3, <1>4

\* An idle worker takes the first connection that waits.
LEMMA TakePool == PoolInv /\ Take => PoolInv'
<1> SUFFICES ASSUME PoolInv, Take PROVE PoolInv'
  OBVIOUS
<1> DEFINE first == Len(handed) + 1
           c == added[first]
<1>1. /\ Len(handed) \in Nat /\ Len(added) \in Nat /\ first \in 1..Len(added)
      /\ c \in Conns /\ at[c] = "queued" /\ conn[c] = "accepted"
  BY DEF Take, Queue!HandOver, PoolInv, QueueInv, PoolType, PushedOnce, WaitingQueued
<1>2. /\ handed' \in Seq(Conns) /\ Len(handed') = first /\ handed'[first] = c
      /\ \A k \in 1..Len(handed) : handed'[k] = handed[k]
      /\ added' = added /\ conn' = conn
  BY <1>1 DEF Take, Queue!HandOver, connVars, PoolInv, QueueInv, PoolType
<1>3. /\ at' = [at EXCEPT ![c] = "read"] /\ mode' = mode /\ process' = process
      /\ process = "running" /\ idle > 0 /\ idle' = idle - 1
  BY <1>2 DEF Take, Start
<1>4. Busy' = Busy \cup {c} /\ c \notin Busy
  BY <1>1, <1>3 DEF Busy, PoolInv, QueueInv, PoolType
<1>5. mode = "pool"
  BY <1>1 DEF PoolInv, QueueInv, PushedOnce
<1>6. PoolType' /\ Newcomers' /\ PushedOnce'
  BY <1>1, <1>2, <1>3 DEF PoolInv, QueueInv, PoolType, Newcomers, PushedOnce
<1>7. TakenInOrder'
  BY <1>1, <1>2 DEF PoolInv, QueueInv, TakenInOrder
<1>8. WaitingQueued'
  <2>1. \A k \in (Len(handed') + 1)..Len(added') :
          k \in (Len(handed) + 1)..Len(added) /\ added[k] # c
    BY <1>1, <1>2 DEF PoolInv, QueueInv, PushedOnce
  <2>2. \A k \in (Len(handed') + 1)..Len(added') : at'[added'[k]] = "queued"
    BY <1>2, <1>3, <2>1 DEF PoolInv, QueueInv, PoolType, WaitingQueued
  <2>3. ASSUME NEW d \in Conns, at'[d] = "queued"
        PROVE  \E k \in (Len(handed') + 1)..Len(added') : added'[k] = d
    <3>1. at[d] = "queued" /\ d # c
      BY <1>1, <1>3, <2>3 DEF PoolInv, QueueInv, PoolType
    <3>2. PICK k \in (Len(handed) + 1)..Len(added) : added[k] = d
      BY <3>1 DEF PoolInv, QueueInv, WaitingQueued
    <3> QED
      BY <1>1, <1>2, <3>1, <3>2
  <2>4. ASSUME NEW d \in Busy' PROVE \E k \in 1..Len(handed') : handed'[k] = d
    <3>1. CASE d = c
      BY <1>1, <1>2, <3>1
    <3>2. CASE d \in Busy
      <4>1. PICK k \in 1..Len(handed) : handed[k] = d
        BY <1>5, <3>2 DEF PoolInv, QueueInv, WaitingQueued
      <4> QED
        BY <1>1, <1>2, <4>1
    <3> QED
      BY <1>4, <3>1, <3>2
  <2> QED
    BY <2>2, <2>3, <2>4 DEF WaitingQueued
<1>9. IsFiniteSet(Busy') /\ Cardinality(Busy') = Cardinality(Busy) + 1
      /\ Cardinality(Busy) \in Nat
  BY <1>3, <1>4, FS_AddElement, FS_CardinalityType DEF PoolInv, FinitelyBusy
<1>10. ThreadsConserved'
  <2>1. Cardinality(Busy) + idle = PoolSize /\ idle \in Nat
    BY <1>3, <1>5 DEF PoolInv, QueueInv, PoolType, ThreadsConserved
  <2> QED
    BY <1>3, <1>5, <1>9, <2>1 DEF ThreadsConserved
<1> QED
  BY <1>6, <1>7, <1>8, <1>9, <1>10 DEF PoolInv, QueueInv, FinitelyBusy

\* Whatever recv() and send() do, the thread goes on, returns, or ends the process.
LEMMA HandlePool ==
  ASSUME PoolInv, NEW c \in Conns, Handle(c)
  PROVE  PoolInv'
<1>1. process = "running" /\ at[c] \in {"read", "write"}
  BY DEF Handle, ReadSome, ReadClosed, ReadFails, SendSome, SendCutShort, SendFails,
         Reading, Writing
<1>2. c \in Busy
  BY <1>1 DEF Busy
<1>3. \/ /\ \E s \in {"read", "write"} : at' = [at EXCEPT ![c] = s]
         /\ UNCHANGED <<mode, process, added, handed, idle, conn>>
      \/ Return(c) /\ UNCHANGED conn
      \/ \E how \in {"exited", "terminated"} : Stop(how)
  <2>0. UNCHANGED at => at' = [at EXCEPT ![c] = at[c]]
    BY DEF PoolInv, QueueInv, PoolType
  <2>1. CASE ReadSome(c)
    BY <2>1 DEF ReadSome, ReadRequest, Respond
  <2>2. CASE ReadClosed(c) \/ ReadFails(c)
    BY <2>2 DEF ReadClosed, ReadFails, Respond
  <2>3. CASE SendSome(c)
    BY <1>1, <2>0, <2>3 DEF SendSome, AfterWrite, ReadRequest, Respond
  <2>4. CASE SendCutShort(c)
    BY <2>4 DEF SendCutShort, AfterWrite, ReadRequest, Respond
  <2>5. CASE SendFails(c)
    BY <2>5 DEF SendFails, Escape, Respond
  <2> QED
    BY <2>1, <2>2, <2>3, <2>4, <2>5 DEF Handle
<1> QED
  BY <1>1, <1>2, <1>3, StayBusy, ReturnFrees, StopEnds

LEMMA NextPool == PoolInv /\ [Next]_vars => PoolInv'
<1> SUFFICES ASSUME PoolInv, [Next]_vars PROVE PoolInv'
  OBVIOUS
<1>1. CASE (\E c \in Conns : Accept(c) \/ Handle(c)) \/ Take
  BY <1>1, AcceptPool, HandlePool, TakePool
<1>2. CASE AcceptFails \/ ThreadFails
  BY <1>2, StopEnds DEF AcceptFails, ThreadFails
<1>3. CASE \E c \in Conns : Client(c) /\ UNCHANGED serverVars
  <2> PICK c \in Conns : Client(c) /\ UNCHANGED serverVars
    BY <1>3
  <2>1. conn' = conn \/ (conn[c] = "away" /\ conn' = [conn EXCEPT ![c] = "backlog"])
    BY DEF Client, Connect, SendPiece, SendRequest, Finish, Reset
  <2>2. UNCHANGED <<mode, process, added, handed, idle, at>> /\ Busy' = Busy
    BY DEF serverVars, Busy
  <2>3. PoolType' /\ Newcomers' /\ TakenInOrder' /\ PushedOnce' /\ WaitingQueued'
    BY <2>1, <2>2 DEF PoolInv, QueueInv, PoolType, Newcomers, TakenInOrder, PushedOnce,
       WaitingQueued
  <2> QED
    BY <2>2, <2>3 DEF PoolInv, QueueInv, FinitelyBusy, ThreadsConserved
<1>4. CASE UNCHANGED vars
  BY <1>4 DEF vars, serverVars, connVars, PoolInv, QueueInv, PoolType, Newcomers, TakenInOrder,
     PushedOnce, WaitingQueued, FinitelyBusy, ThreadsConserved, Busy
<1> QED
  BY <1>1, <1>2, <1>3, <1>4 DEF Next

LEMMA PoolInvariance == Spec => []PoolInv
  BY InitPool, NextPool, PTL DEF Spec

\* No more connections are served at once than there are threads for, and every
\* worker is either idle or serving one (connection_handlers.cpp:56-66).
THEOREM WorkersConserved == Spec => []ThreadsConserved
<1>1. PoolInv => ThreadsConserved
  BY DEF PoolInv
<1> QED
  BY <1>1, PoolInvariance, PTL

\* The part of the queue that has not been taken holds the connections that
\* wait, and each served connection was taken once (connection_handlers.cpp:77-79).
THEOREM QueueKeepsTheWaiting == Spec => []QueueHoldsTheWaiting
<1>1. PoolInv => QueueHoldsTheWaiting
  <2> SUFFICES ASSUME PoolInv PROVE QueueHoldsTheWaiting
    OBVIOUS
  <2> DEFINE waiting == SubSeq(added, Len(handed) + 1, Len(added))
  <2>1. /\ Len(added) \in Nat /\ Len(handed) \in Nat /\ Len(handed) <= Len(added)
        /\ added \in Seq(Conns) /\ handed \in Seq(Conns)
    BY DEF PoolInv, QueueInv, PoolType, TakenInOrder
  <2>2. /\ DOMAIN waiting = 1..(Len(added) - Len(handed))
        /\ \A k \in DOMAIN waiting : waiting[k] = added[Len(handed) + k]
    BY <2>1
  <2>3. \A d : d \in Range(waiting) <=> \E k \in (Len(handed) + 1)..Len(added) : added[k] = d
    <3>1. \A k \in (Len(handed) + 1)..Len(added) :
            k - Len(handed) \in DOMAIN waiting /\ waiting[k - Len(handed)] = added[k]
      BY <2>1, <2>2
    <3>2. \A k \in DOMAIN waiting : Len(handed) + k \in (Len(handed) + 1)..Len(added)
      BY <2>1, <2>2
    <3> HIDE DEF waiting
    <3> QED
      BY <2>2, <3>1, <3>2 DEF Range
  <2>4. Range(waiting) = {c \in Conns : at[c] = "queued"}
    <3>1. \A k \in (Len(handed) + 1)..Len(added) : added[k] \in Conns
      BY <2>1
    <3> HIDE DEF waiting
    <3> QED
      BY <2>3, <3>1 DEF PoolInv, QueueInv, WaitingQueued
  <2>5. ASSUME NEW c \in Busy, mode = "pool"
        PROVE  Cardinality({k \in DOMAIN handed : handed[k] = c}) = 1
    <3>1. PICK k \in 1..Len(handed) : handed[k] = c
      BY <2>5 DEF PoolInv, QueueInv, WaitingQueued
    <3>2. \A j \in 1..Len(handed) : handed[j] = c => j = k
      BY <2>1, <3>1 DEF PoolInv, QueueInv, TakenInOrder, PushedOnce
    <3>3. {j \in DOMAIN handed : handed[j] = c} = {k}
      BY <2>1, <3>1, <3>2
    <3> QED
      BY <3>3, FS_Singleton
  <2> QED
    BY <2>4, <2>5 DEF QueueHoldsTheWaiting
<1> QED
  BY <1>1, PoolInvariance, PTL

-----------------------------------------------------------------------------
(* The answers: the invariant.                                             *)

Tr(rs) == TranscriptOf(rs, Answer, Size, Final)

\* None of the first k requests ended the connection.
Serving(rs, k) == ServingOf(rs, k, Final)

\* A thread that reads has sent the answers to the k requests that have left the
\* buffer.
ReadInOrder(rs, k, sent) == Serving(rs, k) /\ sent = Tr(SubSeq(rs, 1, k))

\* One that writes the response o answers the k-th, and knows whether the
\* connection ends with it.
WriteInOrder(o, rs, k, sent) ==
  /\ o.request = k /\ k \in 1..Len(rs)
  /\ o.status = Answer[rs[k]] /\ o.sent \in 0..Size[o.status]
  /\ (o.caught \/ Ends(rs[k])) <=> rs[k] \in Final
  /\ Serving(rs, k - 1)
  /\ sent = Tr(SubSeq(rs, 1, k - 1)) \o PartsOf(k, o.status, o.sent)

InOrder(where, o, rs, k, sent) ==
  \/ where = "read" /\ ReadInOrder(rs, k, sent)
  \/ where = "write" /\ WriteInOrder(o, rs, k, sent)

\* So it is for some k, and the bytes that wait hold the requests from there on.
ServedInOrder(where, o, rs, bytes, sent) ==
  \E k \in 0..Len(rs) : Arrived(bytes, k, Len(rs)) /\ InOrder(where, o, rs, k, sent)

\* While send() fails only for good, the order is lost only with a reset, after
\* which nothing is sent.
ConnectionInOrder(c) ==
  /\ IsPrefix(wire[c], Tr(asked[c]))
  /\ at[c] \in {"outside", "queued"} => NotServed(c)
  /\ c \in Busy /\ peer[c] # "reset" =>
       ServedInOrder(at[c], out[c], asked[c], buffer[c] \o inbox[c], wire[c])

ResponseOf(rs) ==
  [request : 0..Len(rs), status : Statuses \cup {"none"}, sent : Nat, caught : BOOLEAN]

\* What a connection holds, in finer types than those of TypeOK.
Held ==
  /\ ConnectionsInv(Statuses) /\ wire \in [Conns -> Seq(AnswerPart(Answer))]
  /\ mode \in Modes /\ process \in {"running", "exited", "terminated"}
  /\ out = [c \in Conns |-> out[c]] /\ \A c \in Conns : out[c] \in ResponseOf(asked[c])

AnswersInv ==
  /\ Held
  /\ \A c \in Conns : /\ ConnectionInOrder(c)
                      /\ process = "running" /\ c \in closed => at[c] = "done"

-----------------------------------------------------------------------------
(* What a request deserves.                                                *)

\* The transcript of SyncServer's HttpService is one of TranscriptLemmas.
LEMMA TranscriptIsTr ==
  ASSUME NEW rs
  PROVE  HttpService!Transcript(rs) = Tr(rs)
BY DEF HttpService!Transcript, HttpService!Response, HttpService!FlattenSeq,
       HttpService!SelectInSeq, HttpService!Min, Tr, TranscriptOf, AnswerOf, PartsOf, FlattenSeq, SelectInSeq, Min

\* Every request deserves one of the statuses, of which "none" is not one.
LEMMA RequestIs ==
  ASSUME NEW r \in Requests
  PROVE  /\ r \in RequestType /\ Answer[r] = Deserved(r)
         /\ Answer[r] \in Statuses /\ Answer[r] # "none"
         /\ r \in Final <=> Answer[r] \in {"400", "500"} \/ r.close
<1>1. r \in RequestType /\ Answer[r] = Deserved(r)
    BY ConnectionsAssumption DEF Answer
<1>2. Deserved(r) \in Statuses /\ Deserved(r) # "none"
    BY <1>1 DEF Deserved, Statuses, RequestType, Forms, Files
<1>3. QED
    BY <1>1, <1>2 DEF Final

\* Every response has at least one part.
LEMMA SizeIs == Sized(Answer, Size) /\ \A s \in Statuses : Size[s] \in Nat \ {0}
<1>1. \A s \in Statuses : Size[s] \in Nat \ {0}
    BY SyncAssumption DEF Size
<1>2. QED
    BY <1>1, RequestIs DEF Sized

\* The response that handle_connection begins is the one the request deserves,
\* and ends the connection when the request does.
LEMMA HandleIs ==
  ASSUME NEW c \in Conns, asked[c] \in Seq(Requests), NEW n \in 1..Len(asked[c])
  PROVE  /\ HandleRequest(c, n) \in ResponseOf(asked[c])
         /\ HandleRequest(c, n).request = n /\ HandleRequest(c, n).sent = 0
         /\ HandleRequest(c, n).status = Answer[asked[c][n]]
         /\ (HandleRequest(c, n).caught \/ Ends(asked[c][n])) <=> asked[c][n] \in Final
<1>1. PICK r \in Requests : r = asked[c][n]
    OBVIOUS
<1>2. /\ r \in RequestType /\ Answer[r] = Deserved(r) /\ Answer[r] \in Statuses
      /\ r \in Final <=> Answer[r] \in {"400", "500"} \/ r.close
    BY RequestIs
<1>3. r.form = "valid" => FilterRequest(r) = Deserved(r) /\ Deserved(r) # "400"
    BY <1>2 DEF FilterRequest, ServeFile, Deserved, RequestType, Rules, Files
<1>4. PICK caught \in BOOLEAN : /\ HandleRequest(c, n) = Response(n, Answer[r], caught)
                                /\ (caught \/ Ends(r)) <=> r \in Final
    BY <1>1, <1>2, <1>3 DEF HandleRequest, Response, Deserved, Ends, RequestType, Forms
<1>5. n \in 0..Len(asked[c]) /\ 0 \in Nat
    OBVIOUS
<1>6. QED
    BY <1>1, <1>2, <1>4, <1>5 DEF Response, ResponseOf

\* Of the transcript: its type.
LEMMA TrType ==
  ASSUME NEW rs \in Seq(Requests)
  PROVE  /\ Tr(rs) \in Seq(AnswerPart(Answer))
         /\ \A k \in 0..Len(rs) : Tr(SubSeq(rs, 1, k)) \in Seq(AnswerPart(Answer))
BY SizeIs, TrTypeOf DEF Tr

\* The answer to the next request.
LEMMA NextAnswer ==
  ASSUME NEW rs \in Seq(Requests), NEW n \in 1..Len(rs), Serving(rs, n - 1)
  PROVE  Tr(SubSeq(rs, 1, n))
           = Tr(SubSeq(rs, 1, n - 1)) \o PartsOf(n, Answer[rs[n]], Size[Answer[rs[n]]])
<1>1. Answer[rs[n]] # "none"
    BY RequestIs
<1>2. QED
    BY <1>1, SizeIs, NextAnswerOf DEF Tr, Serving

\* What has been sent of an answer is sent in order.
LEMMA SentSoFar ==
  ASSUME NEW rs \in Seq(Requests), NEW n \in 1..Len(rs), Serving(rs, n - 1),
         NEW status, status # "none", status = Answer[rs[n]], NEW moved \in 0..Size[status]
  PROVE  IsPrefix(Tr(SubSeq(rs, 1, n - 1)) \o PartsOf(n, status, moved), Tr(rs))
BY SizeIs, SentSoFarOf DEF Tr, Serving

SentTo(rs, n, status, moved, sent) == SentToOf(rs, n, status, moved, sent, Answer, Size, Final)

\* m more parts of the answer, sent behind the first ones.
LEMMA SendParts ==
  ASSUME NEW rs \in Seq(Requests), NEW n \in 1..Len(rs), Serving(rs, n - 1), NEW sent,
         NEW status, status # "none", status = Answer[rs[n]],
         NEW moved \in Nat, NEW m \in Nat, m # 0, SentTo(rs, n, status, moved, sent),
         NEW parts, parts = Parts(n, status, moved + 1, moved + m), NEW to, to = moved + m
  PROVE  /\ SentTo(rs, n, status, to, sent \o parts)
         /\ sent \o parts \in Seq(AnswerPart(Answer))
         /\ Len(sent \o parts) > Len(sent)
BY SizeIs, SendPartsOf DEF SentTo, Serving

-----------------------------------------------------------------------------
(* The types, whatever goes wrong.                                         *)

\* A thread whose client is there writes a response to one of its requests.
Writes(where, o) == where = "write" => o.request # 0 /\ o.status # "none"

TypesInv ==
  /\ ConnectionsInv(Statuses)
  /\ mode \in Modes /\ process \in {"running", "exited", "terminated"}
  /\ out = [c \in Conns |-> out[c]]
  /\ \A c \in Conns : /\ out[c] \in ResponseOf(asked[c])
                      /\ peer[c] # "reset" => Writes(at[c], out[c])

\* What a thread does next for its connection.
Continues(c) ==
  /\ UNCHANGED <<mode, process>> /\ closed' \in SUBSET Conns
  /\ \E where \in {"read", "write", "done"}, o \in ResponseOf(asked[c]) :
       /\ at' = [at EXCEPT ![c] = where] /\ out' = [out EXCEPT ![c] = o]
       /\ peer[c] # "reset" => Writes(where, o)
Leaves(c, left) == buffer' = [buffer EXCEPT ![c] = left]

\* What a connection holds.
LEMMA ConnectionTyped ==
  ASSUME TypesInv, NEW c \in Conns
  PROVE  /\ asked[c] \in Seq(Requests) /\ Len(asked[c]) \in Nat /\ Len(asked[c]) <= MaxRequests
         /\ inbox[c] \in Seq(0..Len(asked[c])) /\ inbox = [inbox EXCEPT ![c] = inbox[c]]
         /\ buffer[c] \in Seq(0..Len(asked[c])) /\ buffer = [buffer EXCEPT ![c] = buffer[c]]
         /\ wire[c] \in Seq(AnyPart(Statuses)) /\ wire = [wire EXCEPT ![c] = wire[c]]
         /\ out[c] \in ResponseOf(asked[c]) /\ closed \in SUBSET Conns
         /\ NoResponse \in ResponseOf(asked[c])
<1>1. /\ asked[c] \in Seq(Requests) /\ Len(asked[c]) <= MaxRequests /\ out[c] \in ResponseOf(asked[c])
      /\ inbox[c] \in Seq(0..Len(asked[c])) /\ buffer[c] \in Seq(0..Len(asked[c]))
      /\ closed \in SUBSET Conns
    BY DEF TypesInv, ConnectionsInv, ConnectionsTypeOK, Symbols
<1>2. /\ inbox = [inbox EXCEPT ![c] = inbox[c]] /\ buffer = [buffer EXCEPT ![c] = buffer[c]]
      /\ wire = [wire EXCEPT ![c] = wire[c]] /\ wire[c] \in Seq(AnyPart(Statuses))
    BY DEF TypesInv, ConnectionsInv, ConnectionsTypeOK, AnyPart
<1>3. NoResponse \in ResponseOf(asked[c])
    BY <1>1 DEF NoResponse, Response, ResponseOf
<1>4. QED
    BY <1>1, <1>2, <1>3

\* A thread that has received and sent what it has keeps the types.
LEMMA ContinuesTyped ==
  ASSUME PoolInv, TypesInv, NEW c \in Conns, UNCHANGED <<conn, clientVars>>, Continues(c),
         NEW left \in Seq(0..Len(asked[c])), Leaves(c, left),
         NEW rest \in Seq(0..Len(asked[c])), inbox' = [inbox EXCEPT ![c] = rest],
         NEW sent \in Seq(AnyPart(Statuses)), wire' = [wire EXCEPT ![c] = sent]
  PROVE  TypesInv'
<1>1. ConnectionsInv(Statuses)'
  <2>1. /\ conn' \in [Conns -> {"away", "backlog", "accepted"}] /\ UNCHANGED clientVars
        /\ closed' \in SUBSET Conns /\ ConnectionsInv(Statuses)
        BY DEF TypesInv, ConnectionsInv, ConnectionsTypeOK, Continues
  <2>2. QED
        BY <2>1, ServedTyped DEF Leaves
<1>2. PICK where \in {"read", "write", "done"}, o \in ResponseOf(asked[c]) :
        /\ at' = [at EXCEPT ![c] = where] /\ out' = [out EXCEPT ![c] = o]
        /\ peer[c] # "reset" => Writes(where, o)
    BY DEF Continues
<1>3. /\ out' = [d \in Conns |-> out'[d]]
      /\ \A d \in Conns : out'[d] = IF d = c THEN o ELSE out[d]
      /\ \A d \in Conns : at'[d] = IF d = c THEN where ELSE at[d]
    BY <1>2 DEF TypesInv, PoolInv, QueueInv, PoolType
<1>4. asked' = asked /\ peer' = peer /\ mode' = mode /\ process' = process
    BY DEF clientVars, Continues
<1>5. QED
    BY <1>1, <1>2, <1>3, <1>4 DEF TypesInv

\* A response of handle_connection.
LEMMA RespondContinues ==
  ASSUME TypesInv, NEW c \in Conns, NEW o \in ResponseOf(asked[c]), Respond(c, o),
         peer[c] # "reset" => Writes("write", o)
  PROVE  Continues(c)
BY ConnectionTyped DEF Respond, Continues

LEMMA ReturnContinues ==
  ASSUME TypesInv, NEW c \in Conns, Return(c)
  PROVE  Continues(c)
<1>1. PICK o \in ResponseOf(asked[c]), where \in {"done"} : o = NoResponse
    BY ConnectionTyped
<1>2. closed' \in SUBSET Conns
    BY ConnectionTyped DEF Return
<1>3. QED
    BY <1>1, <1>2 DEF Return, Continues, Writes

\* The thread reads on, or answers the first request that it has read.
LEMMA ReadRequestContinues ==
  ASSUME TypesInv, NEW c \in Conns, NEW bytes \in Seq(0..Len(asked[c])), ReadRequest(c, bytes)
  PROVE  Continues(c) /\ \E left \in Seq(0..Len(asked[c])) : Leaves(c, left)
<1>1. PICK L \in Nat : L = Len(asked[c]) /\ asked[c] \in Seq(Requests)
    BY ConnectionTyped
<1>2. PICK end : end = FirstEnd(bytes)
    OBVIOUS
<1>3. (end = 0 \/ bytes[end] \in 1..L) /\ After(bytes, end) \in Seq(0..L)
    BY <1>1, <1>2, ReadTyped
<1>4. buffer' = [buffer EXCEPT ![c] = After(bytes, end)]
    BY <1>2 DEF ReadRequest
<1>5. Continues(c)
  <2>1. CASE end = 0
    <3>1. /\ at' = [at EXCEPT ![c] = "read"] /\ out' = [out EXCEPT ![c] = NoResponse]
          /\ UNCHANGED <<mode, process, closed>>
          BY <1>2, <2>1 DEF ReadRequest
    <3>2. Writes("read", NoResponse)
          BY DEF Writes
    <3>3. QED
          BY <3>1, <3>2, ConnectionTyped DEF Continues
  <2>2. CASE end # 0
    <3>1. PICK n \in 1..L : n = bytes[end]
          BY <1>3, <2>2
    <3>2. Respond(c, HandleRequest(c, n))
          BY <1>2, <2>2, <3>1 DEF ReadRequest
    <3>3. /\ HandleRequest(c, n) \in ResponseOf(asked[c])
          /\ HandleRequest(c, n).request = n
          /\ HandleRequest(c, n).status = Answer[asked[c][n]]
          BY <1>1, <3>1, HandleIs
    <3>4. Writes("write", HandleRequest(c, n))
          BY <1>1, <3>1, <3>3, RequestIs DEF Writes
    <3>5. QED
          BY <3>2, <3>3, <3>4, RespondContinues
  <2>3. QED
        BY <2>1, <2>2
<1>6. QED
    BY <1>1, <1>3, <1>4, <1>5 DEF Leaves

LEMMA AfterWriteContinues ==
  ASSUME TypesInv, NEW c \in Conns, AfterWrite(c)
  PROVE  Continues(c) /\ \E left \in Seq(0..Len(asked[c])) : Leaves(c, left)
<1>1. CASE Return(c) /\ UNCHANGED buffer
    BY <1>1, ReturnContinues, ConnectionTyped DEF Leaves
<1>2. CASE ReadRequest(c, buffer[c])
    BY <1>2, ReadRequestContinues, ConnectionTyped
<1>3. QED
    BY <1>1, <1>2 DEF AfterWrite

LEMMA StopTyped ==
  ASSUME TypesInv, NEW how \in {"exited", "terminated"}, Stop(how)
  PROVE  TypesInv'
<1>1. /\ UNCHANGED <<mode, at, out, conn, peer, asked, partial, inbox, buffer, wire>>
      /\ process' = how /\ closed' = Conns
    BY DEF Stop, clientVars
<1>2. ConnectionsInv(Statuses)'
    BY <1>1 DEF TypesInv, ConnectionsInv, ConnectionsTypeOK, Symbols
<1>3. QED
    BY <1>1, <1>2 DEF TypesInv

\* A thread sends.
LEMMA SendSomeTyped ==
  ASSUME PoolInv, TypesInv, NEW c \in Conns, SendSome(c)
  PROVE  TypesInv'
<1>1. /\ at[c] = "write" /\ peer[c] # "reset" /\ UNCHANGED <<conn, clientVars, inbox>>
    BY DEF SendSome, Writing
<1>2. PICK o \in ResponseOf(asked[c]) : o = out[c] /\ Writes("write", o)
    BY <1>1 DEF TypesInv
<1>3. PICK n \in 1..MaxRequests, status \in Statuses, from \in Nat :
        n = o.request /\ status = o.status /\ from = o.sent
  <2>1. PICK L \in Nat : L = Len(asked[c]) /\ L <= MaxRequests /\ MaxRequests \in Nat
        BY ConnectionTyped, ConnectionsAssumption
  <2>2. o.request \in 0..L /\ o.status \in Statuses \cup {"none"} /\ o.sent \in Nat
        BY <2>1 DEF ResponseOf
  <2>3. o.request # 0 /\ o.status # "none"
        BY <1>2 DEF Writes
  <2>4. o.request \in 1..MaxRequests /\ o.status \in Statuses
        BY <2>1, <2>2, <2>3
  <2>5. QED
        BY <2>2, <2>4
<1>4. PICK size \in Nat : size = Size[status]
    BY SizeIs
<1>5. PICK m \in 1..(size - from) :
        /\ Transmit(c, n, status, from + 1, from + m)
        /\ IF from + m = size THEN AfterWrite(c)
           ELSE /\ out' = [out EXCEPT ![c].sent = @ + m]
                /\ UNCHANGED <<mode, process, added, handed, idle, at, closed, buffer>>
    BY <1>2, <1>3, <1>4 DEF SendSome
<1>6. PICK to \in Nat : m \in Nat /\ to = from + m
    BY <1>5
<1>7. PICK sent \in Seq(AnyPart(Statuses)) :
        sent = wire[c] \o Parts(n, status, from + 1, from + m)
    BY <1>6, ConnectionTyped, SentTyped
<1>8. wire' = [wire EXCEPT ![c] = sent]
    BY <1>5, <1>7 DEF Transmit
<1>9. Continues(c) /\ \E left \in Seq(0..Len(asked[c])) : Leaves(c, left)
  <2>1. CASE AfterWrite(c)
        BY <2>1, AfterWriteContinues
  <2>2. CASE /\ out' = [out EXCEPT ![c].sent = @ + m]
             /\ UNCHANGED <<mode, process, added, handed, idle, at, closed, buffer>>
    <3>1. PICK p : p = [o EXCEPT !.sent = to]
          OBVIOUS
    <3>2. p \in ResponseOf(asked[c]) /\ Writes("write", p)
          BY <1>2, <3>1 DEF ResponseOf, Writes
    <3>3. out' = [out EXCEPT ![c] = p]
          BY <1>2, <1>3, <1>6, <2>2, <3>1
    <3>4. at' = [at EXCEPT ![c] = "write"]
          BY <1>1, <2>2 DEF PoolInv, QueueInv, PoolType
    <3>5. QED
          BY <2>2, <3>2, <3>3, <3>4, ConnectionTyped DEF Continues, Leaves
  <2>3. QED
        BY <1>5, <2>1, <2>2
<1>10. QED
    BY <1>1, <1>8, <1>9, ConnectionTyped, ContinuesTyped

\* What handle_connection does for its connection.
LEMMA HandleTyped ==
  ASSUME PoolInv, TypesInv, NEW c \in Conns, Handle(c)
  PROVE  TypesInv'
<1>1. ASSUME Continues(c), UNCHANGED <<conn, clientVars, inbox, wire>>,
             NEW left \in Seq(0..Len(asked[c])), Leaves(c, left)
      PROVE  TypesInv'
    BY <1>1, ConnectionTyped, ContinuesTyped
<1>2. ASSUME Continues(c), UNCHANGED <<conn, clientVars, inbox, buffer, wire>> PROVE TypesInv'
    BY <1>1, <1>2, ConnectionTyped DEF Leaves
<1>3. CASE ReadSome(c)
  <2>1. PICK L \in Nat : L = Len(asked[c])
        BY ConnectionTyped
  <2>2. PICK s \in Seq(0..L), t \in Seq(0..L) : s = buffer[c] /\ t = inbox[c]
        BY <2>1, ConnectionTyped
  <2>3. PICK m \in 1..Len(t) : /\ inbox' = [inbox EXCEPT ![c] = SubSeq(t, m + 1, Len(t))]
                               /\ ReadRequest(c, s \o SubSeq(t, 1, m))
        BY <1>3, <2>2 DEF ReadSome, Receive, Received
  <2>4. PICK bytes \in Seq(0..L), rest \in Seq(0..L) :
          bytes = s \o SubSeq(t, 1, m) /\ rest = SubSeq(t, m + 1, Len(t))
        BY ReceivedTyped
  <2>5. /\ Continues(c) /\ inbox' = [inbox EXCEPT ![c] = rest]
        /\ \E left \in Seq(0..Len(asked[c])) : Leaves(c, left)
        BY <2>1, <2>3, <2>4, ReadRequestContinues
  <2>6. UNCHANGED <<conn, clientVars, wire>>
        BY <1>3 DEF ReadSome
  <2>7. QED
        BY <2>1, <2>5, <2>6, ConnectionTyped, ContinuesTyped
<1>4. CASE ReadClosed(c)
    BY <1>2, <1>4, ReturnContinues DEF ReadClosed
<1>5. CASE ReadFails(c)
  <2>1. Response(0, "500", TRUE) \in ResponseOf(asked[c])
        BY ConnectionTyped DEF Response, ResponseOf, Statuses
  <2>2. QED
        BY <1>2, <1>5, <2>1, RespondContinues DEF ReadFails
<1>6. CASE SendSome(c)
    BY <1>6, SendSomeTyped
<1>7. CASE SendCutShort(c)
    BY <1>1, <1>7, AfterWriteContinues DEF SendCutShort
<1>8. CASE SendFails(c)
  <2>1. CASE Stop("terminated")
        BY <2>1, StopTyped
  <2>2. CASE Return(c) /\ UNCHANGED <<conn, clientVars, inbox, buffer, wire>>
        BY <1>2, <2>2, ReturnContinues
  <2>3. CASE /\ Respond(c, Response(out[c].request, "500", TRUE))
             /\ UNCHANGED <<conn, clientVars, inbox, buffer, wire>>
    <3>1. PICK o : o = Response(out[c].request, "500", TRUE)
          OBVIOUS
    <3>2. o \in ResponseOf(asked[c])
          BY <3>1, ConnectionTyped DEF Response, ResponseOf, Statuses
    <3>3. at[c] = "write"
          BY <1>8 DEF SendFails, Writing
    <3>4. peer[c] # "reset" => Writes("write", o)
          BY <3>1, <3>3 DEF TypesInv, Writes, Response
    <3>5. QED
          BY <1>2, <2>3, <3>1, <3>2, <3>4, RespondContinues
  <2>4. QED
        BY <1>8, <2>1, <2>2, <2>3 DEF SendFails, Escape
<1>9. QED
    BY <1>3, <1>4, <1>5, <1>6, <1>7, <1>8 DEF Handle

\* The connection that a worker takes.
LEMMA TakeStarts ==
  ASSUME PoolInv, Take
  PROVE  \E c \in Conns : at[c] = "queued" /\ at' = [at EXCEPT ![c] = "read"]
<1>1. PICK first : first = Len(handed) + 1
    OBVIOUS
<1>2. PICK c : c = added[first]
    OBVIOUS
<1>3. Len(handed) \in Nat /\ Len(added) \in Nat /\ first \in 1..Len(added) /\ c \in Conns
      /\ at[c] = "queued"
    BY <1>1, <1>2 DEF Take, Queue!HandOver, PoolInv, QueueInv, PoolType, WaitingQueued
<1>4. handed' = Append(handed, c) /\ handed \in Seq(Conns)
    BY <1>1, <1>2 DEF Take, Queue!HandOver, PoolInv, QueueInv, PoolType
<1>5. Len(handed') = first /\ handed'[first] = c
    BY <1>1, <1>3, <1>4
<1>6. at' = [at EXCEPT ![c] = "read"]
    BY <1>5 DEF Take, Start
<1>7. QED
    BY <1>3, <1>6

\* Every step keeps the types.
LEMMA NextTypes ==
  ASSUME PoolInv, TypesInv, [Next]_vars
  PROVE  TypesInv'
<1>1. ASSUME UNCHANGED <<mode, process, out, closed, clientVars, inbox, buffer, wire>>,
             conn' \in [Conns -> {"away", "backlog", "accepted"}],
             NEW c \in Conns, NEW where, where # "write", at' = [at EXCEPT ![c] = where]
      PROVE  TypesInv'
  <2>1. ConnectionsInv(Statuses)'
        BY <1>1 DEF TypesInv, ConnectionsInv, ConnectionsTypeOK, Symbols, clientVars
  <2>2. \A d \in Conns : at'[d] = IF d = c THEN where ELSE at[d]
        BY <1>1 DEF PoolInv, QueueInv, PoolType
  <2>3. QED
        BY <1>1, <2>1, <2>2 DEF TypesInv, Writes, clientVars
<1>2. ASSUME NEW c \in Conns, Accept(c) PROVE TypesInv'
  <2>1. /\ UNCHANGED <<mode, process, out, closed, clientVars, inbox, buffer, wire>>
        /\ conn' \in [Conns -> {"away", "backlog", "accepted"}]
        BY <1>2 DEF Accept, TypesInv, ConnectionsInv, ConnectionsTypeOK
  <2>2. \E where : where # "write" /\ at' = [at EXCEPT ![c] = where]
        BY <1>2 DEF Accept, Start
  <2>3. QED
        BY <1>1, <2>1, <2>2
<1>3. CASE Take
  <2>1. PICK c \in Conns : at' = [at EXCEPT ![c] = "read"]
        BY <1>3, TakeStarts
  <2>2. /\ UNCHANGED <<mode, process, out, closed, clientVars, inbox, buffer, wire>>
        /\ conn' \in [Conns -> {"away", "backlog", "accepted"}]
        BY <1>3 DEF Take, TypesInv, ConnectionsInv, ConnectionsTypeOK, connVars, clientVars
  <2>3. QED
        BY <1>1, <2>1, <2>2
<1>4. CASE AcceptFails \/ ThreadFails
    BY <1>4, StopTyped DEF AcceptFails, ThreadFails
<1>5. ASSUME NEW c \in Conns, Client(c), UNCHANGED serverVars PROVE TypesInv'
  <2>1. ConnectionsInv(Statuses)' /\ \A d \in Conns : Len(asked[d]) <= Len(asked'[d])
        BY <1>5, ClientTyped DEF TypesInv
  <2>2. \A d \in Conns : Len(asked[d]) \in Nat /\ Len(asked'[d]) \in Nat
        BY <2>1 DEF TypesInv, ConnectionsInv, ConnectionsTypeOK
  <2>3. \A d \in Conns : ResponseOf(asked[d]) \subseteq ResponseOf(asked'[d])
        BY <2>1, <2>2 DEF ResponseOf
  <2>4. \A d \in Conns : peer'[d] # "reset" => peer[d] # "reset"
        BY <1>5 DEF Client, Connect, SendPiece, SendRequest, Finish, Reset, clientVars,
                    TypesInv, ConnectionsInv, ConnectionsTypeOK
  <2>5. QED
        BY <1>5, <2>1, <2>3, <2>4 DEF TypesInv, serverVars
<1>6. CASE UNCHANGED vars
    BY <1>6 DEF vars, serverVars, connVars, clientVars, TypesInv, ConnectionsInv,
                ConnectionsTypeOK, Symbols
<1>7. QED
    BY <1>2, <1>3, <1>4, <1>5, <1>6, HandleTyped DEF Next

LEMMA TypesInvariance == Spec => [](PoolInv /\ TypesInv)
<1>1. Init => TypesInv
  <2> SUFFICES ASSUME Init PROVE TypesInv
      OBVIOUS
  <2>1. ConnectionsInv(Statuses)
        BY InitConnections DEF Init
  <2>2. \A c \in Conns : asked[c] = <<>> /\ out[c] = NoResponse /\ at[c] = "outside"
        BY DEF Init, ConnectionsInit
  <2>3. Len(<<>>) = 0 /\ NoResponse \in ResponseOf(<<>>)
        BY DEF NoResponse, Response, ResponseOf
  <2>4. QED
        BY <2>1, <2>2, <2>3 DEF Init, TypesInv, Writes
<1>2. PoolInv /\ TypesInv /\ [Next]_vars => TypesInv'
    BY NextTypes
<1>3. QED
    BY <1>1, <1>2, PoolInvariance, PTL DEF Spec

-----------------------------------------------------------------------------
(* What the thread of a connection does next.                              *)

\* The thread goes on with its connection, with the bytes left before the rest,
\* and sent sent so far.
GoesOn(c, left, rest, sent) ==
  /\ left \in Seq(0..Len(asked[c])) /\ buffer' = [buffer EXCEPT ![c] = left]
  /\ UNCHANGED <<mode, process, added, handed, idle, closed>>
  /\ \E where \in {"read", "write"}, o \in ResponseOf(asked[c]) :
       /\ at' = [at EXCEPT ![c] = where] /\ out' = [out EXCEPT ![c] = o]
       /\ peer[c] # "reset" => ServedInOrder(where, o, asked[c], left \o rest, sent)

\* What has been sent when the thread reads.
SentBefore(rs, bytes, sent) ==
  \E k \in 0..Len(rs) : Arrived(bytes, k, Len(rs)) /\ ReadInOrder(rs, k, sent)

\* A response begins when the answers before it have been sent.
LEMMA WriteStarts ==
  ASSUME NEW rs \in Seq(Requests), NEW n \in 1..Len(rs), NEW sent, ReadInOrder(rs, n - 1, sent),
         NEW o, o.request = n, o.sent = 0, o.status = Answer[rs[n]],
         (o.caught \/ Ends(rs[n])) <=> rs[n] \in Final
  PROVE  WriteInOrder(o, rs, n, sent)
<1>1. n - 1 \in 0..Len(rs)
    OBVIOUS
<1>2. PICK t \in Seq(AnswerPart(Answer)) : t = Tr(SubSeq(rs, 1, n - 1))
    BY <1>1, TrType
<1>3. t \o PartsOf(n, o.status, 0) = t
  <2>1. PartsOf(n, o.status, 0) = <<>>
        BY DEF PartsOf
  <2>2. QED
        BY <2>1, ConcatEmptySeq
<1>4. 0 \in 0..Size[o.status]
    BY RequestIs, SizeIs
<1>5. QED
    BY <1>2, <1>3, <1>4 DEF WriteInOrder, ReadInOrder

\* The thread reads on, or answers the first request that it has read.
LEMMA ReadRequestGoesOn ==
  ASSUME NEW c \in Conns, asked[c] \in Seq(Requests), NEW bytes \in Seq(0..Len(asked[c])),
         NEW rest \in Seq(0..Len(asked[c])), NEW sent, ReadRequest(c, bytes),
         peer[c] # "reset" => SentBefore(asked[c], bytes \o rest, sent)
  PROVE  \E left : GoesOn(c, left, rest, sent)
<1>1. PICK rs \in Seq(Requests), L \in Nat : rs = asked[c] /\ L = Len(rs)
    OBVIOUS
<1>2. PICK end : end = FirstEnd(bytes)
    OBVIOUS
<1>3. PICK left \in Seq(0..L) : left = After(bytes, end)
    BY <1>1, <1>2, ReadTyped
<1>4. bytes \in Seq(Nat) /\ rest \in Seq(Nat)
    OBVIOUS
<1>5. buffer' = [buffer EXCEPT ![c] = left]
    BY <1>2, <1>3 DEF ReadRequest
<1>6. UNCHANGED <<mode, process, added, handed, idle, closed>>
    BY DEF ReadRequest, Respond
<1>7. CASE end = 0
  <2>1. at' = [at EXCEPT ![c] = "read"] /\ out' = [out EXCEPT ![c] = NoResponse]
        BY <1>2, <1>7 DEF ReadRequest
  <2>2. NoResponse \in ResponseOf(rs)
        BY <1>1 DEF NoResponse, Response, ResponseOf
  <2>3. left = bytes
    <3>1. SubSeq(bytes, 1, Len(bytes)) = bytes
          BY <1>4, SubSeqFull
    <3>2. QED
          BY <1>3, <1>7, <3>1 DEF After
  <2>4. peer[c] # "reset" => ServedInOrder("read", NoResponse, rs, left \o rest, sent)
        BY <1>1, <2>3 DEF SentBefore, ServedInOrder, InOrder
  <2>5. QED
        BY <1>1, <1>3, <1>5, <1>6, <2>1, <2>2, <2>4 DEF GoesOn
<1>8. CASE end # 0
  <2>1. PICK n \in 1..L : n = bytes[end]
        BY <1>1, <1>2, <1>8, ReadTyped
  <2>2. PICK o : o = HandleRequest(c, n)
        OBVIOUS
  <2>3. at' = [at EXCEPT ![c] = "write"] /\ out' = [out EXCEPT ![c] = o]
        BY <1>2, <1>8, <2>1, <2>2 DEF ReadRequest, Respond
  <2>4. /\ o \in ResponseOf(rs) /\ o.request = n /\ o.sent = 0 /\ o.status = Answer[rs[n]]
        /\ (o.caught \/ Ends(rs[n])) <=> rs[n] \in Final
        BY <1>1, <2>1, <2>2, HandleIs
  <2>5. ASSUME peer[c] # "reset" PROVE ServedInOrder("write", o, rs, left \o rest, sent)
    <3>1. PICK k \in 0..L : Arrived(bytes \o rest, k, L) /\ ReadInOrder(rs, k, sent)
          BY <1>1, <2>5 DEF SentBefore
    <3>2. n = k + 1 /\ Arrived(left \o rest, k + 1, L)
          BY <1>2, <1>3, <1>4, <1>8, <2>1, <3>1, FirstRequest
    <3>3. k = n - 1 /\ n \in 0..L
          BY <3>2
    <3>4. WriteInOrder(o, rs, n, sent)
          BY <1>1, <2>1, <2>4, <3>1, <3>3, WriteStarts
    <3>5. QED
          BY <1>1, <3>2, <3>3, <3>4 DEF ServedInOrder, InOrder
  <2>6. QED
        BY <1>1, <1>3, <1>5, <1>6, <2>3, <2>4, <2>5 DEF GoesOn
<1>9. QED
    BY <1>7, <1>8

\* After a whole response the connection ends or the thread reads on.
LEMMA AfterWriteGoesOn ==
  ASSUME NEW c \in Conns, asked[c] \in Seq(Requests), buffer[c] \in Seq(0..Len(asked[c])),
         NEW rest \in Seq(0..Len(asked[c])), NEW sent, AfterWrite(c),
         peer[c] # "reset" =>
           \E k \in 1..Len(asked[c]) :
             /\ Arrived(buffer[c] \o rest, k, Len(asked[c])) /\ out[c].request = k
             /\ (out[c].caught \/ Ends(asked[c][k])) <=> asked[c][k] \in Final
             /\ Serving(asked[c], k - 1) /\ sent = Tr(SubSeq(asked[c], 1, k))
  PROVE  (Return(c) /\ buffer' = buffer) \/ \E left : GoesOn(c, left, rest, sent)
<1>1. CASE out[c].caught \/ Ends(asked[c][out[c].request])
    BY <1>1 DEF AfterWrite
<1>2. CASE ~(out[c].caught \/ Ends(asked[c][out[c].request]))
  <2>1. ReadRequest(c, buffer[c])
        BY <1>2 DEF AfterWrite
  <2>2. ASSUME peer[c] # "reset" PROVE SentBefore(asked[c], buffer[c] \o rest, sent)
    <3>1. PICK k \in 1..Len(asked[c]) :
             /\ Arrived(buffer[c] \o rest, k, Len(asked[c])) /\ asked[c][k] \notin Final
             /\ Serving(asked[c], k - 1) /\ sent = Tr(SubSeq(asked[c], 1, k))
          BY <1>2, <2>2
    <3>2. Serving(asked[c], k) /\ k \in 0..Len(asked[c])
          BY <3>1 DEF Serving, ServingOf
    <3>3. QED
          BY <3>1, <3>2 DEF SentBefore, ReadInOrder
  <2>3. QED
        BY <2>1, <2>2, ReadRequestGoesOn
<1>3. QED
    BY <1>1, <1>2

-----------------------------------------------------------------------------
(* What every step preserves and implements.                               *)

ServiceStep == [HttpService!Next]_(HttpService!vars)

\* Closing connections is a step of HttpService.
LEMMA ClosingImplements ==
  ASSUME NEW C \in SUBSET Conns, closed' = closed \cup C, UNCHANGED <<asked, wire>>
  PROVE  ServiceStep
<1>1. C \ closed \in SUBSET (Conns \ closed) /\ closed' = closed \cup (C \ closed)
    OBVIOUS
<1>2. HttpService!Close
    BY <1>1 DEF HttpService!Close
<1>3. QED
    BY <1>2 DEF ServiceStep, HttpService!Next

\* More of the transcript of one connection, which may then be closed.
LEMMA SendingImplements ==
  ASSUME NEW c \in Conns, c \notin closed, asked' = asked, asked[c] \in Seq(Requests),
         wire \in [Conns -> Seq(AnswerPart(Answer))],
         NEW sent \in Seq(AnswerPart(Answer)), wire' = [wire EXCEPT ![c] = sent],
         Len(sent) > Len(wire[c]), IsPrefix(sent, Tr(asked[c])),
         closed' \in {closed, closed \cup {c}}
  PROVE  ServiceStep
<1>1. PICK due : due = HttpService!Transcript(asked[c]) /\ due = Tr(asked[c])
    BY TranscriptIsTr
<1>2. due \in Seq(AnswerPart(Answer))
    BY <1>1, TrType
<1>3. PICK n : n = Len(sent)
    OBVIOUS
<1>4. n \in Nat /\ Len(wire[c]) \in Nat /\ Len(due) \in Nat
    BY <1>2, <1>3
<1>5. n <= Len(due) /\ SubSeq(sent, 1, n) = SubSeq(due, 1, n)
    BY <1>1, <1>3 DEF IsPrefix
<1>6. SubSeq(sent, 1, n) = sent
    BY <1>3, SubSeqFull
<1>7. n \in (Len(wire[c]) + 1)..Len(due)
    BY <1>3, <1>4, <1>5
<1>8. wire' = [wire EXCEPT ![c] = SubSeq(due, 1, n)]
    BY <1>5, <1>6
<1>9. HttpService!Deliver(c)
    BY <1>1, <1>7, <1>8 DEF HttpService!Deliver
<1>10. QED
    BY <1>9 DEF ServiceStep, HttpService!Next

\* What a connection and the thread that serves it keep of the types.
LEMMA ThreadHeld ==
  ASSUME PoolInv, Held, NEW c \in Conns, UNCHANGED <<conn, clientVars, mode, process>>,
         closed' \in SUBSET Conns, NEW o \in ResponseOf(asked[c]), out' = [out EXCEPT ![c] = o],
         NEW bytes \in Seq(0..Len(asked[c])), buffer' = [buffer EXCEPT ![c] = bytes],
         NEW rest \in Seq(0..Len(asked[c])), inbox' = [inbox EXCEPT ![c] = rest],
         NEW sent \in Seq(AnyPart(Statuses)), sent \in Seq(AnswerPart(Answer)),
         wire' = [wire EXCEPT ![c] = sent]
  PROVE  Held'
<1>1. ConnectionsInv(Statuses)'
  <2>1. conn' \in [Conns -> {"away", "backlog", "accepted"}] /\ UNCHANGED clientVars
        BY DEF Held, ConnectionsInv, ConnectionsTypeOK
  <2>2. ConnectionsInv(Statuses)
        BY DEF Held
  <2>3. QED
        BY <2>1, <2>2, ServedTyped
<1>2. wire' \in [Conns -> Seq(AnswerPart(Answer))]
    BY DEF Held
<1>3. asked' = asked
    BY DEF clientVars
<1>4. /\ out' = [d \in Conns |-> out'[d]]
      /\ \A d \in Conns : out'[d] = IF d = c THEN o ELSE out[d]
    BY DEF Held
<1>5. \A d \in Conns : out'[d] \in ResponseOf(asked'[d])
    BY <1>3, <1>4 DEF Held
<1>6. QED
    BY <1>1, <1>2, <1>4, <1>5 DEF Held

\* A thread that goes on, or returns, when it has received and sent what it has.
LEMMA ThreadPreserves ==
  ASSUME PoolInv, AnswersInv, NEW c \in Busy, process = "running", UNCHANGED <<conn, clientVars>>,
         NEW rest \in Seq(0..Len(asked[c])), inbox' = [inbox EXCEPT ![c] = rest],
         NEW sent \in Seq(AnyPart(Statuses)), sent \in Seq(AnswerPart(Answer)),
         wire' = [wire EXCEPT ![c] = sent], IsPrefix(sent, Tr(asked[c])),
         sent = wire[c] \/ Len(sent) > Len(wire[c]),
         (Return(c) /\ UNCHANGED buffer) \/ \E left : GoesOn(c, left, rest, sent)
  PROVE  AnswersInv' /\ ServiceStep
<1>1. /\ c \in Conns /\ asked' = asked /\ peer' = peer /\ conn' = conn /\ c \notin closed
      /\ asked[c] \in Seq(Requests) /\ wire \in [Conns -> Seq(AnswerPart(Answer))]
    BY DEF Busy, AnswersInv, Held, ConnectionsInv, ConnectionsTypeOK, clientVars
<1>2. PICK next \in {"read", "write", "done"}, o \in ResponseOf(asked[c]),
           left \in Seq(0..Len(asked[c])) :
        /\ at' = [at EXCEPT ![c] = next] /\ out' = [out EXCEPT ![c] = o]
        /\ buffer' = [buffer EXCEPT ![c] = left]
        /\ closed' \in {closed, closed \cup {c}} /\ (c \in closed' => next = "done")
        /\ UNCHANGED <<mode, process>>
        /\ next # "done" /\ peer[c] # "reset" =>
             ServedInOrder(next, o, asked[c], left \o rest, sent)
  <2>1. CASE Return(c) /\ UNCHANGED buffer
    <3>1. NoResponse \in ResponseOf(asked[c])
          BY <1>1 DEF NoResponse, Response, ResponseOf
    <3>2. PICK left \in Seq(0..Len(asked[c])) : buffer' = [buffer EXCEPT ![c] = left]
      <4>1. buffer[c] \in Seq(0..Len(asked[c])) /\ buffer' = [buffer EXCEPT ![c] = buffer[c]]
            BY <1>1, <2>1 DEF AnswersInv, Held, ConnectionsInv, ConnectionsTypeOK, Symbols
      <4>2. QED
            BY <4>1
    <3>3. QED
          BY <2>1, <3>1, <3>2 DEF Return
  <2>2. CASE \E left : GoesOn(c, left, rest, sent)
    <3>1. PICK left : GoesOn(c, left, rest, sent)
          BY <2>2
    <3>2. PICK where \in {"read", "write"}, o \in ResponseOf(asked[c]) :
            /\ at' = [at EXCEPT ![c] = where] /\ out' = [out EXCEPT ![c] = o]
            /\ peer[c] # "reset" => ServedInOrder(where, o, asked[c], left \o rest, sent)
          BY <3>1 DEF GoesOn
    <3>3. /\ left \in Seq(0..Len(asked[c])) /\ buffer' = [buffer EXCEPT ![c] = left]
          /\ UNCHANGED <<mode, process, closed>> /\ c \notin closed'
          BY <1>1, <3>1 DEF GoesOn
    <3>4. PICK next \in {"read", "write", "done"} : next = where
          OBVIOUS
    <3>5. QED
          BY <3>2, <3>3, <3>4
  <2>3. QED
        BY <2>1, <2>2
<1>3. Held'
  <2>1. closed' \in SUBSET Conns
        BY <1>1, <1>2 DEF AnswersInv, Held, ConnectionsInv, ConnectionsTypeOK
  <2>2. QED
        BY <1>1, <1>2, <2>1, ThreadHeld DEF AnswersInv
<1>4. /\ \A d \in Conns : at'[d] = IF d = c THEN next ELSE at[d]
      /\ \A d \in Conns : out'[d] = IF d = c THEN o ELSE out[d]
      /\ \A d \in Conns : buffer'[d] = IF d = c THEN left ELSE buffer[d]
      /\ \A d \in Conns : inbox'[d] = IF d = c THEN rest ELSE inbox[d]
      /\ \A d \in Conns : wire'[d] = IF d = c THEN sent ELSE wire[d]
    BY <1>2 DEF PoolInv, QueueInv, PoolType, AnswersInv, Held, ConnectionsInv, ConnectionsTypeOK
<1>5. ConnectionInOrder(c)'
    BY <1>1, <1>2, <1>4 DEF ConnectionInOrder, Busy
<1>6. ASSUME NEW d \in Conns, d # c PROVE ConnectionInOrder(d)'
  <2>1. ConnectionInOrder(d)
        BY DEF AnswersInv
  <2>2. QED
        BY <1>1, <1>4, <1>6, <2>1 DEF ConnectionInOrder, Busy, NotServed
<1>7. \A d \in Conns : process' = "running" /\ d \in closed' => at'[d] = "done"
    BY <1>1, <1>2, <1>4 DEF AnswersInv
<1>8. ServiceStep
  <2>1. CASE sent = wire[c]
    <3>1. wire' = wire
          BY <1>1, <2>1
    <3>2. PICK C \in SUBSET Conns : closed' = closed \cup C
      <4>1. closed' = closed \cup {} \/ closed' = closed \cup {c}
            BY <1>2
      <4>2. QED
            BY <1>1, <4>1
    <3>3. QED
          BY <1>1, <3>1, <3>2, ClosingImplements
  <2>2. CASE Len(sent) > Len(wire[c])
        BY <1>1, <1>2, <2>2, SendingImplements
  <2>3. QED
        BY <2>1, <2>2
<1>9. QED
    BY <1>3, <1>5, <1>6, <1>7, <1>8 DEF AnswersInv

\* The end of the process closes every connection and changes nothing else.
LEMMA StopPreserves ==
  ASSUME AnswersInv, NEW how \in {"exited", "terminated"}, Stop(how)
  PROVE  AnswersInv' /\ ServiceStep
<1>1. /\ process' = how /\ closed' = Conns
      /\ UNCHANGED <<mode, at, out, conn, peer, asked, partial, inbox, buffer, wire>>
    BY DEF Stop, clientVars
<1>2. Held'
    BY <1>1 DEF AnswersInv, Held, ConnectionsInv, ConnectionsTypeOK, Symbols
<1>3. \A c \in Conns : ConnectionInOrder(c)'
    BY <1>1 DEF AnswersInv, ConnectionInOrder, Busy, NotServed
<1>4. closed' = closed \cup Conns
    BY <1>1 DEF AnswersInv, Held, ConnectionsInv, ConnectionsTypeOK
<1>5. ServiceStep
    BY <1>1, <1>4, ClosingImplements
<1>6. QED
    BY <1>1, <1>2, <1>3, <1>5 DEF AnswersInv

\* What a connection that is being served holds.
LEMMA BusyHolds ==
  ASSUME AnswersInv, NEW c \in Busy
  PROVE  /\ c \in Conns /\ asked[c] \in Seq(Requests)
         /\ Len(asked[c]) \in Nat /\ Len(asked[c]) <= MaxRequests
         /\ inbox[c] \in Seq(0..Len(asked[c])) /\ inbox = [inbox EXCEPT ![c] = inbox[c]]
         /\ buffer[c] \in Seq(0..Len(asked[c])) /\ buffer = [buffer EXCEPT ![c] = buffer[c]]
         /\ wire[c] \in Seq(AnyPart(Statuses)) /\ wire[c] \in Seq(AnswerPart(Answer))
         /\ wire = [wire EXCEPT ![c] = wire[c]] /\ IsPrefix(wire[c], Tr(asked[c]))
         /\ out[c] \in ResponseOf(asked[c])
         /\ peer[c] # "reset" =>
              ServedInOrder(at[c], out[c], asked[c], buffer[c] \o inbox[c], wire[c])
<1>1. c \in Conns
    BY DEF Busy
<1>2. Held /\ ConnectionInOrder(c)
    BY <1>1 DEF AnswersInv
<1>3. /\ asked[c] \in Seq(Requests) /\ inbox[c] \in Seq(0..Len(asked[c]))
      /\ buffer[c] \in Seq(0..Len(asked[c])) /\ Len(asked[c]) <= MaxRequests
    BY <1>1, <1>2 DEF Held, ConnectionsInv, ConnectionsTypeOK, Symbols
<1>4. /\ inbox = [inbox EXCEPT ![c] = inbox[c]] /\ buffer = [buffer EXCEPT ![c] = buffer[c]]
      /\ wire = [wire EXCEPT ![c] = wire[c]] /\ wire[c] \in Seq(AnyPart(Statuses))
    BY <1>1, <1>2 DEF Held, ConnectionsInv, ConnectionsTypeOK, AnyPart
<1>5. QED
    BY <1>1, <1>2, <1>3, <1>4 DEF Held, ConnectionInOrder

\* A thread receives.
LEMMA ReadSomePreserves ==
  ASSUME PoolInv, AnswersInv, NEW c \in Busy, ReadSome(c)
  PROVE  AnswersInv' /\ ServiceStep
<1>1. PICK L \in Nat : L = Len(asked[c])
    BY BusyHolds
<1>2. PICK s \in Seq(0..L), t \in Seq(0..L) : s = buffer[c] /\ t = inbox[c]
    BY <1>1, BusyHolds
<1>3. PICK m \in 1..Len(t) :
        inbox' = [inbox EXCEPT ![c] = SubSeq(t, m + 1, Len(t))]
          /\ ReadRequest(c, s \o SubSeq(t, 1, m))
    BY <1>2 DEF ReadSome, Receive, Received
<1>4. PICK bytes \in Seq(0..L), rest \in Seq(0..L) :
        bytes = s \o SubSeq(t, 1, m) /\ rest = SubSeq(t, m + 1, Len(t))
    BY ReceivedTyped
<1>5. bytes \o rest = s \o t
  <2>1. s \in Seq(Nat) /\ t \in Seq(Nat) /\ m \in 0..Len(t)
        OBVIOUS
  <2>2. QED
        BY <1>4, <2>1, ReceivedBytes
<1>6. ReadRequest(c, bytes) /\ inbox' = [inbox EXCEPT ![c] = rest]
    BY <1>3, <1>4
<1>7. ASSUME peer[c] # "reset" PROVE SentBefore(asked[c], bytes \o rest, wire[c])
  <2>1. ServedInOrder("read", out[c], asked[c], bytes \o rest, wire[c])
        BY <1>2, <1>5, <1>7, BusyHolds DEF ReadSome, Reading
  <2>2. QED
        BY <2>1 DEF ServedInOrder, InOrder, SentBefore
<1>8. \E left : GoesOn(c, left, rest, wire[c])
    BY <1>1, <1>6, <1>7, BusyHolds, ReadRequestGoesOn
<1>9. process = "running" /\ UNCHANGED <<conn, clientVars, wire>>
    BY DEF ReadSome, Reading
<1>10. wire' = [wire EXCEPT ![c] = wire[c]]
    BY <1>9, BusyHolds
<1>11. QED
    BY <1>1, <1>6, <1>8, <1>9, <1>10, BusyHolds, ThreadPreserves

\* A thread that neither receives nor sends.
LEMMA QuietPreserves ==
  ASSUME PoolInv, AnswersInv, NEW c \in Busy, process = "running",
         UNCHANGED <<conn, clientVars, inbox, wire>>,
         (Return(c) /\ UNCHANGED buffer) \/ \E left : GoesOn(c, left, inbox[c], wire[c])
  PROVE  AnswersInv' /\ ServiceStep
<1>1. inbox' = [inbox EXCEPT ![c] = inbox[c]] /\ wire' = [wire EXCEPT ![c] = wire[c]]
    BY BusyHolds
<1>2. QED
    BY <1>1, BusyHolds, ThreadPreserves

\* An error is answered after the connection has been reset.
LEMMA RespondPreserves ==
  ASSUME PoolInv, AnswersInv, NEW c \in Busy, process = "running", peer[c] = "reset",
         UNCHANGED <<conn, clientVars, inbox, wire, buffer>>,
         NEW n \in 0..Len(asked[c]), Respond(c, Response(n, "500", TRUE))
  PROVE  AnswersInv' /\ ServiceStep
<1>1. PICK o \in ResponseOf(asked[c]) : o = Response(n, "500", TRUE)
    BY DEF Response, ResponseOf, Statuses
<1>2. GoesOn(c, buffer[c], inbox[c], wire[c])
    BY <1>1, BusyHolds DEF Respond, GoesOn
<1>3. QED
    BY <1>2, QuietPreserves

\* A thread sends.
LEMMA SendSomePreserves ==
  ASSUME PoolInv, AnswersInv, NEW c \in Busy, SendSome(c)
  PROVE  AnswersInv' /\ ServiceStep
<1>1. /\ process = "running" /\ at[c] = "write" /\ peer[c] # "reset"
      /\ UNCHANGED <<conn, clientVars, inbox>>
    BY DEF SendSome, Writing
<1>2. PICK rs \in Seq(Requests) : rs = asked[c] /\ Len(rs) \in Nat /\ Len(rs) <= MaxRequests
    BY BusyHolds
<1>3. PICK k \in 0..Len(rs) :
        Arrived(buffer[c] \o inbox[c], k, Len(rs)) /\ WriteInOrder(out[c], rs, k, wire[c])
    BY <1>1, <1>2, BusyHolds DEF ServedInOrder, InOrder
<1>4. PICK status \in Statuses : status = out[c].status /\ status = Answer[rs[k]] /\ status # "none"
    BY <1>3, RequestIs DEF WriteInOrder
<1>5. PICK size \in Nat : size = Size[status]
    BY SizeIs
<1>6. PICK m \in 1..(size - out[c].sent) :
        /\ Transmit(c, out[c].request, status, out[c].sent + 1, out[c].sent + m)
        /\ IF out[c].sent + m = size THEN AfterWrite(c)
           ELSE /\ out' = [out EXCEPT ![c].sent = @ + m]
                /\ UNCHANGED <<mode, process, added, handed, idle, at, closed, buffer>>
    BY <1>4, <1>5 DEF SendSome
<1>7. PICK moved \in Nat : /\ moved = out[c].sent /\ m \in Nat /\ m # 0 /\ moved + m \in 0..size
    BY <1>3, <1>4, <1>5, <1>6, SMTT(60) DEF WriteInOrder
<1>8. /\ k \in 1..Len(rs) /\ out[c].request = k /\ Serving(rs, k - 1)
      /\ (out[c].caught \/ Ends(rs[k])) <=> rs[k] \in Final
      /\ wire[c] = Tr(SubSeq(rs, 1, k - 1)) \o PartsOf(k, status, moved)
    BY <1>3, <1>4, <1>7 DEF WriteInOrder
<1>9. PICK parts : parts = Parts(k, status, moved + 1, moved + m)
    OBVIOUS
<1>10. PICK to \in Nat : to = moved + m
    BY <1>7
<1>11. PICK before \in Seq(AnswerPart(Answer)) : before = wire[c]
    BY BusyHolds
<1>12. SentTo(rs, k, status, moved, before)
    BY <1>8, <1>11 DEF SentTo, SentToOf, Tr
<1>13. PICK sent \in Seq(AnswerPart(Answer)) :
         /\ sent = before \o parts /\ Len(sent) > Len(before)
         /\ SentTo(rs, k, status, to, sent)
    BY <1>4, <1>7, <1>8, <1>9, <1>10, <1>12, SendParts
<1>14. sent = Tr(SubSeq(rs, 1, k - 1)) \o PartsOf(k, status, to)
    BY <1>13 DEF SentTo, SentToOf, Tr
<1>15. sent \in Seq(AnyPart(Statuses))
  <2>1. k \in 1..MaxRequests /\ status \in Statuses /\ wire[c] \in Seq(AnyPart(Statuses))
    <3>1. k \in 1..MaxRequests
          BY <1>2, <1>8, ConnectionsAssumption
    <3>2. QED
          BY <3>1, BusyHolds
  <2>2. wire[c] \o Parts(k, status, moved + 1, moved + m) \in Seq(AnyPart(Statuses))
        BY <1>7, <2>1, SentTyped
  <2>3. QED
        BY <1>9, <1>11, <1>13, <2>2
<1>16. IsPrefix(sent, Tr(rs))
  <2>1. to \in 0..Size[status]
        BY <1>5, <1>7, <1>10
  <2>2. QED
        BY <1>4, <1>8, <1>14, <2>1, SentSoFar
<1>17. wire' = [wire EXCEPT ![c] = sent]
    BY <1>6, <1>7, <1>8, <1>9, <1>11, <1>13 DEF Transmit
<1>18. (Return(c) /\ UNCHANGED buffer) \/ \E left : GoesOn(c, left, inbox[c], sent)
  <2>1. CASE to = size
    <3>1. AfterWrite(c)
          BY <1>6, <1>7, <1>10, <2>1
    <3>2. sent = Tr(SubSeq(rs, 1, k))
          BY <1>4, <1>5, <1>8, <1>14, <2>1, NextAnswer
    <3>3. QED
          BY <1>1, <1>2, <1>3, <1>8, <3>1, <3>2, BusyHolds, AfterWriteGoesOn
  <2>2. CASE to # size
    <3>1. PICK o \in ResponseOf(rs) :
            /\ out' = [out EXCEPT ![c] = o] /\ o.request = k /\ o.status = status /\ o.sent = to
            /\ o.caught = out[c].caught
      <4>1. PICK o : o = [out[c] EXCEPT !.sent = to]
            OBVIOUS
      <4>2. /\ out[c] \in ResponseOf(rs) /\ out' = [out EXCEPT ![c] = o]
            BY <1>2, <1>6, <1>7, <1>10, <2>2, <4>1, BusyHolds
      <4>3. /\ o \in ResponseOf(rs) /\ o.request = k /\ o.status = status /\ o.sent = to
            /\ o.caught = out[c].caught
            BY <1>4, <1>8, <4>1, <4>2 DEF ResponseOf
      <4>4. QED
            BY <4>2, <4>3
    <3>2. /\ UNCHANGED <<mode, process, added, handed, idle, closed>>
          /\ at' = [at EXCEPT ![c] = "write"] /\ buffer' = [buffer EXCEPT ![c] = buffer[c]]
          BY <1>1, <1>6, <1>7, <1>10, <2>2, BusyHolds DEF PoolInv, QueueInv, PoolType
    <3>3. WriteInOrder(o, rs, k, sent)
          BY <1>4, <1>5, <1>7, <1>8, <1>10, <1>14, <3>1 DEF WriteInOrder
    <3>4. ServedInOrder("write", o, rs, buffer[c] \o inbox[c], sent)
          BY <1>3, <3>3 DEF ServedInOrder, InOrder
    <3>5. GoesOn(c, buffer[c], inbox[c], sent)
          BY <1>2, <3>1, <3>2, <3>4, BusyHolds DEF GoesOn
    <3>6. QED
          BY <3>5
  <2>3. QED
        BY <2>1, <2>2
<1>19. QED
  <2>1. inbox' = [inbox EXCEPT ![c] = inbox[c]]
        BY <1>1, BusyHolds
  <2>2. QED
        BY <1>1, <1>2, <1>11, <1>13, <1>15, <1>16, <1>17, <1>18, <2>1, BusyHolds, ThreadPreserves

\* What handle_connection does for its connection.
LEMMA HandlePreserves ==
  ASSUME "send" \notin Faults, PoolInv, AnswersInv, NEW c \in Conns, Handle(c)
  PROVE  AnswersInv' /\ ServiceStep
<1>1. process = "running" /\ at[c] \in {"read", "write"}
    BY DEF Handle, ReadSome, ReadClosed, ReadFails, SendSome, SendCutShort, SendFails,
       Reading, Writing
<1>2. c \in Busy
    BY <1>1 DEF Busy
<1>3. CASE ReadSome(c)
    BY <1>2, <1>3, ReadSomePreserves
<1>4. CASE ReadClosed(c)
    BY <1>1, <1>2, <1>4, QuietPreserves DEF ReadClosed
<1>5. CASE ReadFails(c)
  <2>1. 0 \in 0..Len(asked[c])
        BY <1>2, BusyHolds
  <2>2. QED
        BY <1>1, <1>2, <1>5, <2>1, RespondPreserves DEF ReadFails
<1>6. CASE SendSome(c)
    BY <1>2, <1>6, SendSomePreserves
<1>7. CASE SendCutShort(c)
  <2>1. (Return(c) /\ UNCHANGED buffer) \/ \E left : GoesOn(c, left, inbox[c], wire[c])
        BY <1>2, <1>7, BusyHolds, AfterWriteGoesOn DEF SendCutShort
  <2>2. QED
        BY <1>1, <1>2, <1>7, <2>1, QuietPreserves DEF SendCutShort
<1>8. CASE SendFails(c)
  <2>1. CASE Stop("terminated")
        BY <2>1, StopPreserves
  <2>2. CASE Return(c) /\ UNCHANGED <<conn, clientVars, inbox, buffer, wire>>
        BY <1>1, <1>2, <2>2, QuietPreserves
  <2>3. CASE /\ Respond(c, Response(out[c].request, "500", TRUE))
             /\ UNCHANGED <<conn, clientVars, inbox, buffer, wire>>
    <3>1. out[c].request \in 0..Len(asked[c]) /\ peer[c] = "reset"
          BY <1>2, <1>8, BusyHolds DEF ResponseOf, SendFails
    <3>2. QED
          BY <1>1, <1>2, <2>3, <3>1, RespondPreserves
  <2>4. QED
        BY <1>8, <2>1, <2>2, <2>3 DEF SendFails, Escape
<1>9. QED
    BY <1>3, <1>4, <1>5, <1>6, <1>7, <1>8 DEF Handle

\* A thread begins with nothing sent and none of the requests handled.
LEMMA ServiceStarts ==
  ASSUME NEW c \in Conns, asked[c] \in Seq(Requests), inbox[c] \in Seq(Nat), NotServed(c), NEW o
  PROVE  ServedInOrder("read", o, asked[c], buffer[c] \o inbox[c], wire[c])
<1>1. buffer[c] \o inbox[c] = inbox[c]
    BY ConcatEmptySeq DEF NotServed
<1>2. Serving(asked[c], 0) /\ 0 \in 0..Len(asked[c])
    BY DEF Serving, ServingOf
<1>3. Tr(SubSeq(asked[c], 1, 0)) = <<>>
  <2>1. SubSeq(asked[c], 1, 0) = <<>>
        OBVIOUS
  <2>2. QED
        BY <2>1, TranscriptEmpty DEF Tr
<1>4. InOrder("read", o, asked[c], 0, wire[c])
    BY <1>2, <1>3 DEF InOrder, ReadInOrder, NotServed
<1>5. QED
    BY <1>1, <1>2, <1>4 DEF ServedInOrder, NotServed

\* A connection is queued, or a thread starts to serve it.
LEMMA StartPreserves ==
  ASSUME PoolInv, AnswersInv, NEW c \in Conns, at[c] \in {"outside", "queued"},
         NEW where \in {"queued", "read"}, at' = [at EXCEPT ![c] = where], process = "running",
         conn' \in [Conns -> {"away", "backlog", "accepted"}],
         UNCHANGED <<mode, process, out, closed, clientVars, inbox, buffer, wire>>
  PROVE  AnswersInv' /\ ServiceStep
<1>1. asked' = asked /\ peer' = peer /\ partial' = partial
    BY DEF clientVars
<1>2. Held'
    BY <1>1 DEF AnswersInv, Held, ConnectionsInv, ConnectionsTypeOK, Symbols
<1>3. \A d \in Conns : at'[d] = IF d = c THEN where ELSE at[d]
    BY DEF PoolInv, QueueInv, PoolType
<1>4. ConnectionInOrder(c)'
  <2>1. ConnectionInOrder(c) /\ NotServed(c)
        BY DEF AnswersInv, ConnectionInOrder
  <2>2. asked[c] \in Seq(Requests) /\ inbox[c] \in Seq(Nat)
        BY DEF AnswersInv, Held, ConnectionsInv, ConnectionsTypeOK, Symbols
  <2>3. ServedInOrder("read", out[c], asked[c], buffer[c] \o inbox[c], wire[c])
        BY <2>1, <2>2, ServiceStarts
  <2>4. QED
        BY <1>1, <1>3, <2>1, <2>3 DEF ConnectionInOrder, NotServed, Busy
<1>5. ASSUME NEW d \in Conns, d # c PROVE ConnectionInOrder(d)'
  <2>1. ConnectionInOrder(d)
        BY DEF AnswersInv
  <2>2. QED
        BY <1>1, <1>3, <1>5, <2>1 DEF ConnectionInOrder, NotServed, Busy
<1>6. \A d \in Conns : process' = "running" /\ d \in closed' => at'[d] = "done"
    BY <1>3 DEF AnswersInv
<1>7. ServiceStep
    BY <1>1 DEF ServiceStep, HttpService!vars
<1>8. QED
    BY <1>2, <1>4, <1>5, <1>6, <1>7 DEF AnswersInv

\* The main thread accepts a connection.
LEMMA AcceptPreserves ==
  ASSUME PoolInv, AnswersInv, NEW c \in Conns, Accept(c)
  PROVE  AnswersInv' /\ ServiceStep
<1>1. at[c] = "outside" /\ process = "running"
    BY DEF Accept, PoolInv, QueueInv, Newcomers
<1>2. \E where \in {"queued", "read"} : at' = [at EXCEPT ![c] = where]
    BY DEF Accept, Start
<1>3. conn' \in [Conns -> {"away", "backlog", "accepted"}]
    BY DEF Accept, PoolInv, QueueInv, PoolType
<1>4. UNCHANGED <<mode, process, out, closed, clientVars, inbox, buffer, wire>>
    BY DEF Accept
<1>5. QED
    BY <1>1, <1>2, <1>3, <1>4, StartPreserves

\* A worker takes the first connection that waits.
LEMMA TakePreserves ==
  ASSUME PoolInv, AnswersInv, Take
  PROVE  AnswersInv' /\ ServiceStep
<1>1. PICK c \in Conns : at[c] = "queued" /\ at' = [at EXCEPT ![c] = "read"]
    BY TakeStarts
<1>2. process = "running"
    BY DEF Take
<1>3. UNCHANGED <<mode, process, out, conn, closed, clientVars, inbox, buffer, wire>>
    BY DEF Take, connVars, clientVars
<1>4. conn' \in [Conns -> {"away", "backlog", "accepted"}]
    BY <1>3 DEF PoolInv, QueueInv, PoolType
<1>5. QED
    BY <1>1, <1>2, <1>3, <1>4, StartPreserves

\* What a client does to the order of its own connection.
LEMMA ClientInOrder ==
  ASSUME AnswersInv, NEW c \in Conns, ClientEffect(c), UNCHANGED serverVars
  PROVE  ConnectionInOrder(c)'
<1>1. UNCHANGED <<closed, buffer, wire, at, out, process>>
    BY DEF ClientEffect, serverVars
<1>2. ConnectionInOrder(c) /\ inbox[c] \in Seq(Nat) /\ buffer[c] \in Seq(Nat)
    BY DEF AnswersInv, Held, ConnectionsInv, ConnectionsTypeOK, Symbols
<1>3. PICK rs \in Seq(Requests), more \in Seq(Requests) :
        rs = asked[c] /\ more = asked'[c] /\ (more = rs \/ OneMore(more, rs))
    BY DEF ClientEffect, AnswersInv, Held, ConnectionsInv, ConnectionsTypeOK
<1>4. /\ Len(rs) \in Nat /\ Len(more) \in Nat
      /\ \A k \in 0..Len(rs) : k \in 0..Len(more) /\ \A n \in 1..k : more[n] = rs[n]
    BY <1>3 DEF OneMore
<1>5. IsPrefix(wire[c], Tr(more))
  <2>1. CASE OneMore(more, rs)
    <3>1. IsPrefix(Tr(rs), Tr(more))
          BY <2>1, SizeIs, TranscriptGrows DEF Tr
    <3>2. /\ Tr(rs) \in Seq(AnswerPart(Answer)) /\ Tr(more) \in Seq(AnswerPart(Answer))
          /\ wire[c] \in Seq(AnswerPart(Answer))
          BY TrType DEF AnswersInv, Held
    <3>3. QED
          BY <1>2, <1>3, <3>1, <3>2, PrefixTransitive DEF ConnectionInOrder
  <2>2. QED
        BY <1>2, <1>3, <2>1 DEF ConnectionInOrder
<1>6. at'[c] \in {"outside", "queued"} => NotServed(c)'
    BY <1>1, <1>2, NotServedStill DEF ConnectionInOrder
<1>7. ASSUME c \in Busy', peer'[c] # "reset"
      PROVE  ServedInOrder(at[c], out[c], more, buffer[c] \o inbox'[c], wire[c])
  <2>1. c \in Busy /\ peer[c] # "reset"
        BY <1>1, <1>7 DEF ClientEffect, Busy
  <2>2. PICK k \in 0..Len(rs) : /\ Arrived(buffer[c] \o inbox[c], k, Len(rs))
                                /\ InOrder(at[c], out[c], rs, k, wire[c])
        BY <1>2, <1>3, <2>1 DEF ConnectionInOrder, ServedInOrder
  <2>3. Arrived(buffer[c] \o inbox'[c], k, Len(more))
    <3>1. k \in Nat
          BY <1>4
    <3>2. QED
          BY <1>2, <1>3, <2>2, <3>1 DEF ClientEffect, ArrivesAtEnd
  <2>4. \A j \in 0..k : SubSeq(more, 1, j) = SubSeq(rs, 1, j)
        BY <1>4
  <2>5. InOrder(at[c], out[c], more, k, wire[c])
    <3>1. CASE at[c] = "read"
      <4>1. ReadInOrder(rs, k, wire[c]) /\ k \in 0..k
            BY <1>4, <2>2, <3>1 DEF InOrder
      <4>2. ReadInOrder(more, k, wire[c])
            BY <1>4, <2>4, <4>1 DEF ReadInOrder, Serving, ServingOf
      <4>3. QED
            BY <3>1, <4>2 DEF InOrder
    <3>2. CASE at[c] = "write"
      <4>1. PICK o : o = out[c]
            OBVIOUS
      <4>2. WriteInOrder(o, rs, k, wire[c])
            BY <2>2, <3>2, <4>1 DEF InOrder
      <4>3. k \in 1..Len(more) /\ more[k] = rs[k] /\ k - 1 \in 0..k
            BY <1>4, <4>2 DEF WriteInOrder
      <4>4. Serving(more, k - 1)
            BY <1>4, <4>2, <4>3, SMTT(60) DEF WriteInOrder, Serving, ServingOf
      <4>5. WriteInOrder(o, more, k, wire[c])
            BY <2>4, <4>2, <4>3, <4>4 DEF WriteInOrder
      <4>6. QED
            BY <3>2, <4>1, <4>5 DEF InOrder
    <3>3. QED
          BY <2>1, <3>1, <3>2 DEF Busy
  <2>6. QED
        BY <1>4, <2>3, <2>5 DEF ServedInOrder
<1>8. QED
    BY <1>1, <1>3, <1>5, <1>6, <1>7 DEF ConnectionInOrder

\* Of what a client does, HttpService sees the requests.
LEMMA ClientPreserves ==
  ASSUME AnswersInv, NEW c \in Conns, Client(c), UNCHANGED serverVars
  PROVE  AnswersInv' /\ ServiceStep
<1>1. ClientEffect(c)
  <2>1. inbox \in [Conns -> Seq(Nat)]
    <3>1. inbox \in [Conns -> Seq(0..MaxRequests)]
          BY DEF AnswersInv, Held, ConnectionsInv, ConnectionsTypeOK
    <3>2. 0..MaxRequests \subseteq Nat
          OBVIOUS
    <3>3. ASSUME NEW d \in Conns PROVE inbox[d] \in Seq(Nat)
      <4>1. inbox[d] \in Seq(0..MaxRequests)
            BY <3>1
      <4>2. QED
            BY <3>2, <4>1, SeqMonotonic
    <3>4. QED
          BY <3>1, <3>3
  <2>2. /\ asked \in [Conns -> Seq(Requests)] /\ peer \in [Conns -> {"open", "fin", "reset"}]
        /\ conn = [d \in Conns |-> conn[d]]
        BY DEF AnswersInv, Held, ConnectionsInv, ConnectionsTypeOK
  <2>3. QED
        BY <2>1, <2>2, ClientEffectIs
<1>2. UNCHANGED <<closed, buffer, wire, at, out, process, mode>>
    BY <1>1 DEF ClientEffect, serverVars
<1>3. Held'
  <2>1. ConnectionsInv(Statuses)' /\ \A d \in Conns : Len(asked[d]) <= Len(asked'[d])
        BY ClientTyped DEF AnswersInv, Held
  <2>2. \A d \in Conns : Len(asked[d]) \in Nat /\ Len(asked'[d]) \in Nat
        BY <2>1 DEF AnswersInv, Held, ConnectionsInv, ConnectionsTypeOK
  <2>3. \A d \in Conns : ResponseOf(asked[d]) \subseteq ResponseOf(asked'[d])
        BY <2>1, <2>2 DEF ResponseOf
  <2>4. QED
        BY <1>2, <2>1, <2>3 DEF AnswersInv, Held
<1>4. ASSUME NEW d \in Conns PROVE ConnectionInOrder(d)'
  <2>1. CASE d = c
        BY <1>1, <2>1, ClientInOrder
  <2>2. CASE d # c
    <3>1. ConnectionInOrder(d)
          BY DEF AnswersInv
    <3>2. asked'[d] = asked[d] /\ peer'[d] = peer[d] /\ inbox'[d] = inbox[d]
          BY <1>1, <2>2 DEF ClientEffect
    <3>3. QED
          BY <1>2, <3>1, <3>2 DEF ConnectionInOrder, NotServed, Busy
  <2>3. QED
        BY <2>1, <2>2
<1>5. ServiceStep
  <2>1. Asks(c) /\ UNCHANGED <<wire, closed>> => HttpService!Ask(c)
        BY DEF Asks, HttpService!Ask
  <2>2. QED
        BY <1>1, <1>2, <2>1 DEF ClientEffect, ServiceStep, HttpService!Next, HttpService!vars
<1>6. QED
    BY <1>2, <1>3, <1>4, <1>5 DEF AnswersInv

-----------------------------------------------------------------------------
(* The theorems.                                                           *)

\* Initially nothing has been asked or sent.
LEMMA InitAnswers == Init => AnswersInv /\ HttpService!Init
<1> SUFFICES ASSUME Init PROVE AnswersInv /\ HttpService!Init
    OBVIOUS
<1>1. \A c \in Conns : /\ at[c] = "outside" /\ wire[c] = <<>> /\ asked[c] = <<>>
                       /\ inbox[c] = <<>> /\ buffer[c] = <<>> /\ out[c] = NoResponse
    BY DEF Init, ConnectionsInit
<1>2. closed = {} /\ process = "running"
    BY DEF Init, ConnectionsInit
<1>3. <<>> \in Seq(Nat) /\ <<>> \in Seq(AnswerPart(Answer)) /\ Len(<<>>) = 0
    OBVIOUS
<1>4. Held
  <2>1. ConnectionsInv(Statuses)
        BY InitConnections DEF Init
  <2>2. NoResponse \in ResponseOf(<<>>)
        BY <1>3 DEF NoResponse, Response, ResponseOf
  <2>3. QED
        BY <1>1, <1>3, <2>1, <2>2 DEF Init, ConnectionsInit, Held
<1>5. Tr(<<>>) = <<>>
    BY TranscriptEmpty DEF Tr
<1>6. IsPrefix(<<>>, <<>>)
  <2>1. PICK none \in Seq(Nat) : none = <<>>
        BY <1>3
  <2>2. IsPrefix(none, none)
        BY PrefixOfConcat
  <2>3. QED
        BY <2>1, <2>2
<1>7. Arrived(<<>>, 0, 0)
    BY <1>3 DEF Arrived
<1>8. \A c \in Conns : ConnectionInOrder(c)
    BY <1>1, <1>3, <1>5, <1>6, <1>7 DEF ConnectionInOrder, NotServed, Busy
<1>9. HttpService!Init
    BY DEF Init, ConnectionsInit, HttpService!Init
<1>10. QED
    BY <1>2, <1>4, <1>8, <1>9 DEF AnswersInv

\* Every step preserves the invariant and implements HttpService.
LEMMA NextAnswers ==
  ASSUME "send" \notin Faults, PoolInv, AnswersInv, [Next]_vars
  PROVE  AnswersInv' /\ ServiceStep
<1>1. CASE (\E c \in Conns : Accept(c) \/ Handle(c)) \/ Take
    BY <1>1, AcceptPreserves, HandlePreserves, TakePreserves
<1>2. CASE AcceptFails \/ ThreadFails
    BY <1>2, StopPreserves DEF AcceptFails, ThreadFails
<1>3. CASE \E c \in Conns : Client(c) /\ UNCHANGED serverVars
    BY <1>3, ClientPreserves
<1>4. CASE UNCHANGED vars
  <2>1. /\ UNCHANGED <<mode, process, at, out, conn, closed, peer, asked, partial>>
        /\ UNCHANGED <<inbox, buffer, wire>>
        BY <1>4 DEF vars, serverVars, connVars, clientVars
  <2>2. Held'
        BY <2>1 DEF AnswersInv, Held, ConnectionsInv, ConnectionsTypeOK, Symbols
  <2>3. \A c \in Conns : ConnectionInOrder(c)'
        BY <2>1 DEF AnswersInv, ConnectionInOrder, NotServed, Busy
  <2>4. QED
        BY <2>1, <2>2, <2>3 DEF AnswersInv, ServiceStep, HttpService!vars
<1>5. QED
    BY <1>1, <1>2, <1>3, <1>4 DEF Next

\* Every thread answers the requests of its connection in order.
LEMMA AnswersInvariance ==
  ASSUME "send" \notin Faults
  PROVE  Spec => [](PoolInv /\ AnswersInv)
<1>1. Init => AnswersInv
    BY InitAnswers
<1>2. PoolInv /\ AnswersInv /\ [Next]_vars => AnswersInv'
    BY NextAnswers
<1>3. QED
    BY <1>1, <1>2, PoolInvariance, PTL DEF Spec

\* Every variable keeps its type; in particular a response is always one to a
\* request that the connection has sent, or to none, whatever goes wrong.
THEOREM TypesHold == Spec => []TypeOK
<1>1. PoolInv /\ TypesInv => TypeOK
  <2> SUFFICES ASSUME PoolInv, TypesInv PROVE TypeOK
      OBVIOUS
  <2>1. \A c \in Conns : ResponseOf(asked[c]) \subseteq
          [request : 0..MaxRequests, status : Statuses \cup {"none"}, sent : Nat, caught : BOOLEAN]
    <3>1. \A c \in Conns : /\ Len(asked[c]) \in Nat /\ Len(asked[c]) <= MaxRequests
                           /\ MaxRequests \in Nat
          BY ConnectionsAssumption
             DEF TypesInv, ConnectionsInv, ConnectionsTypeOK, Symbols
    <3>2. QED
          BY <3>1 DEF ResponseOf
  <2>2. QED
        BY <2>1 DEF TypeOK, PoolInv, QueueInv, PoolType, TypesInv, ConnectionsInv
<1>2. QED
    BY <1>1, TypesInvariance, PTL

\* The parts that the client of a connection gets are a prefix of the answers its
\* requests deserve, in their order, while send() fails only for good
\* (connection_handlers.cpp:14-38, connection.cpp:118-144).
THEOREM AnswersComeInOrder == "send" \notin Faults => (Spec => []AnswersInOrder)
<1> SUFFICES ASSUME "send" \notin Faults PROVE Spec => []AnswersInOrder
    OBVIOUS
<1>1. AnswersInv => AnswersInOrder
    BY TranscriptIsTr DEF AnswersInv, ConnectionInOrder, AnswersInOrder
<1>2. QED
    BY <1>1, AnswersInvariance, PTL

\* Every step of a synchronous server is one of HttpService or changes nothing
\* that HttpService sees: what ImplementsHttpService says, but for the fairness.
THEOREM SyncServerImplementsSteps ==
  "send" \notin Faults =>
    (Spec => HttpService!Init /\ [][HttpService!Next]_(HttpService!vars))
<1> SUFFICES ASSUME "send" \notin Faults
             PROVE  Spec => HttpService!Init /\ [][HttpService!Next]_(HttpService!vars)
    OBVIOUS
<1>1. Init => HttpService!Init
    BY InitAnswers
<1>2. PoolInv /\ AnswersInv /\ [Next]_vars => [HttpService!Next]_(HttpService!vars)
    BY NextAnswers DEF ServiceStep
<1>3. QED
    BY <1>1, <1>2, AnswersInvariance, PTL DEF Spec
=============================================================================
