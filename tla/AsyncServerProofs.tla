-------------------------- MODULE AsyncServerProofs --------------------------
(***************************************************************************)
(* Theorems about the asynchronous server, for any number of connections,  *)
(* requests and faults.                                                    *)
(*                                                                         *)
(* The event loop's bookkeeping: its vectors hold every pollable that      *)
(* exists exactly once, and, as long as poll() reports no socket on which  *)
(* recv() then finds nothing, a connection never has two operations        *)
(* pending.                                                                *)
(*                                                                         *)
(* The answers, under the same condition and while send() fails only on    *)
(* connections that stay broken: they come back whole, in order and with   *)
(* the status each request deserves, the server closes a connection only   *)
(* for a reason, and every step of it is one of HttpService or none.       *)
(* Without the conditions two readers may share a connection               *)
(* (OneOperation), and answers be cut off; then too the types hold, and    *)
(* each answer by itself is whole as far as it goes.                       *)
(***************************************************************************)
EXTENDS AsyncServer, TranscriptLemmas

\* Every entry of op is a pollable with all its fields.
IsOperation(o) ==
  o = [kind |-> o.kind, request |-> o.request, status |-> o.status, size |-> o.size,
       moved |-> o.moved, late |-> o.late]

\* What the functions of the model are functions of.
Shape ==
  /\ op = [i \in Ids |-> op[i]] /\ \A i \in Ids : IsOperation(op[i])
  /\ conn = [c \in Conns |-> conn[c]]

\* A connection has no pollable before it is accepted.
NoneBeforeAccept ==
  \A i \in Ids : op[i] # Nothing => conn[Owner(i)] = "accepted"

\* A pass leaves none of its pollables behind.
PassesEnd == phase = "poll" => ready = {} /\ skipped = {}

HeldInv == Shape /\ NoneBeforeAccept /\ PassesEnd /\ EveryPollableHeldOnce

-----------------------------------------------------------------------------
(* Pollables.                                                              *)

\* The listener is not a pollable of a connection.
LEMMA ListenerApart == Listener \notin Ids
BY DEF Listener, Ids

\* What read_until returns is a pollable, and never none.
LEMMA ReadRequestPollable ==
  ASSUME NEW c, NEW bytes
  PROVE  /\ IsOperation(ReadRequest(c, bytes).next)
         /\ ReadRequest(c, bytes).next # Nothing
BY DEF ReadRequest, HandleRequest, AllowRequest, ServeFile, Read, FileRead, Write, Nothing,
       Operation, IsOperation

\* So is what the other callbacks return, where it is not none.
LEMMA CallbackPollable ==
  ASSUME NEW c, NEW n, NEW i
  PROVE  IsOperation(AfterWrite(c, n).next) /\ IsOperation(FileCallback(i))
<1>1. IsOperation(Nothing)
    BY DEF Nothing, Operation, IsOperation
<1>2. IsOperation(AfterWrite(c, n).next)
    BY <1>1, ReadRequestPollable DEF AfterWrite
<1>3. IsOperation(FileCallback(i))
    BY <1>1 DEF FileCallback, ServeFile, FileRead, Write, Operation, IsOperation
<1>4. QED
    BY <1>2, <1>3

-----------------------------------------------------------------------------
(* EveryPollableHeldOnce.                                                  *)

LEMMA InitHeld == Init => HeldInv
<1> SUFFICES ASSUME Init PROVE HeldInv
    OBVIOUS
<1>1. Shape
    BY DEF Init, ConnectionsInit, Shape, IsOperation, Nothing, Operation
<1>2. NoneBeforeAccept /\ PassesEnd
    BY DEF Init, NoneBeforeAccept, PassesEnd
<1>3. EveryPollableHeldOnce
    BY ListenerApart DEF Init, EveryPollableHeldOnce
<1>4. QED
    BY <1>1, <1>2, <1>3 DEF HeldInv

\* The three ways process_pollable ends.
LEMMA ReplaceHeld ==
  ASSUME HeldInv, phase = "serve", NEW i \in ready \ {Listener}, NEW next,
         IsOperation(next), Replace(i, next), conn' = conn
  PROVE  HeldInv'
<1>1. i \in Ids /\ op[i] # Nothing
    BY DEF HeldInv, EveryPollableHeldOnce
<1>2. op' = [op EXCEPT ![i] = next] /\ ready' = ready \ {i} /\ phase' = phase /\ skipped' = skipped
      /\ pollables' = pollables \cup (IF next = Nothing THEN {} ELSE {i})
    BY DEF Replace, Processed, Install
<1>3. Shape'
    BY <1>1, <1>2 DEF HeldInv, Shape
<1>4. NoneBeforeAccept' /\ PassesEnd'
    BY <1>1, <1>2 DEF HeldInv, Shape, NoneBeforeAccept, PassesEnd
<1>5. EveryPollableHeldOnce'
    BY <1>1, <1>2, ListenerApart DEF HeldInv, Shape, EveryPollableHeldOnce
<1>6. QED
    BY <1>3, <1>4, <1>5 DEF HeldInv

LEMMA KeepHeld ==
  ASSUME HeldInv, phase = "serve", NEW i \in ready \ {Listener}, NEW updated,
         IsOperation(updated), updated # Nothing, Keep(i, updated), conn' = conn
  PROVE  HeldInv'
<1>1. i \in Ids /\ op[i] # Nothing
    BY DEF HeldInv, EveryPollableHeldOnce
<1>2. op' = [op EXCEPT ![i] = updated] /\ ready' = ready \ {i} /\ phase' = phase
      /\ skipped' = skipped /\ pollables' = pollables \cup {i}
    BY DEF Keep, Processed, Install
<1>3. Shape'
    BY <1>1, <1>2 DEF HeldInv, Shape
<1>4. NoneBeforeAccept' /\ PassesEnd'
    BY <1>1, <1>2 DEF HeldInv, Shape, NoneBeforeAccept, PassesEnd
<1>5. EveryPollableHeldOnce'
    BY <1>1, <1>2, ListenerApart DEF HeldInv, Shape, EveryPollableHeldOnce
<1>6. QED
    BY <1>3, <1>4, <1>5 DEF HeldInv

LEMMA KeepAndAddHeld ==
  ASSUME HeldInv, phase = "serve", NEW i \in ready \ {Listener}, NEW next,
         IsOperation(next), next # Nothing, KeepAndAdd(i, next), conn' = conn
  PROVE  HeldInv'
<1>1. i \in Ids /\ op[i] # Nothing
    BY DEF HeldInv, EveryPollableHeldOnce
<1>2. PICK j \in Ids : /\ Owner(j) = Owner(i) /\ op[j] = Nothing
                       /\ op' = [op EXCEPT ![j] = next] /\ ready' = ready \ {i}
                       /\ phase' = phase /\ skipped' = skipped
                       /\ pollables' = pollables \cup {i, j}
    BY DEF KeepAndAdd, Processed, Install
<1>3. Shape'
    BY <1>1, <1>2 DEF HeldInv, Shape
<1>4. NoneBeforeAccept' /\ PassesEnd'
    BY <1>1, <1>2 DEF HeldInv, Shape, NoneBeforeAccept, PassesEnd
<1>5. EveryPollableHeldOnce'
    BY <1>1, <1>2, ListenerApart DEF HeldInv, Shape, EveryPollableHeldOnce
<1>6. QED
    BY <1>3, <1>4, <1>5 DEF HeldInv

LEMMA NotifyHeld == HeldInv /\ Notify => HeldInv'
<1> SUFFICES ASSUME HeldInv, Notify PROVE HeldInv'
    OBVIOUS
<1>s. phase = "serve"
    BY DEF Notify
<1>1. ASSUME NEW i \in ready \ {Listener}, NotifyRead(i) PROVE HeldInv'
  <2>1. conn' = conn
        BY <1>1 DEF NotifyRead
  <2>2. \/ \E next : IsOperation(next) /\ Replace(i, next)
        \/ \E next : IsOperation(next) /\ next # Nothing /\ KeepAndAdd(i, next)
    <3>1. IsOperation(Nothing)
          BY DEF IsOperation, Nothing, Operation
    <3>2. QED
          BY <1>1, <3>1, ReadRequestPollable DEF NotifyRead
  <2>3. QED
        BY <1>s, <2>1, <2>2, ReplaceHeld, KeepAndAddHeld
<1>2. ASSUME NEW i \in ready \ {Listener}, NotifyFile(i) PROVE HeldInv'
  <2>1. i \in Ids /\ op[i] # Nothing /\ IsOperation(op[i]) /\ conn' = conn
        BY <1>2 DEF HeldInv, Shape, EveryPollableHeldOnce, NotifyFile
  <2>2. IsOperation([op[i] EXCEPT !.moved = @ + 1]) /\ [op[i] EXCEPT !.moved = @ + 1] # Nothing
        BY <1>2, <2>1 DEF NotifyFile, IsOperation, Nothing, Operation
  <2>3. \/ Keep(i, [op[i] EXCEPT !.moved = @ + 1]) \/ Keep(i, op[i])
        \/ Replace(i, FileCallback(i))
        BY <1>2 DEF NotifyFile
  <2>4. QED
        BY <1>s, <2>1, <2>2, <2>3, CallbackPollable, ReplaceHeld, KeepHeld
<1>3. ASSUME NEW i \in ready \ {Listener}, NotifyWrite(i) PROVE HeldInv'
  <2>1. i \in Ids /\ op[i].kind = "write" /\ IsOperation(op[i]) /\ conn' = conn
        BY <1>3 DEF HeldInv, Shape, EveryPollableHeldOnce, NotifyWrite
  <2>2. ASSUME NEW m
        PROVE  LET o == [op[i] EXCEPT !.moved = @ + m] IN IsOperation(o) /\ o # Nothing
        BY <2>1 DEF IsOperation, Nothing, Operation
  <2>3. \/ \E m : Keep(i, [op[i] EXCEPT !.moved = @ + m])
        \/ Replace(i, AfterWrite(Owner(i), op[i].request).next)
        BY <1>3 DEF NotifyWrite, Send, WriteDone
  <2>4. QED
        BY <1>s, <2>1, <2>2, <2>3, CallbackPollable, ReplaceHeld, KeepHeld
<1>4. ASSUME Listener \in ready, NotifyListener PROVE HeldInv'
  <2>1. PICK c \in Conns :
          /\ conn[c] = "backlog" /\ conn' = [conn EXCEPT ![c] = "accepted"]
          /\ op' = [op EXCEPT ![<<c, 1>>] = ReadRequest(c, buffer[c]).next]
          /\ pollables' = pollables \cup {Listener, <<c, 1>>}
          /\ ready' = ready \ {Listener} /\ phase' = phase /\ skipped' = skipped
        BY <1>4 DEF NotifyListener, Processed, Install
  <2>2. <<c, 1>> \in Ids /\ Owner(<<c, 1>>) = c
        BY AsyncAssumption DEF Ids, Owner
  <2>3. op[<<c, 1>>] = Nothing
        BY <2>1, <2>2 DEF HeldInv, NoneBeforeAccept
  <2>4. Shape'
        BY <2>1, <2>2, ReadRequestPollable DEF HeldInv, Shape
  <2>5. NoneBeforeAccept' /\ PassesEnd'
    <3>1. \A i \in Ids : i # <<c, 1>> => op'[i] = op[i]
          BY <2>1, <2>2 DEF HeldInv, Shape
    <3>2. conn'[c] = "accepted" /\ \A d \in Conns : d # c => conn'[d] = conn[d]
          BY <2>1 DEF HeldInv, Shape
    <3>3. \A i \in Ids : Owner(i) \in Conns
          BY DEF Ids, Owner
    <3>4. QED
          BY <1>s, <2>1, <2>2, <3>1, <3>2, <3>3 DEF HeldInv, NoneBeforeAccept, PassesEnd
  <2>6. EveryPollableHeldOnce'
    <3>1. op'[<<c, 1>>] # Nothing /\ \A i \in Ids : i # <<c, 1>> => op'[i] = op[i]
          BY <2>1, <2>2, ReadRequestPollable DEF HeldInv, Shape
    <3>2. <<c, 1>> \notin pollables \cup ready \cup skipped
          BY <2>2, <2>3, ListenerApart DEF HeldInv, EveryPollableHeldOnce
    <3>3. QED
          BY <1>4, <2>1, <2>2, <3>1, <3>2, ListenerApart DEF HeldInv, EveryPollableHeldOnce
  <2>7. QED
        BY <2>4, <2>5, <2>6 DEF HeldInv
<1>5. ASSUME Listener \in ready, AcceptFails PROVE HeldInv'
  <2>1. /\ op' = op /\ conn' = conn /\ pollables' = pollables /\ skipped' = skipped
        /\ ready' = ready \ {Listener} /\ phase' = phase
        BY <1>5 DEF AcceptFails, Processed, connVars
  <2>2. QED
        BY <1>s, <2>1 DEF HeldInv, Shape, NoneBeforeAccept, PassesEnd, EveryPollableHeldOnce
<1>6. QED
    BY <1>1, <1>2, <1>3, <1>4, <1>5 DEF Notify

LEMMA NextHeld == HeldInv /\ [Next]_vars => HeldInv'
<1> SUFFICES ASSUME HeldInv, [Next]_vars PROVE HeldInv'
    OBVIOUS
<1>1. CASE Poll
  <2>1. /\ op' = op /\ conn' = conn /\ pollables' = {} /\ phase' = "serve"
        /\ ready' \subseteq pollables /\ skipped' = pollables \ ready'
        /\ ready = {} /\ skipped = {}
        BY <1>1 DEF Poll, connVars, HeldInv, PassesEnd
  <2>2. QED
        BY <2>1 DEF HeldInv, Shape, NoneBeforeAccept, PassesEnd, EveryPollableHeldOnce
<1>2. CASE Notify
    BY <1>2, NotifyHeld
<1>3. CASE EndPass
  <2> DEFINE expired == {i \in skipped : PastDeadline(i)}
  <2>1. /\ Listener \notin expired /\ expired \subseteq skipped
        /\ op' = [i \in Ids |-> IF i \in expired THEN Nothing ELSE op[i]]
        /\ pollables' = pollables \cup (skipped \ expired)
        /\ ready = {} /\ ready' = {} /\ skipped' = {} /\ conn' = conn
        BY <1>3 DEF EndPass, Install, PastDeadline
  <2> HIDE DEF expired
  <2>2. Shape'
        BY <2>1 DEF HeldInv, Shape, IsOperation, Nothing, Operation
  <2>3. NoneBeforeAccept' /\ PassesEnd'
        BY <2>1 DEF HeldInv, NoneBeforeAccept, PassesEnd
  <2>4. EveryPollableHeldOnce'
        BY <2>1, ListenerApart DEF HeldInv, EveryPollableHeldOnce
  <2>5. QED
        BY <2>2, <2>3, <2>4 DEF HeldInv
<1>4. CASE Exit \/ PollFails \/ Sigpipe
    BY <1>4 DEF Exit, PollFails, Sigpipe, Killed, HeldInv, Shape, NoneBeforeAccept, PassesEnd,
       EveryPollableHeldOnce
<1>5. ASSUME NEW i \in Ids, DeadlinePasses(i) PROVE HeldInv'
  <2>1. /\ op[i] # Nothing /\ op' = [op EXCEPT ![i].late = TRUE]
        /\ UNCHANGED <<phase, pollables, ready, skipped, conn>>
        BY <1>5 DEF DeadlinePasses, connVars
  <2>2. Shape' /\ op'[i] # Nothing
        BY <2>1 DEF HeldInv, Shape, IsOperation, Nothing, Operation
  <2>3. \A j \in Ids : j # i => op'[j] = op[j]
        BY <2>1 DEF HeldInv, Shape
  <2>4. NoneBeforeAccept' /\ PassesEnd' /\ EveryPollableHeldOnce'
        BY <2>1, <2>2, <2>3 DEF HeldInv, NoneBeforeAccept, PassesEnd, EveryPollableHeldOnce
  <2>5. QED
        BY <2>2, <2>4 DEF HeldInv
<1>6. ASSUME NEW c \in Conns, Client(c), UNCHANGED loopVars PROVE HeldInv'
  <2>1. conn' = conn \/ (conn[c] = "away" /\ conn' = [conn EXCEPT ![c] = "backlog"])
        BY <1>6 DEF Client, Connect, SendPiece, SendRequest, Finish, Reset
  <2>2. conn' = [d \in Conns |-> conn'[d]]
        /\ \A d \in Conns : conn[d] = "accepted" => conn'[d] = "accepted"
        BY <2>1 DEF HeldInv, Shape
  <2>3. op' = op /\ \A i \in Ids : Owner(i) \in Conns
        BY <1>6 DEF loopVars, Ids, Owner
  <2>4. Shape' /\ NoneBeforeAccept'
        BY <2>2, <2>3 DEF HeldInv, Shape, NoneBeforeAccept
  <2>5. PassesEnd' /\ EveryPollableHeldOnce'
        BY <1>6 DEF loopVars, HeldInv, PassesEnd, EveryPollableHeldOnce
  <2>6. QED
        BY <2>4, <2>5 DEF HeldInv
<1>7. CASE UNCHANGED vars
    BY <1>7 DEF vars, loopVars, connVars, HeldInv, Shape, NoneBeforeAccept, PassesEnd,
       EveryPollableHeldOnce
<1>8. QED
    BY <1>1, <1>2, <1>3, <1>4, <1>5, <1>6, <1>7 DEF Next, LoopStep

LEMMA HeldInvariance == Spec => []HeldInv
<1>1. Init => HeldInv
    BY InitHeld
<1>2. HeldInv /\ [Next]_vars => HeldInv'
    BY NextHeld
<1>3. QED
    BY <1>1, <1>2, PTL DEF Spec

\* However many connections there are and whatever fails, each pass of loop()
\* carries every pollable over, once (async_event_loop.cpp:46-100).
THEOREM PollablesHeldOnce == Spec => []EveryPollableHeldOnce
<1>1. HeldInv => EveryPollableHeldOnce
    BY DEF HeldInv
<1>2. QED
    BY <1>1, HeldInvariance, PTL

-----------------------------------------------------------------------------
(* ListenerStays, while accept() succeeds.                                 *)

ListenerInv == ListenerStays /\ PassesEnd

LEMMA NextListener ==
  ASSUME "accept" \notin Faults, ListenerInv, HeldInv, [Next]_vars
  PROVE  ListenerInv'
<1> USE DEF ListenerInv, ListenerStays, PassesEnd
<1>1. CASE Poll
    BY <1>1 DEF Poll
<1>2. CASE Notify
  <2>1. ASSUME NEW i \in ready \ {Listener}, NEW next,
               Replace(i, next) \/ Keep(i, next) \/ KeepAndAdd(i, next)
        PROVE  ListenerInv'
        BY <1>2, <2>1 DEF Notify, Replace, Keep, KeepAndAdd, Processed
  <2>2. ASSUME NEW i \in ready \ {Listener}, NotifyRead(i) \/ NotifyFile(i) \/ NotifyWrite(i)
        PROVE  \E next : Replace(i, next) \/ Keep(i, next) \/ KeepAndAdd(i, next)
        BY <2>2 DEF NotifyRead, NotifyFile, NotifyWrite, Send, WriteDone
  <2>3. ASSUME NotifyListener PROVE ListenerInv'
        BY <1>2, <2>3 DEF Notify, NotifyListener, Processed
  <2>4. QED
        BY <1>2, <2>1, <2>2, <2>3 DEF Notify, AcceptFails
<1>3. CASE EndPass
    BY <1>3 DEF EndPass, PastDeadline
<1>4. CASE Exit \/ PollFails \/ Sigpipe
    BY <1>4 DEF Exit, PollFails, Sigpipe, Killed
<1>5. CASE \E i \in Ids : DeadlinePasses(i)
    BY <1>5 DEF DeadlinePasses
<1>6. CASE UNCHANGED loopVars
    BY <1>6 DEF loopVars
<1>7. QED
    BY <1>1, <1>2, <1>3, <1>4, <1>5, <1>6 DEF Next, LoopStep, vars

\* The server goes on accepting as long as accept() never fails
\* (async_listener.cpp:105-107): no timeout and no connection's failure removes
\* the listener from the loop.
THEOREM ListenerRegistered == "accept" \notin Faults => (Spec => []ListenerStays)
<1> SUFFICES ASSUME "accept" \notin Faults PROVE Spec => []ListenerStays
    OBVIOUS
<1>1. Init => ListenerInv
    BY DEF Init, ListenerInv, ListenerStays, PassesEnd
<1>2. HeldInv /\ ListenerInv /\ [Next]_vars => ListenerInv'
    BY NextListener
<1>3. ListenerInv => ListenerStays
    BY DEF ListenerInv
<1>4. QED
    BY <1>1, <1>2, <1>3, HeldInvariance, PTL DEF Spec

-----------------------------------------------------------------------------
(* SingleOperation, while poll() is never wrong about a socket.            *)

\* The operation that was ready when the pass began still is: only it reads from
\* its connection.
ReadyReads ==
  \A i \in ready \ {Listener} : op[i].kind = "read" => Unread(Owner(i))

\* The received bytes and the requests are sequences.
Bytes ==
  /\ inbox \in [Conns -> Seq(Nat)] /\ asked \in [Conns -> Seq(Requests)]
  /\ peer \in [Conns -> {"open", "fin", "reset"}]

SingleInv == SingleOperation /\ ReadyReads /\ Bytes

\* What a client does leaves a connection that has something to read so.
LEMMA ClientBytes ==
  ASSUME Bytes, NEW c \in Conns, Client(c)
  PROVE  Bytes' /\ \A d \in Conns : Unread(d) => Unread(d)'
<1>a. ASSUME NEW s \in Seq(Nat), NEW n \in Nat
      PROVE  Append(s, n) \in Seq(Nat) /\ Append(s, n) # <<>>
  <2>1. Append(s, n) \in Seq(Nat) /\ Len(Append(s, n)) = Len(s) + 1 /\ Len(s) \in Nat
        BY <1>a, SMT
  <2>2. Len(<<>>) = 0
        OBVIOUS
  <2>3. Append(s, n) # <<>>
        BY <2>1, <2>2
  <2>4. QED
        BY <2>1, <2>3
<1>t. inbox[c] \in Seq(Nat) /\ Len(asked[c]) + 1 \in Nat
    BY DEF Bytes
<1> USE DEF Bytes, Unread
<1>1. CASE Connect(c)
    BY <1>1 DEF Connect, clientVars
<1>2. CASE SendPiece(c)
  <2>1. inbox' = [inbox EXCEPT ![c] = Append(inbox[c], 0)] /\ UNCHANGED <<asked, peer>>
        BY <1>2 DEF SendPiece
  <2>2. QED
        BY <1>a, <1>t, <2>1
<1>3. CASE SendRequest(c)
  <2>1. inbox' = [inbox EXCEPT ![c] = Append(inbox[c], Len(asked[c]) + 1)] /\ peer' = peer
        BY <1>3 DEF SendRequest
  <2>2. asked' \in [Conns -> Seq(Requests)]
        BY <1>3 DEF SendRequest
  <2>3. QED
        BY <1>a, <1>t, <2>1, <2>2
<1>4. CASE Finish(c)
    BY <1>4 DEF Finish
<1>5. CASE Reset(c)
    BY <1>5 DEF Reset
<1>6. QED
    BY <1>1, <1>2, <1>3, <1>4, <1>5 DEF Client

\* recv() takes from one connection only.
LEMMA ReceiveBytes ==
  ASSUME Bytes, NEW c \in Conns, NEW m \in 1..Len(inbox[c]), Receive(c, m), UNCHANGED clientVars
  PROVE  Bytes' /\ \A d \in Conns \ {c} : Unread(d) => Unread(d)'
<1>1. SubSeq(inbox[c], m + 1, Len(inbox[c])) \in Seq(Nat)
    BY DEF Bytes
<1>2. QED
    BY <1>1 DEF Bytes, Receive, Unread, clientVars

LEMMA NextSingle ==
  ASSUME "spurious" \notin Faults, HeldInv, SingleInv, [Next]_vars
  PROVE  SingleInv'
<1> USE DEF SingleInv
<1>i. \A i \in Ids : Owner(i) \in Conns
    BY DEF Ids, Owner
<1>r. \A i \in ready \ {Listener} : i \in Ids /\ op[i] # Nothing
    BY DEF HeldInv, EveryPollableHeldOnce
\* An operation takes the place of one of its connection.
<1>p. ASSUME NEW i \in ready \ {Listener}, NEW next, op' = [op EXCEPT ![i] = next],
             ready' = ready \ {i},
             Bytes', \A d \in Conns \ {Owner(i)} : Unread(d) => Unread(d)'
      PROVE  SingleInv'
  <2>1. \A j \in Ids : j # i => op'[j] = op[j]
        BY <1>p, <1>r DEF HeldInv, Shape
  <2>2. SingleOperation'
        BY <2>1, <1>r DEF SingleOperation, Pending, Owner
  <2>3. \A j \in ready \ {Listener, i} : Owner(j) # Owner(i)
        BY <1>r DEF SingleOperation, Pending, Owner, Ids
  <2>4. ReadyReads'
        BY <1>p, <1>i, <1>r, <2>1, <2>3 DEF ReadyReads
  <2>5. QED
        BY <1>p, <2>2, <2>4
<1>1. CASE Poll
  <2>1. /\ op' = op /\ ready' \subseteq pollables /\ UNCHANGED <<inbox, peer, asked>>
        /\ \A i \in ready' : MayHaveEvents(i)
        BY <1>1 DEF Poll, connVars, clientVars
  <2>2. \A i \in ready' \ {Listener} : op[i].kind = "read" => Unread(Owner(i))
        BY <2>1 DEF MayHaveEvents, HasEvents
  <2>3. QED
        BY <2>1, <2>2 DEF SingleOperation, Pending, ReadyReads, Bytes, Unread
<1>2. ASSUME NEW i \in ready \ {Listener}, NotifyRead(i) PROVE SingleInv'
  <2>1. Unread(Owner(i)) /\ Owner(i) \in Conns
        BY <1>2, <1>i, <1>r DEF ReadyReads, NotifyRead
  <2>2. ASSUME NEW m \in 1..Len(inbox[Owner(i)]), NEW next, Receive(Owner(i), m), Replace(i, next)
        PROVE  SingleInv'
    <3>1. Bytes' /\ \A d \in Conns \ {Owner(i)} : Unread(d) => Unread(d)'
          BY <1>2, <2>1, <2>2, ReceiveBytes DEF NotifyRead
    <3>2. QED
          BY <1>p, <2>2, <3>1 DEF Replace, Processed, Install
  <2>3. ASSUME Replace(i, Nothing), UNCHANGED inbox PROVE SingleInv'
    <3>1. Bytes' /\ \A d \in Conns \ {Owner(i)} : Unread(d) => Unread(d)'
          BY <1>2, <2>3 DEF NotifyRead, clientVars, Bytes, Unread
    <3>2. QED
          BY <1>p, <2>3, <3>1 DEF Replace, Processed, Install
  <2>4. QED
        BY <1>2, <2>1, <2>2, <2>3 DEF NotifyRead, Unread
<1>3. ASSUME NEW i \in ready \ {Listener}, NotifyFile(i) \/ NotifyWrite(i) PROVE SingleInv'
  <2>1. UNCHANGED <<inbox, clientVars>>
        BY <1>3 DEF NotifyFile, NotifyWrite
  <2>2. \E next : op' = [op EXCEPT ![i] = next] /\ ready' = ready \ {i}
        BY <1>3 DEF NotifyFile, NotifyWrite, Send, WriteDone, Keep, Replace, Processed, Install
  <2>3. Bytes' /\ \A d \in Conns : Unread(d) => Unread(d)'
        BY <2>1 DEF clientVars, Bytes, Unread
  <2>4. QED
        BY <1>p, <2>2, <2>3
<1>4. CASE NotifyListener
  <2>1. PICK c \in Conns :
          /\ conn[c] = "backlog" /\ op' = [op EXCEPT ![<<c, 1>>] = ReadRequest(c, buffer[c]).next]
          /\ ready' = ready \ {Listener} /\ UNCHANGED <<inbox, clientVars>>
        BY <1>4 DEF NotifyListener, Processed, Install
  <2>2. <<c, 1>> \in Ids /\ \A i \in Ids : i[1] = c => op[i] = Nothing
        BY <2>1, AsyncAssumption DEF Ids, Owner, HeldInv, NoneBeforeAccept
  <2>3. \A j \in Ids : j # <<c, 1>> => op'[j] = op[j]
        BY <2>1, <2>2 DEF HeldInv, Shape
  <2>4. SingleOperation'
        BY <2>2, <2>3 DEF SingleOperation, Pending
  <2>5. <<c, 1>> \notin ready
        BY <1>r, <2>2, ListenerApart
  <2>6. ReadyReads'
        BY <1>r, <2>1, <2>3, <2>5 DEF ReadyReads, Unread, clientVars
  <2>7. QED
        BY <2>1, <2>4, <2>6 DEF Bytes, clientVars
<1>5. CASE AcceptFails
    BY <1>5 DEF AcceptFails, Processed, connVars, clientVars, SingleOperation, Pending, ReadyReads,
       Bytes, Unread
<1>6. CASE EndPass
  <2>1. /\ \A i \in Ids : op'[i] = op[i] \/ op'[i] = Nothing
        /\ ready' = {} /\ UNCHANGED <<inbox, clientVars>>
        BY <1>6 DEF EndPass, Install
  <2>2. QED
        BY <2>1 DEF SingleOperation, Pending, ReadyReads, Bytes, clientVars
<1>7. CASE Exit \/ PollFails \/ Sigpipe
    BY <1>7 DEF Exit, PollFails, Sigpipe, Killed, clientVars, SingleOperation, Pending, ReadyReads,
       Bytes, Unread
<1>8. ASSUME NEW i \in Ids, DeadlinePasses(i) PROVE SingleInv'
  <2>1. /\ op[i] # Nothing /\ op' = [op EXCEPT ![i].late = TRUE] /\ ready' = ready
        /\ UNCHANGED <<inbox, asked, peer>>
        BY <1>8 DEF DeadlinePasses, connVars
  <2>2. /\ \A j \in Ids : j # i => op'[j] = op[j]
        /\ op'[i].kind = op[i].kind
        BY <2>1 DEF HeldInv, Shape, IsOperation
  <2>3. SingleOperation'
        BY <2>1, <2>2 DEF SingleOperation, Pending
  <2>4. ReadyReads'
        BY <1>r, <2>1, <2>2 DEF ReadyReads, Unread
  <2>5. QED
        BY <2>1, <2>3, <2>4 DEF Bytes
<1>9. ASSUME NEW c \in Conns, Client(c), UNCHANGED loopVars PROVE SingleInv'
  <2>1. Bytes' /\ \A d \in Conns : Unread(d) => Unread(d)'
        BY <1>9, ClientBytes
  <2>2. op' = op /\ ready' = ready
        BY <1>9 DEF loopVars
  <2>3. QED
        BY <1>i, <1>r, <2>1, <2>2 DEF SingleOperation, Pending, ReadyReads
<1>10. CASE UNCHANGED vars
    BY <1>10 DEF vars, loopVars, connVars, clientVars, SingleOperation, Pending, ReadyReads, Bytes,
       Unread
<1>11. QED
    BY <1>1, <1>2, <1>3, <1>4, <1>5, <1>6, <1>7, <1>8, <1>9, <1>10
    DEF Next, LoopStep, Notify

\* A connection never has two operations pending (async_connection.cpp:190-214),
\* provided that poll() reports no socket on which recv() then would block: the
\* condition without which make_read_into_buffer registers a second read.
THEOREM OneOperation == "spurious" \notin Faults => (Spec => []SingleOperation)
<1> SUFFICES ASSUME "spurious" \notin Faults PROVE Spec => []SingleOperation
    OBVIOUS
<1>1. Init => SingleInv
    BY DEF Init, ConnectionsInit, SingleInv, SingleOperation, Pending, ReadyReads, Bytes
<1>2. HeldInv /\ SingleInv /\ [Next]_vars => SingleInv'
    BY NextSingle
<1>3. SingleInv => SingleOperation
    BY DEF SingleInv
<1>4. QED
    BY <1>1, <1>2, <1>3, HeldInvariance, PTL DEF Spec

-----------------------------------------------------------------------------
(* The invariant.                                                          *)

Tr(rs) == TranscriptOf(rs, Answer, Size, Final)

\* No request before the k-th, or the k-th, ended the connection.
Serving(rs, k) == ServingOf(rs, k, Final)

\* Exactly the answers to the first k requests have been sent, unless sends fail.
ServedTo(rs, k, out, open) ==
  Serving(rs, k) /\ (open => out = Tr(SubSeq(rs, 1, k)))

\* What an operation of a connection is for, when its client has sent rs, of
\* which k have left the buffer bytes, and out has been sent back.
ReadInOrder(o, rs, k, bytes, out, open) ==
  /\ o.kind = "read"
  /\ \A j \in 1..Len(bytes) : bytes[j] = 0
  /\ ServedTo(rs, k, out, open)

FileInOrder(o, rs, k, out, open) ==
  /\ o.request = k /\ k \in 1..Len(rs) /\ rs[k].form = "valid"
  /\ \/ o.kind = "htaccess" /\ rs[k].rules # "none"
     \/ /\ o.kind = "contents" /\ rs[k].rules \in {"none", "allows"}
        /\ rs[k].file \notin {"absent", "private"}
  /\ o.moved \in 0..FileChunks
  /\ ServedTo(rs, k - 1, out, open)

WriteInOrder(o, rs, k, out, open) ==
  /\ o.kind = "write" /\ o.request = k /\ k \in 1..Len(rs)
  /\ o.status = Answer[rs[k]] /\ o.status \in Statuses
  /\ o.size = Size[o.status] /\ o.moved \in 0..o.size
  /\ Serving(rs, k - 1)
  /\ open => out = Tr(SubSeq(rs, 1, k - 1)) \o PartsOf(k, o.status, o.moved)

InOrder(o, rs, k, bytes, out, open) ==
  \/ ReadInOrder(o, rs, k, bytes, out, open)
  \/ FileInOrder(o, rs, k, out, open)
  \/ WriteInOrder(o, rs, k, out, open)

\* The operation of a connection and the bytes that wait for it.
InOrderAt(o, rs, bytes, rest, out, open) ==
  \E k \in 0..Len(rs) :
    Arrived(bytes \o rest, k, Len(rs)) /\ InOrder(o, rs, k, bytes, out, open)
OperationInOrder(c, i) ==
  InOrderAt(op[i], asked[c], buffer[c], inbox[c], wire[c], peer[c] # "reset")

ConnectionInOrder(c) ==
  /\ IsPrefix(wire[c], Tr(asked[c]))
  /\ conn[c] # "accepted" => NotServed(c)
  /\ \A i \in Pending(c) : OperationInOrder(c, i)

\* Until the process ends, a socket is open while anything may still use it.
OpenInUse(c) ==
  phase # "killed" /\ c \in closed => conn[c] = "accepted" /\ Pending(c) = {}

Outputs ==
  /\ wire \in [Conns -> Seq(AnswerPart(Answer))]
  /\ buffer \in [Conns -> Seq(Nat)]

AnswersInv ==
  Outputs /\ closed \subseteq Conns /\ \A c \in Conns : ConnectionInOrder(c) /\ OpenInUse(c)

-----------------------------------------------------------------------------
(* What a request deserves.                                                *)

\* The transcript of AsyncServer's HttpService is one of TranscriptLemmas.
LEMMA TranscriptIsTr ==
  ASSUME NEW rs
  PROVE  HttpService!Transcript(rs) = Tr(rs)
BY DEF HttpService!Transcript, HttpService!Response, HttpService!FlattenSeq,
       HttpService!SelectInSeq, HttpService!Min, Tr, TranscriptOf, AnswerOf, PartsOf, FlattenSeq,
       SelectInSeq, Min

\* What a request is to the server.
LEMMA RequestIs ==
  ASSUME NEW r \in Requests
  PROVE  /\ r \in RequestType /\ Answer[r] = Deserved(r)
         /\ r \in Final <=> Answer[r] = "none" \/ r.form # "valid" \/ r.close
BY ConnectionsAssumption DEF Answer, Final

\* Deserved, case by case.
LEMMA DeservedIs ==
  ASSUME NEW r \in RequestType
  PROVE  /\ Deserved(r) \in Statuses \cup {"none"}
         /\ r.form \in {"malformed", "nohost"} => Deserved(r) = "400"
         /\ r.form = "throws" => Deserved(r) = "500"
         /\ r.form = "valid" /\ r.rules = "denies" => Deserved(r) = "403"
         /\ r.form = "valid" /\ r.rules \in {"none", "allows"} =>
              /\ r.file = "absent" => Deserved(r) = "404"
              /\ r.file = "private" => Deserved(r) = "403"
              /\ r.file = "regular" => Deserved(r) = "200"
         /\ r.form = "valid" /\ r.rules \notin {"none", "allows", "denies"} => Deserved(r) = "none"
BY DEF Deserved, Statuses, RequestType, Forms

\* Every response has at least one part.
LEMMA SizeIs ==
  /\ \A s \in Statuses : Size[s] \in Nat \ {0}
  /\ Size["200"] = 1 + FileChunks
  /\ Sized(Answer, Size)
<1>1. \A s \in Statuses : Size[s] \in Nat \ {0}
    BY AsyncAssumption DEF Size
<1>2. Size["200"] = 1 + FileChunks
    BY DEF Size, Statuses
<1>3. Sized(Answer, Size)
    BY <1>1, RequestIs, DeservedIs DEF Sized
<1>4. QED
    BY <1>1, <1>2, <1>3

\* Of the transcript: its type, the answer to the next request, the parts sent so
\* far, the parts sent next.
LEMMA TrType ==
  ASSUME NEW rs \in Seq(Requests)
  PROVE  /\ Tr(rs) \in Seq(AnswerPart(Answer))
         /\ \A k \in 0..Len(rs) : /\ SubSeq(rs, 1, k) \in Seq(Requests)
                                  /\ Tr(SubSeq(rs, 1, k)) \in Seq(AnswerPart(Answer))
                                  /\ IsPrefix(Tr(SubSeq(rs, 1, k)), Tr(rs))
BY SizeIs, TrTypeOf DEF Tr

\* The answer to the next request.
LEMMA NextAnswer ==
  ASSUME NEW rs \in Seq(Requests), NEW n \in 1..Len(rs), Serving(rs, n - 1)
  PROVE  /\ Tr(SubSeq(rs, 1, n)) =
               IF Answer[rs[n]] = "none" THEN Tr(SubSeq(rs, 1, n - 1))
               ELSE Tr(SubSeq(rs, 1, n - 1)) \o PartsOf(n, Answer[rs[n]], Size[Answer[rs[n]]])
         /\ Tr(SubSeq(rs, 1, n)) \in Seq(AnswerPart(Answer))
         /\ Tr(SubSeq(rs, 1, n - 1)) \in Seq(AnswerPart(Answer))
         /\ IsPrefix(Tr(SubSeq(rs, 1, n)), Tr(rs))
BY SizeIs, NextAnswerOf DEF Tr, Serving

\* What has been sent of an answer is sent in order.
LEMMA SentSoFar ==
  ASSUME NEW rs \in Seq(Requests), NEW n \in 1..Len(rs), Serving(rs, n - 1),
         NEW status, status # "none", status = Answer[rs[n]], NEW moved \in 0..Size[status]
  PROVE  IsPrefix(Tr(SubSeq(rs, 1, n - 1)) \o PartsOf(n, status, moved), Tr(rs))
BY SizeIs, SentSoFarOf DEF Tr, Serving

SentTo(rs, n, status, moved, out) == SentToOf(rs, n, status, moved, out, Answer, Size, Final)

\* m more parts of the answer, sent behind the first ones.
LEMMA SendParts ==
  ASSUME NEW rs \in Seq(Requests), NEW n \in 1..Len(rs), Serving(rs, n - 1), NEW out,
         NEW status, status # "none", status = Answer[rs[n]],
         NEW moved \in Nat, NEW m \in Nat, m # 0, SentTo(rs, n, status, moved, out),
         NEW parts, parts = Parts(n, status, moved + 1, moved + m), NEW to, to = moved + m
  PROVE  /\ SentTo(rs, n, status, to, out \o parts)
         /\ out \o parts \in Seq(AnswerPart(Answer))
         /\ Len(out \o parts) > Len(out)
BY SizeIs, SendPartsOf DEF SentTo, Serving

-----------------------------------------------------------------------------
(* What the callbacks return.                                              *)

\* A response begins when the answers before it have been sent.
LEMMA WriteStarts ==
  ASSUME NEW rs \in Seq(Requests), NEW n \in 1..Len(rs), NEW out, NEW open, NEW bytes,
         ServedTo(rs, n - 1, out, open), Answer[rs[n]] \in Statuses
  PROVE  InOrder(Write(n, Answer[rs[n]]), rs, n, bytes, out, open)
<1>1. PICK status \in Statuses : status = Answer[rs[n]]
    OBVIOUS
<1>2. PICK w : w = Write(n, status)
    OBVIOUS
<1>3. /\ w.kind = "write" /\ w.request = n /\ w.status = status
      /\ w.size = Size[status] /\ w.moved = 0
    BY <1>2 DEF Write, Operation
<1>4. 0 \in 0..Size[status]
    BY SizeIs
<1>5. PICK t \in Seq(AnswerPart(Answer)) : t = Tr(SubSeq(rs, 1, n - 1))
    BY TrType
<1>6. t \o PartsOf(n, status, 0) = t
  <2>1. PartsOf(n, status, 0) = <<>>
        BY DEF PartsOf
  <2>2. QED
        BY <2>1, ConcatEmptySeq
<1>7. WriteInOrder(w, rs, n, out, open)
    BY <1>1, <1>3, <1>4, <1>5, <1>6 DEF WriteInOrder, ServedTo
<1>8. QED
    BY <1>1, <1>2, <1>7 DEF InOrder

\* The file handler answers the request or reads the file it asks for.
LEMMA ServeFileInOrder ==
  ASSUME NEW c \in Conns, asked[c] \in Seq(Requests), NEW n \in 1..Len(asked[c]),
         NEW out, NEW open, NEW bytes, ServedTo(asked[c], n - 1, out, open),
         asked[c][n].form = "valid", asked[c][n].rules \in {"none", "allows"}
  PROVE  InOrder(ServeFile(c, n), asked[c], n, bytes, out, open)
<1>1. PICK r \in Requests : r = asked[c][n]
    OBVIOUS
<1>2. r \in RequestType /\ Answer[r] = Deserved(r)
    BY RequestIs
<1>3. CASE r.file = "absent"
  <2>1. ServeFile(c, n) = Write(n, "404") /\ Answer[r] = "404" /\ "404" \in Statuses
        BY <1>1, <1>2, <1>3, DeservedIs DEF ServeFile, Statuses
  <2>2. QED
        BY <1>1, <2>1, WriteStarts
<1>4. CASE r.file = "private"
  <2>1. ServeFile(c, n) = Write(n, "403") /\ Answer[r] = "403" /\ "403" \in Statuses
        BY <1>1, <1>2, <1>4, DeservedIs DEF ServeFile, Statuses
  <2>2. QED
        BY <1>1, <2>1, WriteStarts
<1>5. CASE r.file \notin {"absent", "private"}
  <2>1. PICK o : o = FileRead("contents", n)
        OBVIOUS
  <2>2. ServeFile(c, n) = o
        BY <1>1, <1>5, <2>1 DEF ServeFile
  <2>3. o.kind = "contents" /\ o.request = n /\ o.moved = 0
        BY <2>1 DEF FileRead, Operation
  <2>4. FileInOrder(o, asked[c], n, out, open)
        BY <1>1, <1>5, <2>3, AsyncAssumption DEF FileInOrder
  <2>5. QED
        BY <2>2, <2>4 DEF InOrder
<1>6. QED
    BY <1>3, <1>4, <1>5

\* A request that has left the buffer is answered or looked into.
LEMMA HandleInOrder ==
  ASSUME NEW c \in Conns, asked[c] \in Seq(Requests), NEW n \in 1..Len(asked[c]),
         NEW out, NEW open, NEW bytes, ServedTo(asked[c], n - 1, out, open)
  PROVE  InOrder(HandleRequest(c, n), asked[c], n, bytes, out, open)
<1>1. PICK r \in Requests : r = asked[c][n]
    OBVIOUS
<1>2. r \in RequestType /\ Answer[r] = Deserved(r) /\ r.form \in Forms
    BY RequestIs DEF RequestType
<1>3. CASE r.form \in {"malformed", "nohost"}
  <2>1. HandleRequest(c, n) = Write(n, "400") /\ Answer[r] = "400" /\ "400" \in Statuses
        BY <1>1, <1>2, <1>3, DeservedIs DEF HandleRequest, Statuses
  <2>2. QED
        BY <1>1, <2>1, WriteStarts
<1>4. CASE r.form = "throws"
  <2>1. HandleRequest(c, n) = Write(n, "500") /\ Answer[r] = "500" /\ "500" \in Statuses
        BY <1>1, <1>2, <1>4, DeservedIs DEF HandleRequest, Statuses
  <2>2. QED
        BY <1>1, <2>1, WriteStarts
<1>5. CASE r.form = "valid"
  <2>1. HandleRequest(c, n) = AllowRequest(c, n)
        BY <1>1, <1>5 DEF HandleRequest
  <2>2. CASE r.rules = "none"
    <3>1. AllowRequest(c, n) = ServeFile(c, n)
          BY <1>1, <2>2 DEF AllowRequest
    <3>2. QED
          BY <1>1, <1>5, <2>1, <2>2, <3>1, ServeFileInOrder
  <2>3. CASE r.rules # "none"
    <3>1. PICK o : o = FileRead("htaccess", n)
          OBVIOUS
    <3>2. HandleRequest(c, n) = o
          BY <1>1, <2>1, <2>3, <3>1 DEF AllowRequest
    <3>3. o.kind = "htaccess" /\ o.request = n /\ o.moved = 0
          BY <3>1 DEF FileRead, Operation
    <3>4. FileInOrder(o, asked[c], n, out, open)
          BY <1>1, <1>5, <2>3, <3>3, AsyncAssumption DEF FileInOrder
    <3>5. QED
          BY <3>2, <3>4 DEF InOrder
  <2>4. QED
        BY <2>2, <2>3
<1>6. QED
    BY <1>2, <1>3, <1>4, <1>5 DEF Forms

-----------------------------------------------------------------------------
(* The client's bytes.                                                     *)

\* What read_until returns: a read, or the first complete request.
LEMMA ReadRequestInOrder ==
  ASSUME NEW c \in Conns, asked[c] \in Seq(Requests), NEW bytes \in Seq(Nat), NEW rest \in Seq(Nat),
         NEW k, Arrived(bytes \o rest, k, Len(asked[c])), NEW out, NEW open,
         ServedTo(asked[c], k, out, open)
  PROVE  /\ ReadRequest(c, bytes).left \in Seq(Nat)
         /\ InOrderAt(ReadRequest(c, bytes).next, asked[c], ReadRequest(c, bytes).left, rest,
                      out, open)
<1>1. PICK rs \in Seq(Requests) : rs = asked[c]
    OBVIOUS
<1>2. Len(rs) \in Nat /\ k \in 0..Len(rs)
    BY <1>1 DEF Arrived
<1>3. PICK r : r = ReadRequest(c, bytes)
    OBVIOUS
<1>4. CASE FirstEnd(bytes) = 0
  <2>1. r.next = Read /\ r.left = bytes
        BY <1>3, <1>4 DEF ReadRequest
  <2>2. \A j \in 1..Len(bytes) : bytes[j] = 0
        BY <1>4, FirstEndIs
  <2>3. InOrder(r.next, rs, k, r.left, out, open)
        BY <1>1, <2>1, <2>2 DEF InOrder, ReadInOrder, Read, Operation
  <2>4. QED
        BY <1>1, <1>2, <1>3, <2>1, <2>3 DEF InOrderAt
<1>5. CASE FirstEnd(bytes) # 0
  <2>1. /\ bytes[FirstEnd(bytes)] = k + 1 /\ k + 1 \in 1..Len(rs)
        /\ After(bytes, FirstEnd(bytes)) \in Seq(Nat)
        /\ Arrived(After(bytes, FirstEnd(bytes)) \o rest, k + 1, Len(rs))
        BY <1>1, <1>2, <1>5, FirstRequest
  <2>2. PICK n \in 1..Len(rs) : n = k + 1 /\ n - 1 = k /\ n \in 0..Len(rs)
        BY <1>2, <2>1
  <2>3. r.next = HandleRequest(c, n) /\ r.left = After(bytes, FirstEnd(bytes))
        BY <1>3, <1>5, <2>1, <2>2 DEF ReadRequest
  <2>4. InOrder(HandleRequest(c, n), rs, n, r.left, out, open)
        BY <1>1, <2>2, HandleInOrder
  <2>5. Arrived(r.left \o rest, n, Len(rs))
        BY <2>1, <2>2, <2>3
  <2>6. InOrderAt(r.next, rs, r.left, rest, out, open)
        BY <2>2, <2>3, <2>4, <2>5 DEF InOrderAt
  <2>7. QED
        BY <1>1, <1>3, <2>1, <2>3, <2>6
<1>6. QED
    BY <1>4, <1>5

-----------------------------------------------------------------------------
(* What the callbacks of a file and of a response return.                  *)

\* The last request a connection serves, when everything due has been sent.
EndsAt(rs, out, open) ==
  \E n \in 1..Len(rs) : rs[n] \in Final /\ (open => out = Tr(SubSeq(rs, 1, n)))

\* A request that gets no answer, or whose answer ends the connection, is Final;
\* the server goes on after every other.
LEMMA AfterWriteInOrder ==
  ASSUME NEW c \in Conns, asked[c] \in Seq(Requests), buffer[c] \in Seq(Nat), NEW rest \in Seq(Nat),
         NEW n \in 1..Len(asked[c]), Arrived(buffer[c] \o rest, n, Len(asked[c])),
         NEW out, NEW open,
         Serving(asked[c], n - 1), Answer[asked[c][n]] \in Statuses,
         open => out = Tr(SubSeq(asked[c], 1, n))
  PROVE  /\ AfterWrite(c, n).left \in Seq(Nat)
         /\ \/ AfterWrite(c, n).next = Nothing /\ EndsAt(asked[c], out, open)
            \/ InOrderAt(AfterWrite(c, n).next, asked[c], AfterWrite(c, n).left, rest, out, open)
<1>1. PICK rs \in Seq(Requests) : rs = asked[c]
    OBVIOUS
<1>2. PICK r \in Requests : r = rs[n]
    BY <1>1
<1>3. CASE r.form # "valid" \/ r.close
  <2>1. AfterWrite(c, n) = [next |-> Nothing, left |-> buffer[c]]
        BY <1>1, <1>2, <1>3 DEF AfterWrite
  <2>2. rs[n] \in Final
        BY <1>2, <1>3, RequestIs
  <2>3. EndsAt(rs, out, open)
        BY <1>1, <2>2 DEF EndsAt
  <2>4. QED
        BY <1>1, <2>1, <2>3
<1>4. CASE ~(r.form # "valid" \/ r.close)
  <2>1. AfterWrite(c, n) = ReadRequest(c, buffer[c])
        BY <1>1, <1>2, <1>4 DEF AfterWrite
  <2>2. rs[n] \notin Final
        BY <1>1, <1>2, <1>4, RequestIs DEF Statuses
  <2>3. Serving(rs, n)
        BY <1>1, <2>2 DEF Serving, ServingOf
  <2>4. ServedTo(rs, n, out, open)
        BY <1>1, <2>3 DEF ServedTo
  <2>5. QED
        BY <1>1, <2>1, <2>4, ReadRequestInOrder
<1>5. QED
    BY <1>3, <1>4

\* When a file has been read, its request is answered, or the next file is read,
\* or the rules could not be parsed.
LEMMA FileCallbackInOrder ==
  ASSUME NEW i, NEW c \in Conns, c = Owner(i), asked[c] \in Seq(Requests), NEW k, NEW out, NEW open,
         NEW bytes, FileInOrder(op[i], asked[c], k, out, open), FileOf(i) = "regular",
         ~(op[i].moved < FileChunks)
  PROVE  \/ FileCallback(i) = Nothing /\ EndsAt(asked[c], out, open)
         \/ InOrder(FileCallback(i), asked[c], k, bytes, out, open)
<1>1. PICK rs \in Seq(Requests) : rs = asked[c]
    OBVIOUS
<1>2. k \in 1..Len(rs) /\ op[i].request = k /\ rs[k] \in Requests
    BY <1>1 DEF FileInOrder
<1>3. PICK r \in Requests : r = rs[k]
    BY <1>2
<1>4. r \in RequestType /\ Answer[r] = Deserved(r) /\ (Answer[r] = "none" => r \in Final)
    BY RequestIs
<1>5. r.form = "valid" /\ ServedTo(rs, k - 1, out, open) /\ op[i].moved = FileChunks
    BY <1>1, <1>3, AsyncAssumption DEF FileInOrder
<1>6. CASE op[i].kind = "contents"
  <2>1. r.file = "regular" /\ r.rules \in {"none", "allows"}
        BY <1>1, <1>2, <1>3, <1>6 DEF FileOf, FileInOrder
  <2>2. Answer[r] = "200" /\ "200" \in Statuses
        BY <1>4, <1>5, <2>1, DeservedIs DEF Statuses
  <2>3. FileCallback(i) = Write(k, "200")
        BY <1>2, <1>5, <1>6, SizeIs DEF FileCallback, Write, Operation
  <2>4. QED
        BY <1>1, <1>2, <1>3, <1>5, <2>2, <2>3, WriteStarts
<1>7. CASE op[i].kind = "htaccess"
  <2>1. r.rules \in {"allows", "denies", "invalid"}
        BY <1>1, <1>2, <1>3, <1>4, <1>7 DEF FileOf, FileInOrder, RequestType, Rules
  <2>2. CASE r.rules = "allows"
    <3>1. FileCallback(i) = ServeFile(c, k)
          BY <1>1, <1>2, <1>3, <1>7, <2>2 DEF FileCallback
    <3>2. QED
          BY <1>1, <1>2, <1>3, <1>5, <2>2, <3>1, ServeFileInOrder
  <2>3. CASE r.rules = "denies"
    <3>1. FileCallback(i) = Write(k, "403")
          BY <1>1, <1>2, <1>3, <1>7, <2>3 DEF FileCallback
    <3>2. Answer[r] = "403" /\ "403" \in Statuses
          BY <1>4, <1>5, <2>3, DeservedIs DEF Statuses
    <3>3. QED
          BY <1>1, <1>2, <1>3, <1>5, <3>1, <3>2, WriteStarts
  <2>4. CASE r.rules = "invalid"
    <3>1. FileCallback(i) = Nothing
          BY <1>1, <1>2, <1>3, <1>7, <2>4 DEF FileCallback
    <3>2. Answer[r] = "none"
          BY <1>4, <1>5, <2>4, DeservedIs
    <3>3. Tr(SubSeq(rs, 1, k)) = Tr(SubSeq(rs, 1, k - 1))
          BY <1>2, <1>3, <1>5, <3>2, NextAnswer DEF ServedTo
    <3>4. EndsAt(rs, out, open)
          BY <1>2, <1>3, <1>4, <1>5, <3>2, <3>3 DEF EndsAt, ServedTo
    <3>5. QED
          BY <1>1, <3>1, <3>4
  <2>5. QED
        BY <2>1, <2>2, <2>3, <2>4
<1>8. QED
    BY <1>6, <1>7 DEF FileInOrder

-----------------------------------------------------------------------------
(* What clients send and recv() returns.                                   *)

\* A further request changes nothing for those before it.
LEMMA InOrderMore ==
  ASSUME NEW rs \in Seq(Requests), NEW more \in Seq(Requests), OneMore(more, rs),
         NEW k \in 0..Len(rs), NEW o, NEW bytes, NEW out, NEW open,
         InOrder(o, rs, k, bytes, out, open)
  PROVE  InOrder(o, more, k, bytes, out, open)
<1>1. Len(rs) \in Nat /\ Len(more) = Len(rs) + 1 /\ \A n \in 1..Len(rs) : more[n] = rs[n]
    BY DEF OneMore
<1>2. ASSUME NEW j \in 0..Len(rs)
      PROVE  SubSeq(more, 1, j) = SubSeq(rs, 1, j) /\ (Serving(rs, j) => Serving(more, j))
  <2>1. /\ SubSeq(more, 1, j) \in Seq(Requests) /\ SubSeq(rs, 1, j) \in Seq(Requests)
        /\ Len(SubSeq(more, 1, j)) = j /\ Len(SubSeq(rs, 1, j)) = j
        /\ \A n \in 1..j : SubSeq(more, 1, j)[n] = more[n] /\ SubSeq(rs, 1, j)[n] = rs[n]
        BY <1>1
  <2>2. \A n \in 1..j : n \in 1..Len(rs)
        BY <1>1
  <2>3. SubSeq(more, 1, j) = SubSeq(rs, 1, j)
        BY <1>1, <2>1, <2>2, SeqEqual
  <2>4. QED
        BY <1>1, <2>2, <2>3 DEF Serving, ServingOf
<1>3. ASSUME NEW j \in 0..Len(rs), ServedTo(rs, j, out, open) PROVE ServedTo(more, j, out, open)
    BY <1>2, <1>3 DEF ServedTo
<1>4. CASE ReadInOrder(o, rs, k, bytes, out, open)
    BY <1>3, <1>4 DEF ReadInOrder, InOrder
<1>5. CASE FileInOrder(o, rs, k, out, open)
  <2>1. k \in 1..Len(rs) /\ k - 1 \in 0..Len(rs) /\ k \in 1..Len(more)
        BY <1>1, <1>5 DEF FileInOrder
  <2>2. more[k] = rs[k] /\ ServedTo(more, k - 1, out, open)
        BY <1>1, <1>3, <1>5, <2>1 DEF FileInOrder
  <2>3. FileInOrder(o, more, k, out, open)
        BY <1>5, <2>1, <2>2 DEF FileInOrder
  <2>4. QED
        BY <2>3 DEF InOrder
<1>6. CASE WriteInOrder(o, rs, k, out, open)
  <2>1. k \in 1..Len(rs) /\ k - 1 \in 0..Len(rs) /\ k \in 1..Len(more)
        BY <1>1, <1>6 DEF WriteInOrder
  <2>2. more[k] = rs[k] /\ Serving(more, k - 1) /\ SubSeq(more, 1, k - 1) = SubSeq(rs, 1, k - 1)
        BY <1>1, <1>2, <1>6, <2>1 DEF WriteInOrder
  <2>3. WriteInOrder(o, more, k, out, open)
        BY <1>6, <2>1, <2>2 DEF WriteInOrder
  <2>4. QED
        BY <2>3 DEF InOrder
<1>7. QED
    BY <1>4, <1>5, <1>6 DEF InOrder

\* Nor do a reset of the connection, and the passing of the deadline.
LEMMA InOrderStill ==
  ASSUME NEW o, NEW rs, NEW k, NEW bytes, NEW out, NEW open, InOrder(o, rs, k, bytes, out, open),
         NEW now, now => open, NEW p, p.kind = o.kind, p.request = o.request, p.status = o.status,
         p.size = o.size, p.moved = o.moved
  PROVE  InOrder(p, rs, k, bytes, out, now)
BY DEF InOrder, ReadInOrder, FileInOrder, WriteInOrder, ServedTo

-----------------------------------------------------------------------------
(* The steps of the server and its clients.                                *)

\* A step of the pollable i: only its connection changes, whose operation
\* becomes next.
StepOf(i, next) ==
  /\ op' = [op EXCEPT ![i] = next]
  /\ UNCHANGED <<conn, asked, peer>>
  /\ \A c \in Conns : c # Owner(i) =>
       buffer'[c] = buffer[c] /\ inbox'[c] = inbox[c] /\ wire'[c] = wire[c]

Untouched(c) ==
  /\ conn'[c] = conn[c] /\ asked'[c] = asked[c] /\ peer'[c] = peer[c]
  /\ buffer'[c] = buffer[c] /\ inbox'[c] = inbox[c] /\ wire'[c] = wire[c]
  /\ \A i \in Ids : Owner(i) = c => op'[i] = op[i]

\* A step that leaves a connection and its operation alone keeps it in order.
LEMMA UntouchedInOrder ==
  ASSUME NEW c, ConnectionInOrder(c), Untouched(c)
  PROVE  ConnectionInOrder(c)'
<1>1. Pending(c)' = Pending(c)
    BY DEF Untouched, Pending, Owner
<1>2. \A i \in Pending(c) : op'[i] = op[i]
    BY DEF Untouched, Pending, Owner
<1>3. QED
    BY <1>1, <1>2 DEF Untouched, ConnectionInOrder, NotServed, OperationInOrder

\* A step of one pollable keeps every connection in order if it does its own.
LEMMA StepInOrder ==
  ASSUME HeldInv, SingleInv, AnswersInv, NEW i \in Ids, op[i] # Nothing, NEW next, StepOf(i, next),
         IsPrefix(wire'[Owner(i)], Tr(asked[Owner(i)])),
         \/ next = Nothing
         \/ InOrderAt(next, asked[Owner(i)], buffer'[Owner(i)], inbox'[Owner(i)],
                      wire'[Owner(i)], peer[Owner(i)] # "reset")
  PROVE  \A c \in Conns : ConnectionInOrder(c)'
<1>1. Owner(i) \in Conns /\ conn[Owner(i)] = "accepted"
    BY DEF Ids, Owner, HeldInv, NoneBeforeAccept
<1>2. op'[i] = next /\ \A j \in Ids : j # i => op'[j] = op[j]
    BY DEF StepOf, HeldInv, Shape
<1>3. ASSUME NEW c \in Conns, c # Owner(i) PROVE ConnectionInOrder(c)'
  <2>1. Untouched(c)
        BY <1>2, <1>3 DEF StepOf, Untouched
  <2>2. QED
        BY <2>1, UntouchedInOrder DEF AnswersInv
<1>4. ConnectionInOrder(Owner(i))'
  <2>1. \A j \in Pending(Owner(i))' : j = i
        BY <1>1, <1>2 DEF SingleInv, SingleOperation, Pending, Owner
  <2>2. i \in Pending(Owner(i))' => next # Nothing
        BY <1>2 DEF Pending
  <2>3. next # Nothing => OperationInOrder(Owner(i), i)'
        BY <1>2 DEF OperationInOrder, StepOf
  <2>4. QED
        BY <1>1, <2>1, <2>2, <2>3 DEF ConnectionInOrder, StepOf
<1>5. QED
    BY <1>3, <1>4

\* What notifying the pollable i does: its connection goes on in order, or the
\* pollable ends for a reason that closes the connection.
NotifiedInOrder(i) ==
  LET c == Owner(i) IN
  \E next :
    /\ StepOf(i, next) /\ Install([op EXCEPT ![i] = next]) /\ Outputs'
    /\ IsPrefix(wire'[c], Tr(asked[c]))
    /\ wire' = wire \/ Len(wire'[c]) > Len(wire[c])
    /\ \/ next = Nothing /\ MayClose(c)
       \/ InOrderAt(next, asked[c], buffer'[c], inbox'[c], wire'[c], peer[c] # "reset")

\* A connection may close when the answers due have been sent.
LEMMA EndsMayClose ==
  ASSUME NEW c \in Conns, EndsAt(asked[c], wire'[c], peer[c] # "reset"), asked[c] \in Seq(Requests)
  PROVE  MayClose(c)
<1>1. PICK n \in 1..Len(asked[c]) :
        asked[c][n] \in Final /\ (peer[c] # "reset" => wire'[c] = Tr(SubSeq(asked[c], 1, n)))
    BY DEF EndsAt
<1>2. n \in DOMAIN asked[c]
    OBVIOUS
<1>3. QED
    BY <1>1, <1>2, TranscriptIsTr DEF MayClose

\* What the invariants say of the connection of a pollable that is notified.
LEMMA ReadyInOrder ==
  ASSUME HeldInv, SingleInv, AnswersInv, NEW i \in ready \ {Listener}
  PROVE  /\ i \in Ids /\ op[i] # Nothing /\ Owner(i) \in Conns
         /\ inbox[Owner(i)] \in Seq(Nat) /\ buffer[Owner(i)] \in Seq(Nat)
         /\ asked[Owner(i)] \in Seq(Requests)
         /\ wire[Owner(i)] \in Seq(AnswerPart(Answer))
         /\ IsPrefix(wire[Owner(i)], Tr(asked[Owner(i)]))
         /\ OperationInOrder(Owner(i), i)
<1>1. i \in Ids /\ op[i] # Nothing
    BY DEF HeldInv, EveryPollableHeldOnce
<1>2. Owner(i) \in Conns /\ i \in Pending(Owner(i))
    BY <1>1 DEF Ids, Owner, Pending
<1>3. QED
    BY <1>1, <1>2 DEF SingleInv, Bytes, AnswersInv, Outputs, ConnectionInOrder

\* A read that is notified continues with what it has read.
LEMMA NotifyReadInOrder ==
  ASSUME HeldInv, SingleInv, AnswersInv, NEW i \in ready \ {Listener}, NotifyRead(i)
  PROVE  NotifiedInOrder(i)
<1>1. PICK c \in Conns : c = Owner(i)
    BY ReadyInOrder
<1>2. /\ inbox[c] \in Seq(Nat) /\ buffer[c] \in Seq(Nat) /\ asked[c] \in Seq(Requests)
      /\ IsPrefix(wire[c], Tr(asked[c])) /\ OperationInOrder(c, i)
    BY <1>1, ReadyInOrder
<1>3. PICK k \in 0..Len(asked[c]) :
        /\ Arrived(buffer[c] \o inbox[c], k, Len(asked[c]))
        /\ InOrder(op[i], asked[c], k, buffer[c], wire[c], peer[c] # "reset")
    BY <1>2 DEF OperationInOrder, InOrderAt
<1>4. op[i].kind = "read" /\ UNCHANGED <<conn, asked, peer, wire>>
    BY DEF NotifyRead, clientVars
<1>5. /\ \A j \in 1..Len(buffer[c]) : buffer[c][j] = 0
      /\ ServedTo(asked[c], k, wire[c], peer[c] # "reset")
    BY <1>3, <1>4 DEF InOrder, ReadInOrder, FileInOrder, WriteInOrder
<1>6. Unread(c)
    BY <1>1, <1>4 DEF SingleInv, ReadyReads
<1>7. ASSUME NEW m \in 1..Len(inbox[c]), Receive(c, m),
             NEW request, request = ReadRequest(c, buffer[c] \o Received(c, m)),
             buffer' = [buffer EXCEPT ![c] = request.left], Replace(i, request.next)
      PROVE  NotifiedInOrder(i)
  <2>1. PICK bytes \in Seq(Nat), rest \in Seq(Nat) :
          /\ bytes = buffer[c] \o Received(c, m)
          /\ rest = SubSeq(inbox[c], m + 1, Len(inbox[c]))
          /\ bytes \o rest = buffer[c] \o inbox[c]
    <3>1. m \in 0..Len(inbox[c])
          OBVIOUS
    <3>2. QED
          BY <1>2, <3>1, ReceivedBytes DEF Received
  <2>2. Arrived(bytes \o rest, k, Len(asked[c]))
        BY <1>3, <2>1
  <2>3. /\ request.left \in Seq(Nat)
        /\ InOrderAt(request.next, asked[c], request.left, rest, wire[c], peer[c] # "reset")
        BY <1>2, <1>5, <1>7, <2>1, <2>2, ReadRequestInOrder
  <2>4. inbox' = [inbox EXCEPT ![c] = rest]
        BY <1>7, <2>1 DEF Receive
  <2>5. Outputs' /\ inbox'[c] = rest /\ buffer'[c] = request.left
        BY <1>4, <1>7, <2>3, <2>4 DEF AnswersInv, Outputs, SingleInv, Bytes
  <2>6. StepOf(i, request.next) /\ Install([op EXCEPT ![i] = request.next])
        BY <1>1, <1>4, <1>7, <2>4 DEF StepOf, Replace, Install
  <2>7. QED
        BY <1>1, <1>2, <1>4, <2>3, <2>5, <2>6 DEF NotifiedInOrder
<1>8. ASSUME AtEnd(c), Replace(i, Nothing), UNCHANGED <<inbox, buffer>> PROVE NotifiedInOrder(i)
  <2>1. FirstEnd(buffer[c]) = 0
        BY <1>2, <1>5, FirstEndIs
  <2>2. MayClose(c)
        BY <1>8, <2>1 DEF AtEnd, MayClose
  <2>3. StepOf(i, Nothing) /\ Install([op EXCEPT ![i] = Nothing])
        BY <1>4, <1>8 DEF StepOf, Replace, Install
  <2>4. Outputs'
        BY <1>4, <1>8 DEF AnswersInv, Outputs
  <2>5. QED
        BY <1>1, <1>2, <1>4, <2>2, <2>3, <2>4 DEF NotifiedInOrder
<1>9. QED
    BY <1>1, <1>6, <1>7, <1>8 DEF NotifyRead, Unread

\* A file operation that is notified continues in order.
LEMMA NotifyFileInOrder ==
  ASSUME HeldInv, SingleInv, AnswersInv, NEW i \in ready \ {Listener}, NotifyFile(i)
  PROVE  NotifiedInOrder(i)
<1>1. PICK c \in Conns : c = Owner(i)
    BY ReadyInOrder
<1>2. /\ i \in Ids /\ asked[c] \in Seq(Requests)
      /\ IsPrefix(wire[c], Tr(asked[c])) /\ OperationInOrder(c, i)
    BY <1>1, ReadyInOrder
<1>3. PICK k \in 0..Len(asked[c]) :
        /\ Arrived(buffer[c] \o inbox[c], k, Len(asked[c]))
        /\ InOrder(op[i], asked[c], k, buffer[c], wire[c], peer[c] # "reset")
    BY <1>2 DEF OperationInOrder, InOrderAt
<1>4. /\ op[i].kind \in {"htaccess", "contents"}
      /\ UNCHANGED <<conn, asked, peer, inbox, buffer, wire>> /\ Outputs'
    BY DEF NotifyFile, clientVars, AnswersInv, Outputs
<1>5. FileInOrder(op[i], asked[c], k, wire[c], peer[c] # "reset")
    BY <1>3, <1>4 DEF InOrder, ReadInOrder, WriteInOrder
<1>6. ASSUME NEW updated, Keep(i, updated),
             FileInOrder(updated, asked[c], k, wire[c], peer[c] # "reset")
      PROVE  NotifiedInOrder(i)
  <2>1. StepOf(i, updated) /\ Install([op EXCEPT ![i] = updated])
        BY <1>4, <1>6 DEF StepOf, Keep, Install
  <2>2. InOrderAt(updated, asked[c], buffer'[c], inbox'[c], wire'[c], peer[c] # "reset")
        BY <1>3, <1>4, <1>6 DEF InOrderAt, InOrder
  <2>3. QED
        BY <1>1, <1>2, <1>4, <2>1, <2>2 DEF NotifiedInOrder
<1>7. CASE FileOf(i) = "regular" /\ op[i].moved < FileChunks
  <2>1. PICK o : o = [op[i] EXCEPT !.moved = @ + 1]
        OBVIOUS
  <2>2. /\ o.kind = op[i].kind /\ o.request = op[i].request
        /\ o.moved = op[i].moved + 1
        BY <1>2, <2>1 DEF HeldInv, Shape, IsOperation
  <2>3. o.moved \in 0..FileChunks
        BY <1>5, <1>7, <2>2, AsyncAssumption DEF FileInOrder
  <2>4. FileInOrder(o, asked[c], k, wire[c], peer[c] # "reset")
        BY <1>5, <2>2, <2>3 DEF FileInOrder
  <2>5. QED
        BY <1>6, <1>7, <2>1, <2>4 DEF NotifyFile
<1>8. CASE FileOf(i) = "regular" /\ ~(op[i].moved < FileChunks)
  <2>1. Replace(i, FileCallback(i))
        BY <1>8 DEF NotifyFile
  <2>2. StepOf(i, FileCallback(i)) /\ Install([op EXCEPT ![i] = FileCallback(i)])
        BY <1>4, <2>1 DEF StepOf, Replace, Install
  <2>3. \/ FileCallback(i) = Nothing /\ EndsAt(asked[c], wire[c], peer[c] # "reset")
        \/ InOrder(FileCallback(i), asked[c], k, buffer[c], wire[c], peer[c] # "reset")
        BY <1>1, <1>2, <1>5, <1>8, FileCallbackInOrder
  <2>4. \/ FileCallback(i) = Nothing /\ MayClose(c)
        \/ InOrderAt(FileCallback(i), asked[c], buffer'[c], inbox'[c], wire'[c], peer[c] # "reset")
        BY <1>2, <1>3, <1>4, <2>3, EndsMayClose DEF InOrderAt
  <2>5. QED
        BY <1>1, <1>2, <1>4, <2>2, <2>4 DEF NotifiedInOrder
<1>9. CASE FileOf(i) # "regular"
    BY <1>5, <1>6, <1>9 DEF NotifyFile
<1>10. QED
    BY <1>7, <1>8, <1>9

\* A write that is notified continues the response, or goes on after it.
LEMMA NotifyWriteInOrder ==
  ASSUME "spurious" \notin Faults, "send" \notin Faults, HeldInv, SingleInv, AnswersInv,
         NEW i \in ready \ {Listener}, NotifyWrite(i)
  PROVE  NotifiedInOrder(i)
<1>1. PICK c \in Conns : c = Owner(i)
    BY ReadyInOrder
<1>2. /\ i \in Ids /\ asked[c] \in Seq(Requests) /\ inbox[c] \in Seq(Nat) /\ buffer[c] \in Seq(Nat)
      /\ wire[c] \in Seq(AnswerPart(Answer))
      /\ IsPrefix(wire[c], Tr(asked[c])) /\ OperationInOrder(c, i)
    BY <1>1, ReadyInOrder
<1>3. PICK k \in 0..Len(asked[c]) :
        /\ Arrived(buffer[c] \o inbox[c], k, Len(asked[c]))
        /\ InOrder(op[i], asked[c], k, buffer[c], wire[c], peer[c] # "reset")
    BY <1>2 DEF OperationInOrder, InOrderAt
<1>4. op[i].kind = "write" /\ UNCHANGED <<conn, asked, peer, inbox>>
    BY DEF NotifyWrite, clientVars
<1>5. WriteInOrder(op[i], asked[c], k, wire[c], peer[c] # "reset")
    BY <1>3, <1>4 DEF InOrder, ReadInOrder, FileInOrder
<1>6. PICK status \in Statuses :
        status = op[i].status /\ status = Answer[asked[c][k]] /\ status # "none"
    BY <1>5 DEF WriteInOrder, Statuses
<1>7. /\ k \in 1..Len(asked[c]) /\ op[i].request = k /\ op[i].size = Size[status]
      /\ op[i].moved \in 0..Size[status] /\ Serving(asked[c], k - 1) /\ Size[status] \in Nat
    BY <1>5, <1>6, SizeIs DEF WriteInOrder
\* Everything has been sent, or the connection was reset.
<1>8. ASSUME WriteDone(i), peer[c] # "reset" => wire'[c] = Tr(SubSeq(asked[c], 1, k)),
             \A d \in Conns : d # c => wire'[d] = wire[d],
             wire' \in [Conns -> Seq(AnswerPart(Answer))],
             IsPrefix(wire'[c], Tr(asked[c])), wire' = wire \/ Len(wire'[c]) > Len(wire[c])
      PROVE  NotifiedInOrder(i)
  <2>1. PICK request : request = AfterWrite(c, k)
        OBVIOUS
  <2>2. buffer' = [buffer EXCEPT ![c] = request.left] /\ Replace(i, request.next)
        BY <1>1, <1>7, <1>8, <2>1 DEF WriteDone
  <2>3. /\ request.left \in Seq(Nat)
        /\ \/ request.next = Nothing /\ EndsAt(asked[c], wire'[c], peer[c] # "reset")
           \/ InOrderAt(request.next, asked[c], request.left, inbox[c], wire'[c], peer[c] # "reset")
        BY <1>2, <1>3, <1>6, <1>7, <1>8, <2>1, AfterWriteInOrder
  <2>4. Outputs' /\ buffer'[c] = request.left
        BY <1>8, <2>2, <2>3 DEF AnswersInv, Outputs
  <2>5. StepOf(i, request.next) /\ Install([op EXCEPT ![i] = request.next])
        BY <1>1, <1>4, <1>8, <2>2 DEF StepOf, Replace, Install
  <2>6. \/ request.next = Nothing /\ MayClose(c)
        \/ InOrderAt(request.next, asked[c], buffer'[c], inbox'[c], wire'[c], peer[c] # "reset")
        BY <1>2, <1>4, <2>3, <2>4, EndsMayClose
  <2>7. QED
        BY <1>1, <1>8, <2>4, <2>5, <2>6 DEF NotifiedInOrder
<1>9. CASE peer[c] = "reset"
  <2>1. WriteDone(i) /\ wire' = wire
        BY <1>1, <1>9 DEF NotifyWrite
  <2>2. QED
        BY <1>2, <1>8, <1>9, <2>1 DEF AnswersInv, Outputs
<1>10. CASE peer[c] # "reset"
  <2>1. Send(i)
        BY <1>1, <1>10 DEF NotifyWrite
  <2>2. PICK m \in 1..(Size[status] - op[i].moved) :
          /\ Transmit(c, k, status, op[i].moved + 1, op[i].moved + m)
          /\ IF op[i].moved + m = Size[status] THEN WriteDone(i)
             ELSE Keep(i, [op[i] EXCEPT !.moved = @ + m]) /\ UNCHANGED buffer
        BY <1>1, <1>6, <1>7, <2>1 DEF Send
  <2>3. PICK moved \in Nat : /\ moved = op[i].moved /\ m \in Nat /\ m # 0
                             /\ moved + m \in 0..Size[status]
        BY <1>7
  <2>4. wire[c] = Tr(SubSeq(asked[c], 1, k - 1)) \o PartsOf(k, status, moved)
        BY <1>5, <1>6, <1>10, <2>3 DEF WriteInOrder
  <2>5. PICK out \in Seq(AnswerPart(Answer)) :
          /\ out = wire[c] \o Parts(k, status, moved + 1, moved + m)
          /\ out = Tr(SubSeq(asked[c], 1, k - 1)) \o PartsOf(k, status, moved + m)
          /\ Len(out) > Len(wire[c])
    <3>1. PICK rs, parts, sent :
            /\ rs \in Seq(Requests) /\ rs = asked[c] /\ sent = wire[c]
            /\ parts = Parts(k, status, moved + 1, moved + m)
          BY <1>2
    <3>2. /\ k \in 1..Len(rs) /\ Serving(rs, k - 1) /\ status = Answer[rs[k]] /\ status # "none"
          /\ SentTo(rs, k, status, moved, sent)
          BY <1>6, <1>7, <2>4, <3>1 DEF SentTo, SentToOf, Tr
    <3>3. PICK to : to = moved + m
          OBVIOUS
    <3>4. SentTo(rs, k, status, to, sent \o parts)
          BY <2>3, <3>1, <3>2, <3>3, SendParts
    <3>5. sent \o parts \in Seq(AnswerPart(Answer))
          BY <2>3, <3>1, <3>2, <3>3, SendParts
    <3>6. Len(sent \o parts) > Len(sent)
          BY <2>3, <3>1, <3>2, <3>3, SendParts
    <3>7. sent \o parts = Tr(SubSeq(rs, 1, k - 1)) \o PartsOf(k, status, moved + m)
          BY <3>3, <3>4 DEF SentTo, SentToOf, Tr
    <3>8. QED
          BY <3>1, <3>5, <3>6, <3>7, Zenon
  <2>6. wire' = [wire EXCEPT ![c] = out]
        BY <2>2, <2>3, <2>5 DEF Transmit
  <2>7. /\ wire'[c] = out /\ \A d \in Conns : d # c => wire'[d] = wire[d]
        /\ wire' \in [Conns -> Seq(AnswerPart(Answer))]
        BY <2>6 DEF AnswersInv, Outputs
  <2>8. IsPrefix(out, Tr(asked[c]))
        BY <1>2, <1>6, <1>7, <2>3, <2>5, SentSoFar
  <2>9. CASE moved + m = Size[status]
    <3>1. WriteDone(i)
          BY <2>2, <2>3, <2>9
    <3>2. Answer[asked[c][k]] # "none"
          BY <1>6 DEF Statuses
    <3>3. out = Tr(SubSeq(asked[c], 1, k))
          BY <1>2, <1>6, <1>7, <2>5, <2>9, <3>2, NextAnswer
    <3>4. QED
          BY <1>8, <2>5, <2>7, <2>8, <3>1, <3>3
  <2>10. CASE moved + m # Size[status]
    <3>1. PICK o : o = [op[i] EXCEPT !.moved = @ + m]
          OBVIOUS
    <3>2. Keep(i, o) /\ UNCHANGED buffer
          BY <2>2, <2>3, <2>10, <3>1
    <3>3. /\ o.kind = "write" /\ o.request = k /\ o.status = status
          /\ o.size = Size[status] /\ o.moved = moved + m
          BY <1>2, <1>4, <1>6, <1>7, <2>3, <3>1 DEF HeldInv, Shape, IsOperation
    <3>4. WriteInOrder(o, asked[c], k, out, peer[c] # "reset")
          BY <1>6, <1>7, <2>3, <2>5, <3>3 DEF WriteInOrder
    <3>5. InOrderAt(o, asked[c], buffer'[c], inbox'[c], wire'[c], peer[c] # "reset")
          BY <1>3, <1>4, <2>7, <3>2, <3>4 DEF InOrderAt, InOrder
    <3>6. StepOf(i, o) /\ Install([op EXCEPT ![i] = o])
          BY <1>1, <1>4, <2>7, <3>2 DEF StepOf, Keep, Install
    <3>7. Outputs'
          BY <2>7, <3>2 DEF AnswersInv, Outputs
    <3>8. QED
          BY <1>1, <2>5, <2>7, <2>8, <3>5, <3>6, <3>7 DEF NotifiedInOrder
  <2>11. QED
        BY <2>9, <2>10
<1>11. QED
    BY <1>9, <1>10

-----------------------------------------------------------------------------
(* What every step preserves and implements.                               *)

\* The part of AnswersInv that the closing of sockets can disturb.
LEMMA InstallOpen ==
  ASSUME HeldInv, AnswersInv, phase # "killed", NEW ops, Install(ops), conn' = conn,
         \A i \in Ids : op[i] = Nothing => op'[i] = Nothing
  PROVE  \A c \in Conns : OpenInUse(c)'
<1> SUFFICES ASSUME NEW c \in Conns, c \in closed' PROVE conn'[c] = "accepted" /\ Pending(c)' = {}
    BY DEF OpenInUse
<1>1. op' = ops /\ closed' = closed \cup {d \in Conns : InUse(op, d) /\ ~InUse(op', d)}
    BY DEF Install
<1>2. CASE c \in closed
  <2>1. conn[c] = "accepted" /\ Pending(c) = {}
        BY <1>2 DEF AnswersInv, OpenInUse
  <2>2. \A i \in Ids : i[1] = c => op[i] = Nothing
        BY <2>1 DEF Pending
  <2>3. QED
        BY <2>1, <2>2 DEF Pending
<1>3. CASE c \notin closed
  <2>1. InUse(op, c) /\ ~InUse(op', c)
        BY <1>1, <1>3
  <2>2. conn[c] = "accepted"
        BY <2>1 DEF InUse, HeldInv, NoneBeforeAccept, Owner
  <2>3. QED
        BY <2>1, <2>2 DEF InUse, Pending
<1>4. QED
    BY <1>2, <1>3

Reason == phase' # "killed" => \A c \in closed' \ closed : MayClose(c)
ServiceStep == [HttpService!Next]_(HttpService!vars)

\* Closing connections is a step of HttpService.
LEMMA ClosingImplements ==
  ASSUME NEW C \in SUBSET Conns, closed' = closed \cup C, UNCHANGED <<asked, wire>>
  PROVE  ServiceStep
<1>1. C \ closed \in SUBSET (Conns \ closed) /\ closed' = closed \cup (C \ closed)
    OBVIOUS
<1>2. HttpService!Close
    BY <1>1 DEF HttpService!Close
<1>3. QED
    BY <1>2 DEF ServiceStep, HttpService!Next

\* More of the transcript of one connection, which may then be closed.
LEMMA SendingImplements ==
  ASSUME AnswersInv, Outputs', SingleInv, NEW c \in Conns, c \notin closed, asked' = asked,
         \A d \in Conns : d # c => wire'[d] = wire[d], Len(wire'[c]) > Len(wire[c]),
         IsPrefix(wire'[c], Tr(asked[c])), closed' \in {closed, closed \cup {c}}
  PROVE  ServiceStep
<1>1. PICK due : due = HttpService!Transcript(asked[c]) /\ due = Tr(asked[c])
    BY TranscriptIsTr
<1>2. PICK S : S = AnswerPart(Answer)
    OBVIOUS
<1>3. wire'[c] \in Seq(S) /\ wire[c] \in Seq(S)
    BY <1>2 DEF AnswersInv, Outputs
<1>4. due \in Seq(S)
    BY <1>1, <1>2, TrType DEF SingleInv, Bytes
<1>5. PICK n : n = Len(wire'[c])
    OBVIOUS
<1>6. n \in Nat /\ Len(wire[c]) \in Nat /\ Len(due) \in Nat
    BY <1>3, <1>4, <1>5
<1>7. n <= Len(due) /\ SubSeq(wire'[c], 1, n) = SubSeq(due, 1, n)
    BY <1>1, <1>5 DEF IsPrefix
<1>8. SubSeq(wire'[c], 1, n) = wire'[c]
    BY <1>3, <1>5, SubSeqFull
<1>9. n \in (Len(wire[c]) + 1)..Len(due)
    BY <1>5, <1>6, <1>7
<1>10. wire' = [wire EXCEPT ![c] = SubSeq(due, 1, n)]
    BY <1>7, <1>8 DEF AnswersInv, Outputs
<1>11. HttpService!Deliver(c)
    BY <1>1, <1>9, <1>10 DEF HttpService!Deliver
<1>12. QED
    BY <1>11 DEF ServiceStep, HttpService!Next

\* Notifying a pollable preserves the invariant and implements HttpService.
LEMMA NotifiedPreserves ==
  ASSUME HeldInv, SingleInv, AnswersInv, phase = "serve", NEW i \in ready \ {Listener},
         NotifiedInOrder(i)
  PROVE  AnswersInv' /\ Reason /\ ServiceStep
<1>1. PICK c \in Conns : c = Owner(i)
    BY ReadyInOrder
<1>2. i \in Ids /\ op[i] # Nothing /\ i \in Pending(c)
    BY <1>1, ReadyInOrder DEF Pending, Owner
<1>3. PICK next :
        /\ StepOf(i, next) /\ Install([op EXCEPT ![i] = next]) /\ Outputs'
        /\ IsPrefix(wire'[c], Tr(asked[c]))
        /\ wire' = wire \/ Len(wire'[c]) > Len(wire[c])
        /\ \/ next = Nothing /\ MayClose(c)
           \/ InOrderAt(next, asked[c], buffer'[c], inbox'[c], wire'[c], peer[c] # "reset")
    BY <1>1 DEF NotifiedInOrder
<1>4. op'[i] = next /\ \A j \in Ids : j # i => op'[j] = op[j]
    BY <1>2, <1>3 DEF StepOf, HeldInv, Shape
<1>5. conn' = conn /\ asked' = asked /\ \A d \in Conns : d # c => wire'[d] = wire[d]
    BY <1>1, <1>3 DEF StepOf
<1>6. \A d \in Conns : ConnectionInOrder(d)'
    BY <1>1, <1>2, <1>3, StepInOrder
<1>7. \A d \in Conns : OpenInUse(d)'
    BY <1>2, <1>3, <1>4, <1>5, InstallOpen
<1>8. closed' = closed \/ (closed' = closed \cup {c} /\ MayClose(c))
  <2>1. closed' = closed \cup {d \in Conns : InUse(op, d) /\ ~InUse(op', d)}
        BY <1>3 DEF Install
  <2>2. \A d \in Conns : InUse(op, d) /\ ~InUse(op', d) => d = c
        BY <1>1, <1>4 DEF InUse, Owner
  <2>3. CASE next = Nothing
    <3>1. MayClose(c)
      <4>1. \A rs, bytes, rest, out, open : ~InOrderAt(Nothing, rs, bytes, rest, out, open)
            BY DEF InOrderAt, InOrder, ReadInOrder, FileInOrder, WriteInOrder, Nothing, Operation
      <4>2. QED
            BY <1>3, <2>3, <4>1
    <3>2. QED
          BY <2>1, <2>2, <3>1
  <2>4. CASE next # Nothing
    <3>1. InUse(op', c)
          BY <1>1, <1>2, <1>4, <2>4 DEF InUse, Owner
    <3>2. QED
          BY <2>1, <2>2, <3>1
  <2>5. QED
        BY <2>3, <2>4
<1>9. Reason
    BY <1>8 DEF Reason
<1>10. c \notin closed
    BY <1>2 DEF AnswersInv, OpenInUse
<1>11. ServiceStep
  <2>1. CASE wire' = wire
    <3>1. closed' = closed \cup {} \/ closed' = closed \cup {c}
          BY <1>8
    <3>2. {} \in SUBSET Conns /\ {c} \in SUBSET Conns
          OBVIOUS
    <3>3. QED
          BY <1>5, <2>1, <3>1, <3>2, ClosingImplements
  <2>2. CASE Len(wire'[c]) > Len(wire[c])
        BY <1>3, <1>5, <1>8, <1>10, <2>2, SendingImplements
  <2>3. QED
        BY <1>3, <2>1, <2>2
<1>12. closed' \subseteq Conns
    BY <1>8 DEF AnswersInv
<1>13. QED
    BY <1>3, <1>6, <1>7, <1>9, <1>11, <1>12 DEF AnswersInv

\* A connection that is accepted has not been served, and its first operation
\* is a read.
LEMMA NotifyListenerPreserves ==
  ASSUME HeldInv, SingleInv, AnswersInv, phase = "serve", NotifyListener
  PROVE  AnswersInv' /\ Reason /\ ServiceStep
<1>1. PICK c \in Conns :
        /\ conn[c] = "backlog" /\ conn' = [conn EXCEPT ![c] = "accepted"]
        /\ Install([op EXCEPT ![<<c, 1>>] = ReadRequest(c, buffer[c]).next])
        /\ UNCHANGED <<peer, asked, inbox, buffer, wire, phase>>
    BY DEF NotifyListener, Processed, clientVars
<1>2. <<c, 1>> \in Ids /\ Owner(<<c, 1>>) = c /\ \A i \in Ids : Owner(i) = c => op[i] = Nothing
    BY <1>1, AsyncAssumption DEF Ids, Owner, HeldInv, NoneBeforeAccept
<1>3. NotServed(c) /\ c \notin closed /\ asked[c] \in Seq(Requests) /\ inbox[c] \in Seq(Nat)
  <2>1. conn[c] # "accepted"
        BY <1>1
  <2>2. NotServed(c) /\ c \notin closed
        BY <2>1 DEF AnswersInv, ConnectionInOrder, OpenInUse
  <2>3. QED
        BY <2>2 DEF SingleInv, Bytes
<1>4. PICK next : next = ReadRequest(c, buffer[c]).next
    OBVIOUS
<1>5. /\ op' = [op EXCEPT ![<<c, 1>>] = next] /\ op'[<<c, 1>>] = next /\ next # Nothing
      /\ \A i \in Ids : i # <<c, 1>> => op'[i] = op[i]
    BY <1>1, <1>2, <1>4, ReadRequestPollable DEF Install, HeldInv, Shape
<1>6. InOrderAt(next, asked[c], buffer[c], inbox[c], wire[c], peer[c] # "reset")
  <2>1. PICK none \in Seq(Nat) : none = <<>> /\ none = buffer[c] /\ Len(none) = 0
    <3>1. <<>> \in Seq(Nat) /\ Len(<<>>) = 0
          OBVIOUS
    <3>2. QED
          BY <1>3, <3>1 DEF NotServed
  <2>2. FirstEnd(none) = 0
    <3>1. FirstEnd(none) = 0 \/ FirstEnd(none) \in 1..Len(none)
          BY FirstEndIs
    <3>2. QED
          BY <2>1, <3>1
  <2>3. ReadRequest(c, none).left = none /\ ReadRequest(c, none).next = next
        BY <1>4, <2>1, <2>2 DEF ReadRequest
  <2>4. none \o inbox[c] = inbox[c]
        BY <1>3, <2>1, ConcatEmptySeq
  <2>5. Arrived(none \o inbox[c], 0, Len(asked[c]))
        BY <1>3, <2>4 DEF NotServed
  <2>6. SubSeq(asked[c], 1, 0) = <<>>
        BY <1>3
  <2>7. Tr(SubSeq(asked[c], 1, 0)) = wire[c]
        BY <1>3, <2>6, TranscriptEmpty DEF NotServed, Tr
  <2>8. ServedTo(asked[c], 0, wire[c], peer[c] # "reset")
        BY <2>7 DEF ServedTo, Serving, ServingOf
  <2>9. InOrderAt(ReadRequest(c, none).next, asked[c], ReadRequest(c, none).left, inbox[c],
                  wire[c], peer[c] # "reset")
        BY <1>3, <2>5, <2>8, ReadRequestInOrder
  <2>10. QED
        BY <2>1, <2>3, <2>9
<1>7. ASSUME NEW d \in Conns PROVE ConnectionInOrder(d)'
  <2>1. CASE d = c
    <3>1. \A i \in Pending(d)' : i = <<c, 1>>
          BY <1>2, <1>5, <2>1 DEF Pending, Owner
    <3>2. OperationInOrder(d, <<c, 1>>)'
          BY <1>1, <1>5, <1>6, <2>1 DEF OperationInOrder
    <3>3. IsPrefix(wire[d], Tr(asked[d]))
          BY DEF AnswersInv, ConnectionInOrder
    <3>4. conn'[d] = "accepted"
          BY <1>1, <2>1 DEF HeldInv, Shape
    <3>5. QED
          BY <1>1, <3>1, <3>2, <3>3, <3>4 DEF ConnectionInOrder
  <2>2. CASE d # c
    <3>1. Untouched(d)
          BY <1>1, <1>2, <1>5, <2>2 DEF Untouched, HeldInv, Shape
    <3>2. QED
          BY <3>1, UntouchedInOrder DEF AnswersInv
  <2>3. QED
        BY <2>1, <2>2
<1>8. closed' = closed
  <2>1. \A d \in Conns : InUse(op, d) => InUse(op', d)
        BY <1>2, <1>5 DEF InUse, Owner
  <2>2. closed' = closed \cup {d \in Conns : InUse(op, d) /\ ~InUse(op', d)}
        BY <1>1 DEF Install
  <2>3. QED
        BY <2>1, <2>2
<1>9. ASSUME NEW d \in Conns PROVE OpenInUse(d)'
  <2>1. SUFFICES ASSUME d \in closed PROVE conn'[d] = "accepted" /\ Pending(d)' = {}
        BY <1>8 DEF OpenInUse
  <2>2. d # c /\ conn[d] = "accepted" /\ Pending(d) = {}
        BY <1>3, <2>1 DEF AnswersInv, OpenInUse
  <2>3. conn'[d] = "accepted"
        BY <1>1, <2>2 DEF HeldInv, Shape
  <2>4. \A i \in Ids : i[1] = d => op'[i] = op[i]
        BY <1>2, <1>5, <2>2 DEF Owner
  <2>5. QED
        BY <2>2, <2>3, <2>4 DEF Pending
<1>10. Outputs' /\ closed' \subseteq Conns
    BY <1>1, <1>8 DEF AnswersInv, Outputs
<1>11. Reason /\ ServiceStep
    BY <1>1, <1>8 DEF Reason, ServiceStep, HttpService!vars
<1>12. QED
    BY <1>7, <1>9, <1>10, <1>11 DEF AnswersInv

\* Where nothing that a connection's operation refers to changes.
LEMMA EndPassPreserves ==
  ASSUME HeldInv, SingleInv, AnswersInv, EndPass
  PROVE  AnswersInv' /\ Reason /\ ServiceStep
<1> DEFINE expired == {i \in skipped : PastDeadline(i)}
<1>1. /\ phase = "serve" /\ UNCHANGED <<conn, peer, asked, inbox, buffer, wire>>
      /\ Install([i \in Ids |-> IF i \in expired THEN Nothing ELSE op[i]])
    BY DEF EndPass, clientVars
<1>2. \A i \in Ids : op'[i] = IF i \in expired THEN Nothing ELSE op[i]
    BY <1>1 DEF Install
<1>3. \A i \in expired : i \in skipped /\ op[i].late
    BY DEF PastDeadline
<1> HIDE DEF expired
<1>4. ASSUME NEW c \in Conns PROVE ConnectionInOrder(c)'
  <2>1. \A i \in Pending(c)' : i \in Pending(c) /\ op'[i] = op[i]
        BY <1>2 DEF Pending
  <2>2. \A i \in Pending(c)' : OperationInOrder(c, i)'
        BY <1>1, <2>1 DEF AnswersInv, ConnectionInOrder, OperationInOrder
  <2>3. QED
        BY <1>1, <2>2 DEF AnswersInv, ConnectionInOrder, NotServed
<1>5. \A c \in Conns : OpenInUse(c)'
    BY <1>1, <1>2, InstallOpen
<1>6. closed' = closed \cup {c \in Conns : InUse(op, c) /\ ~InUse(op', c)}
    BY <1>1 DEF Install
<1>7. ASSUME NEW c \in Conns, InUse(op, c), ~InUse(op', c) PROVE MayClose(c)
  <2>1. PICK i \in Ids : i[1] = c /\ op[i] # Nothing
        BY <1>7 DEF InUse
  <2>2. i \in expired
        BY <1>2, <1>7, <2>1 DEF InUse
  <2>3. QED
        BY <1>3, <2>1, <2>2 DEF MayClose, Owner
<1>8. Reason
    BY <1>6, <1>7 DEF Reason
<1>9. ServiceStep
    BY <1>1, <1>6, ClosingImplements
<1>10. Outputs' /\ closed' \subseteq Conns
    BY <1>1, <1>6 DEF AnswersInv, Outputs
<1>11. QED
    BY <1>4, <1>5, <1>8, <1>9, <1>10 DEF AnswersInv

\* The connections, where only the loop changes.
LEMMA LoopOnlyPreserves ==
  ASSUME AnswersInv, UNCHANGED <<op, connVars>>, phase = "killed" => phase' = "killed"
  PROVE  AnswersInv' /\ Reason /\ ServiceStep
<1>1. \A c \in Conns : Untouched(c) /\ Pending(c)' = Pending(c)
    BY DEF Untouched, connVars, clientVars, Pending
<1>2. \A c \in Conns : ConnectionInOrder(c)'
    BY <1>1, UntouchedInOrder DEF AnswersInv
<1>3. \A c \in Conns : OpenInUse(c)'
    BY <1>1 DEF AnswersInv, OpenInUse, connVars
<1>4. Outputs' /\ closed' \subseteq Conns
    BY DEF AnswersInv, Outputs, connVars
<1>5. Reason /\ ServiceStep
    BY DEF Reason, ServiceStep, HttpService!vars, connVars, clientVars
<1>6. QED
    BY <1>2, <1>3, <1>4, <1>5 DEF AnswersInv

\* So does the end of the process...
LEMMA KilledPreserves ==
  ASSUME AnswersInv, Killed
  PROVE  AnswersInv' /\ Reason /\ ServiceStep
<1>1. /\ phase' = "killed" /\ closed' = Conns
      /\ UNCHANGED <<op, conn, peer, asked, inbox, buffer, wire>>
    BY DEF Killed, clientVars
<1>2. \A c \in Conns : ConnectionInOrder(c)'
    BY <1>1, UntouchedInOrder DEF AnswersInv, Untouched
<1>3. \A c \in Conns : OpenInUse(c)'
    BY <1>1 DEF OpenInUse
<1>4. Outputs' /\ closed' \subseteq Conns
    BY <1>1 DEF AnswersInv, Outputs
<1>5. closed' = closed \cup Conns
    BY <1>1 DEF AnswersInv
<1>6. ServiceStep
    BY <1>1, <1>5, ClosingImplements
<1>7. Reason
    BY <1>1 DEF Reason
<1>8. QED
    BY <1>2, <1>3, <1>4, <1>6, <1>7 DEF AnswersInv

\* ... and the passing of a deadline.
LEMMA DeadlinePreserves ==
  ASSUME HeldInv, AnswersInv, NEW i \in Ids, DeadlinePasses(i)
  PROVE  AnswersInv' /\ Reason /\ ServiceStep
<1>1. /\ op[i] # Nothing /\ op' = [op EXCEPT ![i].late = TRUE]
      /\ UNCHANGED <<phase, conn, closed, peer, asked, inbox, buffer, wire>>
    BY DEF DeadlinePasses, connVars, clientVars
<1>2. /\ \A j \in Ids : j # i => op'[j] = op[j]
      /\ op'[i].kind = op[i].kind /\ op'[i].request = op[i].request
      /\ op'[i].status = op[i].status /\ op'[i].size = op[i].size /\ op'[i].moved = op[i].moved
    BY <1>1 DEF HeldInv, Shape, IsOperation
<1>3. \A j \in Ids : op'[j] # Nothing => op[j] # Nothing
    BY <1>1, <1>2
<1>4. ASSUME NEW c \in Conns PROVE ConnectionInOrder(c)'
  <2>1. ASSUME NEW j \in Pending(c)' PROVE OperationInOrder(c, j)'
    <3>1. j \in Ids /\ j \in Pending(c)
          BY <1>3 DEF Pending
    <3>2. PICK k \in 0..Len(asked[c]) :
            /\ Arrived(buffer[c] \o inbox[c], k, Len(asked[c]))
            /\ InOrder(op[j], asked[c], k, buffer[c], wire[c], peer[c] # "reset")
          BY <3>1 DEF AnswersInv, ConnectionInOrder, OperationInOrder, InOrderAt
    <3>3. InOrder(op'[j], asked[c], k, buffer[c], wire[c], peer[c] # "reset")
      <4>1. PICK o, p : o = op[j] /\ p = op'[j]
            OBVIOUS
      <4>2. /\ p.kind = o.kind /\ p.request = o.request /\ p.status = o.status
            /\ p.size = o.size /\ p.moved = o.moved
            BY <1>2, <3>1, <4>1
      <4>3. QED
            BY <3>2, <4>1, <4>2, InOrderStill
    <3>4. QED
          BY <1>1, <3>2, <3>3 DEF OperationInOrder, InOrderAt
  <2>2. QED
        BY <1>1, <2>1 DEF AnswersInv, ConnectionInOrder, NotServed
<1>5. ASSUME NEW c \in Conns PROVE OpenInUse(c)'
  <2>1. Pending(c) = {} => Pending(c)' = {}
        BY <1>3 DEF Pending
  <2>2. QED
        BY <1>1, <2>1 DEF AnswersInv, OpenInUse
<1>6. Outputs' /\ closed' \subseteq Conns /\ Reason /\ ServiceStep
    BY <1>1 DEF AnswersInv, Outputs, Reason, ServiceStep, HttpService!vars
<1>7. QED
    BY <1>4, <1>5, <1>6 DEF AnswersInv

\* A client's step, as the loop sees it.
ClientStep(c) == UNCHANGED <<op, phase>> /\ ClientEffect(c)

\* What a client does preserves the invariant.
LEMMA ClientStepPreserves ==
  ASSUME HeldInv, SingleInv, AnswersInv, NEW c \in Conns, ClientStep(c)
  PROVE  AnswersInv'
<1>1. \A d \in Conns : d # c => ConnectionInOrder(d)'
    BY UntouchedInOrder DEF ClientStep, ClientEffect, Untouched, AnswersInv
<1>2. PICK rs \in Seq(Requests), more \in Seq(Requests) :
        rs = asked[c] /\ more = asked'[c] /\ (more = rs \/ OneMore(more, rs))
    BY DEF ClientStep, ClientEffect, SingleInv, Bytes
<1>3. Len(rs) \in Nat /\ Len(more) \in Nat /\ \A k \in 0..Len(rs) : k \in 0..Len(more)
    BY <1>2 DEF OneMore
<1>4. IsPrefix(wire[c], Tr(more))
  <2>1. IsPrefix(wire[c], Tr(rs))
        BY <1>2 DEF AnswersInv, ConnectionInOrder
  <2>2. CASE OneMore(more, rs)
    <3>1. IsPrefix(Tr(rs), Tr(more))
          BY <2>2, SizeIs, TranscriptGrows DEF Tr
    <3>2. Tr(rs) \in Seq(AnswerPart(Answer)) /\ Tr(more) \in Seq(AnswerPart(Answer))
          BY TrType
    <3>3. wire[c] \in Seq(AnswerPart(Answer))
          BY DEF AnswersInv, Outputs
    <3>4. QED
          BY <2>1, <3>1, <3>2, <3>3, PrefixTransitive
  <2>3. QED
        BY <1>2, <2>1, <2>2
<1>5. conn'[c] # "accepted" => NotServed(c)'
  <2>1. SUFFICES ASSUME conn'[c] # "accepted" PROVE NotServed(c)'
        OBVIOUS
  <2>2. NotServed(c)
        BY <2>1 DEF ClientStep, ClientEffect, AnswersInv, ConnectionInOrder
  <2>3. inbox[c] \in Seq(Nat)
        BY DEF SingleInv, Bytes
  <2>4. QED
        BY <2>2, <2>3, NotServedStill DEF ClientStep
<1>6. ASSUME NEW i \in Pending(c)' PROVE OperationInOrder(c, i)'
  <2>1. i \in Pending(c)
        BY DEF ClientStep, ClientEffect, Pending
  <2>2. PICK k \in 0..Len(rs) :
          /\ Arrived(buffer[c] \o inbox[c], k, Len(rs))
          /\ InOrder(op[i], rs, k, buffer[c], wire[c], peer[c] # "reset")
        BY <1>2, <2>1 DEF AnswersInv, ConnectionInOrder, OperationInOrder, InOrderAt
  <2>3. buffer[c] \in Seq(Nat) /\ k \in Nat
        BY <1>3 DEF AnswersInv, Outputs
  <2>4. Arrived(buffer[c] \o inbox'[c], k, Len(more))
        BY <1>2, <2>2, <2>3 DEF ClientStep, ClientEffect, ArrivesAtEnd
  <2>5. InOrder(op[i], more, k, buffer[c], wire[c], peer[c] # "reset")
        BY <1>2, <2>2, InOrderMore
  <2>6. InOrder(op[i], more, k, buffer[c], wire[c], peer'[c] # "reset")
    <3>1. PICK o : o = op[i]
          OBVIOUS
    <3>2. peer'[c] # "reset" => peer[c] # "reset"
          BY DEF ClientStep, ClientEffect
    <3>3. QED
          BY <2>5, <3>1, <3>2, InOrderStill
  <2>7. InOrderAt(op[i], more, buffer[c], inbox'[c], wire[c], peer'[c] # "reset")
        BY <1>3, <2>4, <2>6 DEF InOrderAt
  <2>8. QED
        BY <1>2, <2>7 DEF ClientStep, ClientEffect, OperationInOrder
<1>7. ConnectionInOrder(c)'
    BY <1>2, <1>4, <1>5, <1>6 DEF ClientStep, ClientEffect, ConnectionInOrder
<1>8. ASSUME NEW d \in Conns PROVE OpenInUse(d)'
  <2>1. Pending(d)' = Pending(d)
        BY DEF ClientStep, ClientEffect, Pending
  <2>2. QED
        BY <2>1 DEF ClientStep, ClientEffect, AnswersInv, OpenInUse
<1>9. Outputs' /\ closed' \subseteq Conns
    BY DEF ClientStep, ClientEffect, AnswersInv, Outputs
<1>10. QED
    BY <1>1, <1>7, <1>8, <1>9 DEF AnswersInv

\* Of what a client does, HttpService sees the requests.
LEMMA ClientPreserves ==
  ASSUME HeldInv, SingleInv, AnswersInv, NEW c \in Conns, Client(c), UNCHANGED loopVars
  PROVE  AnswersInv' /\ Reason /\ ServiceStep
<1>1. /\ inbox \in [Conns -> Seq(Nat)] /\ asked \in [Conns -> Seq(Requests)]
      /\ peer \in [Conns -> {"open", "fin", "reset"}]
      /\ conn = [d \in Conns |-> conn[d]]
    BY DEF SingleInv, Bytes, HeldInv, Shape
<1>2. ClientStep(c)
  <2>1. ClientEffect(c)
        BY <1>1, ClientEffectIs
  <2>2. QED
        BY <2>1 DEF ClientStep, loopVars
<1>3. Asks(c) /\ UNCHANGED <<wire, closed>> => HttpService!Ask(c)
    BY DEF Asks, HttpService!Ask
<1>4. ServiceStep
    BY <1>2, <1>3 DEF ClientStep, ClientEffect, ServiceStep, HttpService!Next, HttpService!vars
<1>5. Reason
    BY <1>2 DEF ClientStep, ClientEffect, Reason
<1>6. QED
    BY <1>2, <1>4, <1>5, ClientStepPreserves

-----------------------------------------------------------------------------
(* The theorems.                                                           *)

\* Initially nothing has been asked or sent.
LEMMA InitAnswers == Init => AnswersInv /\ HttpService!Init
<1> SUFFICES ASSUME Init PROVE AnswersInv /\ HttpService!Init
    OBVIOUS
<1>1. \A c \in Conns : /\ conn[c] = "away" /\ wire[c] = <<>> /\ asked[c] = <<>>
                        /\ inbox[c] = <<>> /\ buffer[c] = <<>>
    BY DEF Init, ConnectionsInit
<1>2. closed = {} /\ \A i \in Ids : op[i] = Nothing
    BY DEF Init, ConnectionsInit
<1>3. <<>> \in Seq(Nat) /\ <<>> \in Seq(AnswerPart(Answer)) /\ Len(<<>>) = 0
    OBVIOUS
<1>4. Outputs
    BY <1>3 DEF Init, ConnectionsInit, Outputs
<1>5. Tr(<<>>) = <<>>
    BY TranscriptEmpty DEF Tr
<1>6. IsPrefix(<<>>, <<>>)
  <2>1. PICK none \in Seq(Nat) : none = <<>>
        BY <1>3
  <2>2. IsPrefix(none, none)
        BY PrefixOfConcat
  <2>3. QED
        BY <2>1, <2>2
<1>7. Arrived(<<>>, 0, 0)
    BY <1>3 DEF Arrived
<1>8. \A c \in Conns : ConnectionInOrder(c) /\ OpenInUse(c)
    BY <1>1, <1>2, <1>3, <1>5, <1>6, <1>7 DEF ConnectionInOrder, OpenInUse, NotServed, Pending
<1>9. HttpService!Init
    BY DEF Init, ConnectionsInit, HttpService!Init
<1>10. QED
    BY <1>2, <1>4, <1>8, <1>9 DEF AnswersInv

\* Every step preserves the invariant, closes for a reason and implements HttpService.
LEMMA NextAnswers ==
  ASSUME "spurious" \notin Faults, "send" \notin Faults,
         HeldInv, SingleInv, AnswersInv, [Next]_vars
  PROVE  AnswersInv' /\ Reason /\ ServiceStep
<1>1. CASE Poll
  <2>1. UNCHANGED <<op, connVars>> /\ phase = "poll"
        BY <1>1 DEF Poll
  <2>2. QED
        BY <2>1, LoopOnlyPreserves
<1>2. ASSUME phase = "serve", NEW i \in ready \ {Listener},
             NotifyRead(i) \/ NotifyFile(i) \/ NotifyWrite(i)
      PROVE  AnswersInv' /\ Reason /\ ServiceStep
  <2>1. NotifiedInOrder(i)
        BY <1>2, NotifyReadInOrder, NotifyFileInOrder, NotifyWriteInOrder
  <2>2. QED
        BY <1>2, <2>1, NotifiedPreserves
<1>3. ASSUME phase = "serve", NotifyListener PROVE AnswersInv' /\ Reason /\ ServiceStep
    BY <1>3, NotifyListenerPreserves
<1>4. ASSUME phase = "serve", AcceptFails PROVE AnswersInv' /\ Reason /\ ServiceStep
  <2>1. UNCHANGED <<op, connVars>>
        BY <1>4 DEF AcceptFails
  <2>2. QED
        BY <1>4, <2>1, LoopOnlyPreserves
<1>5. CASE EndPass
    BY <1>5, EndPassPreserves
<1>6. CASE Exit \/ PollFails \/ Sigpipe
    BY <1>6, KilledPreserves DEF Exit, PollFails, Sigpipe
<1>7. ASSUME NEW i \in Ids, DeadlinePasses(i) PROVE AnswersInv' /\ Reason /\ ServiceStep
    BY <1>7, DeadlinePreserves
<1>8. ASSUME NEW c \in Conns, Client(c), UNCHANGED loopVars
      PROVE  AnswersInv' /\ Reason /\ ServiceStep
    BY <1>8, ClientPreserves
<1>9. CASE UNCHANGED vars
  <2>1. UNCHANGED <<op, connVars, phase>>
        BY <1>9 DEF vars, loopVars
  <2>2. QED
        BY <2>1, LoopOnlyPreserves
<1>10. QED
    BY <1>1, <1>2, <1>3, <1>4, <1>5, <1>6, <1>7, <1>8, <1>9 DEF Next, LoopStep, Notify

\* Every connection's operation is the next thing to do for its client's bytes.
LEMMA AnswersInvariance ==
  ASSUME "spurious" \notin Faults, "send" \notin Faults
  PROVE  Spec => [](HeldInv /\ SingleInv /\ AnswersInv)
<1>1. Init => SingleInv
    BY DEF Init, ConnectionsInit, SingleInv, SingleOperation, Pending, ReadyReads, Bytes
<1>2. HeldInv /\ SingleInv /\ [Next]_vars => SingleInv'
    BY NextSingle
<1>3. Init => AnswersInv
    BY InitAnswers
<1>4. HeldInv /\ SingleInv /\ AnswersInv /\ [Next]_vars => AnswersInv'
    BY NextAnswers
<1>5. QED
    BY <1>1, <1>2, <1>3, <1>4, HeldInvariance, PTL DEF Spec

\* The parts that the client of a connection gets are a prefix of the answers its
\* requests deserve, in their order, while send() fails only for good
\* (async_http_server.cpp:27-43, async_connection.cpp:116-163, 190-214).
THEOREM AnswersComeInOrder ==
  "spurious" \notin Faults /\ "send" \notin Faults => (Spec => []AnswersInOrder)
<1> SUFFICES ASSUME "spurious" \notin Faults, "send" \notin Faults
             PROVE  Spec => []AnswersInOrder
    OBVIOUS
<1>1. AnswersInv => AnswersInOrder
    BY TranscriptIsTr DEF AnswersInv, ConnectionInOrder, AnswersInOrder
<1>2. QED
    BY <1>1, AnswersInvariance, PTL

\* The server closes no connection but for one of MayClose's reasons
\* (async_event_loop.cpp:28-44, 87-93, async_http_server.cpp:27-43).
THEOREM ClosesForAReason ==
  "spurious" \notin Faults /\ "send" \notin Faults => (Spec => ClosedForAReason)
<1> SUFFICES ASSUME "spurious" \notin Faults, "send" \notin Faults
             PROVE  Spec => ClosedForAReason
    OBVIOUS
<1>1. HeldInv /\ SingleInv /\ AnswersInv /\ [Next]_vars
        => [phase' # "killed" => \A c \in closed' \ closed : MayClose(c)]_vars
    BY NextAnswers DEF Reason
<1>2. QED
    BY <1>1, AnswersInvariance, PTL DEF Spec, ClosedForAReason

\* Every step of the asynchronous server is one of HttpService or changes nothing
\* that HttpService sees: what ImplementsHttpService says, but for the fairness.
THEOREM AsyncServerImplementsSteps ==
  "spurious" \notin Faults /\ "send" \notin Faults =>
    (Spec => HttpService!Init /\ [][HttpService!Next]_(HttpService!vars))
<1> SUFFICES ASSUME "spurious" \notin Faults, "send" \notin Faults
             PROVE  Spec => HttpService!Init /\ [][HttpService!Next]_(HttpService!vars)
    OBVIOUS
<1>1. Init => HttpService!Init
    BY InitAnswers
<1>2. HeldInv /\ SingleInv /\ AnswersInv /\ [Next]_vars => [HttpService!Next]_(HttpService!vars)
    BY NextAnswers DEF ServiceStep
<1>3. QED
    BY <1>1, <1>2, AnswersInvariance, PTL DEF Spec

-----------------------------------------------------------------------------
(* The types, whatever goes wrong: poll() may be wrong here.                *)

\* An operation of a connection whose client has sent rs: only a pollable that
\* is for none of its requests has the number 0, and only one that writes none
\* of the server's statuses has the status "none".
OperationOf(rs) ==
  [kind : {"nothing", "read", "htaccess", "contents", "write"},
   request : 0..Len(rs), status : Statuses \cup {"none"},
   size : Nat, moved : Nat, late : BOOLEAN]
OperationTyped(o, rs) ==
  /\ o \in OperationOf(rs)
  /\ o.kind \in {"htaccess", "contents", "write"} => o.request # 0
  /\ o.kind = "write" => o.status # "none"

TypesInv ==
  /\ ConnectionsInv(Statuses)
  /\ phase \in {"poll", "serve", "exited", "killed"}
  /\ \A i \in Ids : OperationTyped(op[i], asked[Owner(i)])

\* What a response to the n-th request, and a read of a file for it, are.
LEMMA BeginsTyped ==
  ASSUME NEW rs \in Seq(Requests), NEW n \in 1..Len(rs)
  PROVE  /\ \A status \in Statuses : OperationTyped(Write(n, status), rs)
         /\ \A purpose \in {"htaccess", "contents"} : OperationTyped(FileRead(purpose, n), rs)
         /\ OperationTyped(Nothing, rs) /\ OperationTyped(Read, rs)
<1>1. Len(rs) \in Nat /\ 0 \in 0..Len(rs) /\ n \in 0..Len(rs) /\ n # 0 /\ 0 \in Nat
    OBVIOUS
<1>2. \A s \in Statuses : Size[s] \in Nat /\ s # "none"
    BY AsyncAssumption DEF Size, Statuses
<1>3. QED
    BY <1>1, <1>2 DEF Write, FileRead, Nothing, Read, Operation, OperationTyped, OperationOf

\* What the handlers return for a request.
LEMMA HandleTyped ==
  ASSUME NEW c, asked[c] \in Seq(Requests), NEW n \in 1..Len(asked[c])
  PROVE  /\ OperationTyped(ServeFile(c, n), asked[c])
         /\ OperationTyped(HandleRequest(c, n), asked[c])
<1>1. /\ \A status \in Statuses : OperationTyped(Write(n, status), asked[c])
      /\ \A purpose \in {"htaccess", "contents"} : OperationTyped(FileRead(purpose, n), asked[c])
    BY BeginsTyped
<1>2. OperationTyped(ServeFile(c, n), asked[c])
    BY <1>1 DEF ServeFile, Statuses
<1>3. QED
    BY <1>1, <1>2 DEF HandleRequest, AllowRequest, Statuses

\* What read_until returns and leaves.
LEMMA ReadRequestTyped ==
  ASSUME NEW c, asked[c] \in Seq(Requests), NEW bytes \in Seq(0..Len(asked[c]))
  PROVE  /\ OperationTyped(ReadRequest(c, bytes).next, asked[c])
         /\ ReadRequest(c, bytes).left \in Seq(0..Len(asked[c]))
<1>1. PICK L \in Nat : L = Len(asked[c])
    OBVIOUS
<1>2. CASE FirstEnd(bytes) = 0
  <2>1. OperationTyped(Read, asked[c])
    <3>1. 0 \in 0..Len(asked[c]) /\ 0 \in Nat
          OBVIOUS
    <3>2. QED
          BY <3>1 DEF Read, Operation, OperationTyped, OperationOf
  <2>2. QED
        BY <1>2, <2>1 DEF ReadRequest
<1>3. CASE FirstEnd(bytes) # 0
  <2>1. /\ bytes[FirstEnd(bytes)] \in 1..L
        /\ After(bytes, FirstEnd(bytes)) \in Seq(0..L)
        BY <1>1, <1>3, ReadTyped
  <2>2. OperationTyped(HandleRequest(c, bytes[FirstEnd(bytes)]), asked[c])
        BY <1>1, <2>1, HandleTyped
  <2>3. QED
        BY <1>1, <1>3, <2>1, <2>2 DEF ReadRequest
<1>4. QED
    BY <1>2, <1>3

\* What the other callbacks return and leave.
LEMMA CallbackTyped ==
  ASSUME NEW c, asked[c] \in Seq(Requests), buffer[c] \in Seq(0..Len(asked[c])),
         NEW i, Owner(i) = c, OperationTyped(op[i], asked[c]),
         op[i].kind \in {"htaccess", "contents", "write"}
  PROVE  /\ OperationTyped(FileCallback(i), asked[c])
         /\ OperationTyped(AfterWrite(c, op[i].request).next, asked[c])
         /\ AfterWrite(c, op[i].request).left \in Seq(0..Len(asked[c]))
<1>1. PICK n \in 1..Len(asked[c]) : n = op[i].request
    BY DEF OperationTyped, OperationOf
<1>2. PICK moved \in Nat : moved = op[i].moved
    BY DEF OperationTyped, OperationOf
<1>3. /\ OperationTyped(Write(n, "200"), asked[c]) /\ OperationTyped(Write(n, "403"), asked[c])
      /\ OperationTyped(Nothing, asked[c]) /\ OperationTyped(ServeFile(c, n), asked[c])
    BY BeginsTyped, HandleTyped DEF Statuses
<1>4. OperationTyped([Write(n, "200") EXCEPT !.size = 1 + moved], asked[c])
  <2>1. PICK size \in Nat : size = 1 + moved
        OBVIOUS
  <2>2. OperationTyped([Write(n, "200") EXCEPT !.size = size], asked[c])
        BY <1>3 DEF OperationTyped, OperationOf
  <2>3. QED
        BY <2>1, <2>2
<1>5. OperationTyped(FileCallback(i), asked[c])
    BY <1>1, <1>2, <1>3, <1>4 DEF FileCallback
<1>6. /\ OperationTyped(AfterWrite(c, n).next, asked[c])
      /\ AfterWrite(c, n).left \in Seq(0..Len(asked[c]))
    BY <1>3, ReadRequestTyped DEF AfterWrite
<1>7. QED
    BY <1>1, <1>5, <1>6

\* One operation of the connection c becomes next; the rest of the step is of c.
LEMMA OperationStep ==
  ASSUME HeldInv, TypesInv, NEW c \in Conns, NEW j \in Ids, Owner(j) = c,
         NEW next, OperationTyped(next, asked[c]), NEW ops, ops = [op EXCEPT ![j] = next],
         Install(ops), phase' = phase,
         conn' \in [Conns -> {"away", "backlog", "accepted"}], UNCHANGED clientVars,
         NEW bytes \in Seq(0..Len(asked[c])), buffer' = [buffer EXCEPT ![c] = bytes],
         NEW rest \in Seq(0..Len(asked[c])), inbox' = [inbox EXCEPT ![c] = rest],
         NEW sent \in Seq(AnyPart(Statuses)), wire' = [wire EXCEPT ![c] = sent]
  PROVE  TypesInv'
<1>1. closed' \in SUBSET Conns
    BY DEF Install, TypesInv, ConnectionsInv, ConnectionsTypeOK
<1>2. ConnectionsInv(Statuses)'
    BY <1>1, ServedTyped DEF TypesInv
<1>3. \A i \in Ids : op'[i] = IF i = j THEN next ELSE op[i]
    BY DEF Install, HeldInv, Shape
<1>4. asked' = asked
    BY DEF clientVars
<1>5. \A i \in Ids : OperationTyped(op'[i], asked'[Owner(i)])
    BY <1>3, <1>4 DEF TypesInv
<1>6. QED
    BY <1>2, <1>5 DEF TypesInv

\* What a connection holds, for the lemmas about its types.
LEMMA ConnectionHolds ==
  ASSUME TypesInv, NEW c \in Conns
  PROVE  /\ asked[c] \in Seq(Requests) /\ Len(asked[c]) \in Nat /\ Len(asked[c]) <= MaxRequests
         /\ inbox[c] \in Seq(0..Len(asked[c])) /\ inbox = [inbox EXCEPT ![c] = inbox[c]]
         /\ buffer[c] \in Seq(0..Len(asked[c])) /\ buffer = [buffer EXCEPT ![c] = buffer[c]]
         /\ wire[c] \in Seq(AnyPart(Statuses)) /\ wire = [wire EXCEPT ![c] = wire[c]]
         /\ conn \in [Conns -> {"away", "backlog", "accepted"}]
<1>1. /\ asked[c] \in Seq(Requests) /\ Len(asked[c]) <= MaxRequests
      /\ inbox[c] \in Seq(0..Len(asked[c])) /\ buffer[c] \in Seq(0..Len(asked[c]))
    BY DEF TypesInv, ConnectionsInv, ConnectionsTypeOK, Symbols
<1>2. /\ inbox = [inbox EXCEPT ![c] = inbox[c]] /\ buffer = [buffer EXCEPT ![c] = buffer[c]]
      /\ wire = [wire EXCEPT ![c] = wire[c]] /\ wire[c] \in Seq(AnyPart(Statuses))
      /\ conn \in [Conns -> {"away", "backlog", "accepted"}]
    BY DEF TypesInv, ConnectionsInv, ConnectionsTypeOK, AnyPart
<1>3. QED
    BY <1>1, <1>2

\* A read that poll() was wrong about too.
LEMMA NotifyReadTyped ==
  ASSUME HeldInv, TypesInv, NEW i \in ready \ {Listener}, NotifyRead(i)
  PROVE  TypesInv'
<1>1. PICK c \in Conns : c = Owner(i) /\ i \in Ids
    BY DEF HeldInv, EveryPollableHeldOnce, Ids, Owner
<1>2. /\ UNCHANGED <<conn, clientVars, wire>>
      /\ conn' \in [Conns -> {"away", "backlog", "accepted"}]
      /\ wire' = [wire EXCEPT ![c] = wire[c]]
    BY ConnectionHolds DEF NotifyRead
<1>3. PICK L \in Nat : L = Len(asked[c])
    BY ConnectionHolds
<1>4. ASSUME NEW m \in 1..Len(inbox[c]), NEW request,
             request = ReadRequest(c, buffer[c] \o Received(c, m)), Receive(c, m),
             buffer' = [buffer EXCEPT ![c] = request.left], Replace(i, request.next)
      PROVE  TypesInv'
  <2>1. PICK s \in Seq(0..L), t \in Seq(0..L) : s = buffer[c] /\ t = inbox[c]
        BY <1>3, ConnectionHolds
  <2>2. PICK bytes \in Seq(0..L), rest \in Seq(0..L) :
          bytes = s \o SubSeq(t, 1, m) /\ rest = SubSeq(t, m + 1, Len(t))
        BY <1>4, <2>1, ReceivedTyped
  <2>3. request = ReadRequest(c, bytes) /\ inbox' = [inbox EXCEPT ![c] = rest]
        BY <1>4, <2>1, <2>2 DEF Received, Receive
  <2>4. OperationTyped(request.next, asked[c]) /\ request.left \in Seq(0..L)
        BY <1>3, <2>3, ConnectionHolds, ReadRequestTyped
  <2>5. Install([op EXCEPT ![i] = request.next]) /\ phase' = phase
        BY <1>4 DEF Replace, Processed
  <2>6. QED
        BY <1>1, <1>2, <1>3, <1>4, <2>3, <2>4, <2>5, ConnectionHolds, OperationStep
<1>5. ASSUME NEW j \in Ids, Owner(j) = c, NEW next, OperationTyped(next, asked[c]),
             Install([op EXCEPT ![j] = next]), phase' = phase, UNCHANGED inbox,
             NEW left \in Seq(0..L), buffer' = [buffer EXCEPT ![c] = left]
      PROVE  TypesInv'
  <2>1. inbox' = [inbox EXCEPT ![c] = inbox[c]]
        BY <1>5, ConnectionHolds
  <2>2. QED
        BY <1>2, <1>3, <1>5, <2>1, ConnectionHolds, OperationStep
<1>6. CASE Replace(i, Nothing) /\ UNCHANGED <<inbox, buffer>>
  <2>1. OperationTyped(Nothing, asked[c])
    <3>1. 0 \in 0..Len(asked[c]) /\ 0 \in Nat
          BY ConnectionHolds
    <3>2. QED
          BY <3>1 DEF Nothing, Operation, OperationTyped, OperationOf
  <2>2. buffer[c] \in Seq(0..L) /\ buffer' = [buffer EXCEPT ![c] = buffer[c]]
        BY <1>3, <1>6, ConnectionHolds
  <2>3. QED
        BY <1>1, <1>5, <1>6, <2>1, <2>2 DEF Replace, Processed
<1>7. ASSUME NEW request, request = ReadRequest(c, buffer[c]), UNCHANGED inbox,
             buffer' = [buffer EXCEPT ![c] = request.left], KeepAndAdd(i, request.next)
      PROVE  TypesInv'
  <2>1. OperationTyped(request.next, asked[c]) /\ request.left \in Seq(0..L)
        BY <1>3, <1>7, ConnectionHolds, ReadRequestTyped
  <2>2. PICK j \in Ids : Owner(j) = Owner(i) /\ Install([op EXCEPT ![j] = request.next])
        BY <1>7 DEF KeepAndAdd
  <2>3. phase' = phase
        BY <1>7 DEF KeepAndAdd, Processed
  <2>4. QED
        BY <1>1, <1>5, <1>7, <2>1, <2>2, <2>3
<1>8. QED
    BY <1>1, <1>4, <1>6, <1>7 DEF NotifyRead

\* A file that is read.
LEMMA NotifyFileTyped ==
  ASSUME HeldInv, TypesInv, NEW i \in ready \ {Listener}, NotifyFile(i)
  PROVE  TypesInv'
<1>1. PICK c \in Conns : c = Owner(i) /\ i \in Ids
    BY DEF HeldInv, EveryPollableHeldOnce, Ids, Owner
<1>2. op[i].kind \in {"htaccess", "contents", "write"} /\ OperationTyped(op[i], asked[c])
    BY <1>1 DEF NotifyFile, TypesInv
<1>3. PICK moved \in Nat : moved = op[i].moved /\ moved + 1 \in Nat
    BY <1>2 DEF OperationTyped, OperationOf
<1>4. PICK more \in Nat : more = moved + 1
    BY <1>3
<1>5. OperationTyped([op[i] EXCEPT !.moved = more], asked[c])
    BY <1>2 DEF OperationTyped, OperationOf
<1>6. OperationTyped(FileCallback(i), asked[c])
    BY <1>1, <1>2, ConnectionHolds, CallbackTyped
<1>7. PICK next : /\ Install([op EXCEPT ![i] = next]) /\ phase' = phase
                  /\ OperationTyped(next, asked[c])
  <2>1. Keep(i, [op[i] EXCEPT !.moved = more]) \/ Replace(i, FileCallback(i)) \/ Keep(i, op[i])
        BY <1>3, <1>4 DEF NotifyFile
  <2>2. QED
        BY <1>2, <1>5, <1>6, <2>1 DEF Keep, Replace, Processed
<1>8. /\ UNCHANGED clientVars /\ conn' \in [Conns -> {"away", "backlog", "accepted"}]
      /\ inbox' = [inbox EXCEPT ![c] = inbox[c]] /\ buffer' = [buffer EXCEPT ![c] = buffer[c]]
      /\ wire' = [wire EXCEPT ![c] = wire[c]]
    BY ConnectionHolds DEF NotifyFile
<1>9. QED
    BY <1>1, <1>7, <1>8, ConnectionHolds, OperationStep

\* A response that is written.
LEMMA NotifyWriteTyped ==
  ASSUME HeldInv, TypesInv, NEW i \in ready \ {Listener}, NotifyWrite(i)
  PROVE  TypesInv'
<1>1. PICK c \in Conns : c = Owner(i) /\ i \in Ids
    BY DEF HeldInv, EveryPollableHeldOnce, Ids, Owner
<1>2. /\ op[i].kind = "write" /\ op[i].kind \in {"htaccess", "contents", "write"}
      /\ OperationTyped(op[i], asked[c]) /\ UNCHANGED <<conn, clientVars, inbox>>
    BY <1>1 DEF NotifyWrite, TypesInv
<1>3. PICK n \in 1..MaxRequests : n = op[i].request
    BY <1>1, <1>2, ConnectionHolds, ConnectionsAssumption DEF OperationTyped, OperationOf
<1>4. PICK status \in Statuses, moved \in Nat, size \in Nat :
        status = op[i].status /\ moved = op[i].moved /\ size = op[i].size
    BY <1>2 DEF OperationTyped, OperationOf
<1>5. PICK next : \E left \in Seq(0..Len(asked[c])), sent \in Seq(AnyPart(Statuses)) :
        /\ Install([op EXCEPT ![i] = next]) /\ phase' = phase /\ OperationTyped(next, asked[c])
        /\ buffer' = [buffer EXCEPT ![c] = left] /\ wire' = [wire EXCEPT ![c] = sent]
  <2>1. ASSUME WriteDone(i), NEW sent \in Seq(AnyPart(Statuses)), wire' = [wire EXCEPT ![c] = sent]
        PROVE  \E next : \E left \in Seq(0..Len(asked[c])) :
                 /\ Install([op EXCEPT ![i] = next]) /\ phase' = phase
                 /\ OperationTyped(next, asked[c]) /\ buffer' = [buffer EXCEPT ![c] = left]
    <3>1. PICK request : request = AfterWrite(c, op[i].request)
          OBVIOUS
    <3>2. OperationTyped(request.next, asked[c]) /\ request.left \in Seq(0..Len(asked[c]))
          BY <1>1, <1>2, <3>1, ConnectionHolds, CallbackTyped
    <3>3. PICK left \in Seq(0..Len(asked[c])) : left = request.left
          BY <3>2
    <3>4. /\ buffer' = [buffer EXCEPT ![c] = left] /\ phase' = phase
          /\ Install([op EXCEPT ![i] = request.next])
          BY <1>1, <2>1, <3>1, <3>3 DEF WriteDone, Replace, Processed
    <3>5. QED
          BY <3>2, <3>4, Zenon
  <2>2. CASE WriteDone(i) /\ UNCHANGED wire
    <3>1. wire[c] \in Seq(AnyPart(Statuses)) /\ wire' = [wire EXCEPT ![c] = wire[c]]
          BY <2>2, ConnectionHolds
    <3>2. QED
          BY <2>1, <2>2, <3>1
  <2>3. CASE Send(i)
    <3>1. PICK m \in (IF "spurious" \in Faults THEN 0 ELSE 1)..(size - moved) :
            /\ Transmit(c, n, status, moved + 1, moved + m)
            /\ IF moved + m = size THEN WriteDone(i)
               ELSE Keep(i, [op[i] EXCEPT !.moved = @ + m]) /\ UNCHANGED buffer
          BY <1>1, <1>3, <1>4, <2>3 DEF Send
    <3>2. PICK to \in Nat : m \in Nat /\ to = moved + m
          BY <3>1
    <3>3. PICK sent \in Seq(AnyPart(Statuses)) :
            sent = wire[c] \o Parts(n, status, moved + 1, moved + m)
          BY <3>2, ConnectionHolds, SentTyped
    <3>4. wire' = [wire EXCEPT ![c] = sent]
          BY <3>1, <3>3 DEF Transmit
    <3>5. CASE WriteDone(i)
          BY <2>1, <3>4, <3>5
    <3>6. CASE Keep(i, [op[i] EXCEPT !.moved = @ + m]) /\ UNCHANGED buffer
      <4>1. PICK next : next = [op[i] EXCEPT !.moved = to]
            OBVIOUS
      <4>2. OperationTyped(next, asked[c])
            BY <1>2, <4>1 DEF OperationTyped, OperationOf
      <4>3. Install([op EXCEPT ![i] = next]) /\ phase' = phase
            BY <1>4, <3>2, <3>6, <4>1 DEF Keep, Processed
      <4>4. PICK left \in Seq(0..Len(asked[c])) : left = buffer[c]
            BY ConnectionHolds
      <4>5. buffer' = [buffer EXCEPT ![c] = left]
            BY <3>6, <4>4, ConnectionHolds
      <4>6. QED
            BY <3>4, <4>2, <4>3, <4>5, Zenon
    <3>7. QED
          BY <3>1, <3>5, <3>6
  <2>4. QED
        BY <2>2, <2>3 DEF NotifyWrite
<1>6. /\ UNCHANGED clientVars /\ conn' \in [Conns -> {"away", "backlog", "accepted"}]
      /\ inbox' = [inbox EXCEPT ![c] = inbox[c]]
    BY <1>2, ConnectionHolds
<1>7. QED
    BY <1>1, <1>5, <1>6, ConnectionHolds, OperationStep

-----------------------------------------------------------------------------
(* The types: the steps and the theorem.                                   *)

\* The operations only end, or their deadlines pass.
OperationsEnd ==
  \A i \in Ids : op'[i] \in {op[i], Nothing, [op[i] EXCEPT !.late = TRUE]}

\* A step that only ends operations leaves the connections' types to themselves.
LEMMA EndingTyped ==
  ASSUME TypesInv, OperationsEnd, phase' \in {"poll", "serve", "exited", "killed"},
         closed' \in SUBSET Conns, UNCHANGED <<conn, clientVars, inbox, buffer, wire>>
  PROVE  TypesInv'
<1>1. ConnectionsInv(Statuses)'
    BY DEF TypesInv, ConnectionsInv, ConnectionsTypeOK, clientVars, Symbols
<1>2. ASSUME NEW i \in Ids PROVE OperationTyped(op[i], asked[Owner(i)])'
  <2>1. PICK c \in Conns : c = Owner(i)
        BY DEF Ids, Owner
  <2>2. OperationTyped(op[i], asked[c]) /\ asked[c]' = asked[c]
        BY <2>1 DEF TypesInv, clientVars
  <2>3. OperationTyped(Nothing, asked[c])
    <3>1. 0 \in 0..Len(asked[c]) /\ 0 \in Nat
          BY <2>1, ConnectionHolds
    <3>2. QED
          BY <3>1 DEF Nothing, Operation, OperationTyped, OperationOf
  <2>4. OperationTyped([op[i] EXCEPT !.late = TRUE], asked[c])
        BY <2>2 DEF OperationTyped, OperationOf
  <2>5. QED
        BY <2>1, <2>2, <2>3, <2>4 DEF OperationsEnd
<1>3. QED
    BY <1>1, <1>2 DEF TypesInv

\* The loop's own steps, the end of the process, and the clock.
LEMMA LoopTyped ==
  ASSUME HeldInv, TypesInv,
         AcceptFails \/ Poll \/ EndPass \/ Killed \/ (\E i \in Ids : DeadlinePasses(i))
         \/ UNCHANGED vars
  PROVE  TypesInv'
<1>1. phase \in {"poll", "serve", "exited", "killed"} /\ closed \in SUBSET Conns
    BY DEF TypesInv, ConnectionsInv, ConnectionsTypeOK
<1>2. CASE AcceptFails
    BY <1>1, <1>2, EndingTyped DEF AcceptFails, Processed, connVars, clientVars, OperationsEnd
<1>3. CASE Poll
    BY <1>1, <1>3, EndingTyped DEF Poll, connVars, clientVars, OperationsEnd
<1>4. CASE EndPass
  <2>1. OperationsEnd
        BY <1>4 DEF EndPass, Install, OperationsEnd
  <2>2. closed' \in SUBSET Conns
        BY <1>1, <1>4 DEF EndPass, Install
  <2>3. phase' \in {"poll", "serve", "exited", "killed"}
        BY <1>4 DEF EndPass
  <2>4. QED
        BY <1>4, <2>1, <2>2, <2>3, EndingTyped DEF EndPass
<1>5. CASE Killed
    BY <1>1, <1>5, EndingTyped DEF Killed, OperationsEnd
<1>6. CASE \E i \in Ids : DeadlinePasses(i)
  <2>1. OperationsEnd
        BY <1>6 DEF DeadlinePasses, OperationsEnd, HeldInv, Shape
  <2>2. QED
        BY <1>1, <1>6, <2>1, EndingTyped DEF DeadlinePasses, connVars, clientVars
<1>7. CASE UNCHANGED vars
    BY <1>1, <1>7, EndingTyped DEF vars, loopVars, connVars, clientVars, OperationsEnd
<1>8. QED
    BY <1>2, <1>3, <1>4, <1>5, <1>6, <1>7

\* A connection that is accepted.
LEMMA NotifyListenerTyped ==
  ASSUME HeldInv, TypesInv, NotifyListener
  PROVE  TypesInv'
<1>1. PICK c \in Conns :
        /\ conn' = [conn EXCEPT ![c] = "accepted"]
        /\ Install([op EXCEPT ![<<c, 1>>] = ReadRequest(c, buffer[c]).next])
    BY DEF NotifyListener
<1>j. <<c, 1>> \in Ids /\ Owner(<<c, 1>>) = c
    BY AsyncAssumption DEF Ids, Owner
<1>2. PICK j \in Ids : j = <<c, 1>> /\ Owner(j) = c
    BY <1>j, Zenon
<1>3. PICK next : next = ReadRequest(c, buffer[c]).next
    OBVIOUS
<1>4. OperationTyped(next, asked[c])
    BY <1>3, ConnectionHolds, ReadRequestTyped
<1>5. Install([op EXCEPT ![j] = next]) /\ phase' = phase
    BY <1>1, <1>2, <1>3 DEF NotifyListener, Processed
<1>6. conn' \in [Conns -> {"away", "backlog", "accepted"}]
    BY <1>1, ConnectionHolds
<1>7. /\ UNCHANGED clientVars /\ inbox' = [inbox EXCEPT ![c] = inbox[c]]
      /\ buffer' = [buffer EXCEPT ![c] = buffer[c]] /\ wire' = [wire EXCEPT ![c] = wire[c]]
    BY ConnectionHolds DEF NotifyListener
<1>8. QED
    BY <1>2, <1>4, <1>5, <1>6, <1>7, ConnectionHolds, OperationStep

\* A client that sends more only raises the number a request may have.
LEMMA ClientsTyped ==
  ASSUME TypesInv, NEW c \in Conns, Client(c), UNCHANGED loopVars
  PROVE  TypesInv'
<1>1. ConnectionsInv(Statuses)' /\ \A d \in Conns : Len(asked[d]) <= Len(asked'[d])
    BY ClientTyped DEF TypesInv
<1>2. ASSUME NEW i \in Ids PROVE OperationTyped(op[i], asked[Owner(i)])'
  <2>1. PICK d \in Conns : d = Owner(i)
        BY DEF Ids, Owner
  <2>2. PICK L \in Nat, M \in Nat : L = Len(asked[d]) /\ M = Len(asked'[d]) /\ L <= M
    <3>1. asked[d] \in Seq(Requests) /\ asked'[d] \in Seq(Requests)
          BY <1>1 DEF TypesInv, ConnectionsInv, ConnectionsTypeOK
    <3>2. QED
          BY <1>1, <3>1
  <2>3. OperationTyped(op[i], asked[d]) /\ op' = op
        BY <2>1 DEF TypesInv, loopVars
  <2>4. 0..L \subseteq 0..M
        BY <2>2
  <2>5. QED
        BY <2>1, <2>2, <2>3, <2>4 DEF OperationTyped, OperationOf
<1>3. phase' = phase
    BY DEF loopVars
<1>4. QED
    BY <1>1, <1>2, <1>3 DEF TypesInv

\* No operation exists at first, nor any request.
LEMMA InitTyped == Init => TypesInv
<1> SUFFICES ASSUME Init PROVE TypesInv
    OBVIOUS
<1>1. ConnectionsInv(Statuses)
    BY InitConnections DEF Init
<1>2. ASSUME NEW i \in Ids PROVE OperationTyped(op[i], asked[Owner(i)])
  <2>1. op[i] = Nothing /\ asked[Owner(i)] = <<>>
        BY DEF Init, ConnectionsInit, Ids, Owner
  <2>2. 0 \in 0..Len(<<>>) /\ 0 \in Nat
        OBVIOUS
  <2>3. QED
        BY <2>1, <2>2 DEF Nothing, Operation, OperationTyped, OperationOf
<1>3. QED
    BY <1>1, <1>2 DEF TypesInv, Init

\* Every step keeps the types.
LEMMA NextTyped == HeldInv /\ TypesInv /\ [Next]_vars => TypesInv'
<1> SUFFICES ASSUME HeldInv, TypesInv, [Next]_vars PROVE TypesInv'
    OBVIOUS
<1>1. ASSUME NEW i \in ready \ {Listener}, NotifyRead(i) \/ NotifyFile(i) \/ NotifyWrite(i)
      PROVE  TypesInv'
    BY <1>1, NotifyReadTyped, NotifyFileTyped, NotifyWriteTyped
<1>2. CASE NotifyListener
    BY <1>2, NotifyListenerTyped
<1>3. CASE Poll \/ AcceptFails \/ EndPass \/ UNCHANGED vars
    BY <1>3, LoopTyped
<1>4. CASE Exit \/ PollFails \/ Sigpipe
  <2>1. Killed
        BY <1>4 DEF Exit, PollFails, Sigpipe
  <2>2. QED
        BY <2>1, LoopTyped
<1>5. ASSUME NEW i \in Ids, DeadlinePasses(i) PROVE TypesInv'
    BY <1>5, LoopTyped
<1>6. ASSUME NEW c \in Conns, Client(c), UNCHANGED loopVars PROVE TypesInv'
    BY <1>6, ClientsTyped
<1>7. QED
    BY <1>1, <1>2, <1>3, <1>4, <1>5, <1>6 DEF Next, LoopStep, Notify

\* The state keeps its type under all faults, poll() being wrong included: an
\* operation is for a request that its client has sent and writes one of the
\* server's statuses, and every symbol in the buffer, past all the cuts of
\* read_until, still names a request sent (async_connection.cpp:108-163,
\* async_event_loop.cpp:46-100).
THEOREM TypesHold == Spec => []TypeOK
<1>1. HeldInv /\ TypesInv => TypeOK
  <2> SUFFICES ASSUME HeldInv, TypesInv PROVE TypeOK
      OBVIOUS
  <2>1. ASSUME NEW i \in Ids PROVE op[i] \in OperationType
    <3>1. PICK c \in Conns : c = Owner(i)
          BY DEF Ids, Owner
    <3>2. PICK L \in Nat : L = Len(asked[c]) /\ L <= MaxRequests
          BY ConnectionHolds
    <3>3. 0..L \subseteq 0..MaxRequests
          BY <3>2, ConnectionsAssumption
    <3>4. op[i] \in OperationOf(asked[c])
          BY <3>1 DEF TypesInv, OperationTyped
    <3>5. QED
          BY <3>2, <3>3, <3>4 DEF OperationOf, OperationType
  <2>2. op \in [Ids -> OperationType]
        BY <2>1 DEF HeldInv, Shape
  <2>3. /\ pollables \subseteq Ids \cup {Listener} /\ ready \subseteq Ids \cup {Listener}
        /\ skipped \subseteq Ids \cup {Listener}
        BY DEF HeldInv, EveryPollableHeldOnce
  <2>4. QED
        BY <2>2, <2>3 DEF TypeOK, TypesInv, ConnectionsInv
<1>2. QED
    BY <1>1, InitTyped, NextTyped, HeldInvariance, PTL DEF Spec

-----------------------------------------------------------------------------
(* Each answer by itself, whatever goes wrong.                              *)

\* The parts that have been sent of the n-th answer.
Told(out, n) == SentOf(out, n, Len(out))

\* Each part is the next one of the answer its request deserves.
InPlace(p, before, rs) ==
  /\ p.request \in 1..Len(rs) /\ p.status = Answer[rs[p.request]]
  /\ p.part \in 1..Size[p.status] /\ before = 1..(p.part - 1)
AnswersWhole(out, rs) ==
  \A k \in 1..Len(out) : InPlace(out[k], SentOf(out, out[k].request, k - 1), rs)

\* What an operation is for, if told parts have been sent of its request's answer.
ReadStage(o) == o.kind \in {"nothing", "read"} /\ o.request = 0

FileStage(o, rs, told) ==
  /\ o.request \in 1..Len(rs) /\ rs[o.request].form = "valid"
  /\ \/ o.kind = "htaccess" /\ rs[o.request].rules # "none"
     \/ /\ o.kind = "contents" /\ rs[o.request].rules \in {"none", "allows"}
        /\ rs[o.request].file \notin {"absent", "private"}
  /\ o.moved \in 0..FileChunks /\ told = {}

WriteStage(o, rs, told) ==
  /\ o.kind = "write" /\ o.request \in 1..Len(rs)
  /\ o.status = Answer[rs[o.request]] /\ o.status \in Statuses
  /\ o.size = Size[o.status] /\ o.moved \in 0..o.size /\ told = 1..o.moved

Stage(o, rs, told) == ReadStage(o) \/ FileStage(o, rs, told) \/ WriteStage(o, rs, told)

\* k requests of the connection have left the buffer: of the others nothing has
\* been sent, and no operation is for them; no request has two operations.
WholeTo(c, k) ==
  /\ Arrived(buffer[c] \o inbox[c], k, Len(asked[c]))
  /\ \A j \in 1..Len(wire[c]) : wire[c][j].request <= k
  /\ \A i \in Ids : Owner(i) = c =>
       /\ op[i].request <= k /\ Stage(op[i], asked[c], Told(wire[c], op[i].request))
       /\ \A j \in Ids : Owner(j) = c /\ j # i /\ op[i].request # 0 =>
            op[j].request # op[i].request

ConnectionWhole(c) ==
  /\ AnswersWhole(wire[c], asked[c])
  /\ conn[c] # "accepted" => NotServed(c)
  /\ \E k \in 0..Len(asked[c]) : WholeTo(c, k)

WholeInv == \A c \in Conns : ConnectionWhole(c)
-----------------------------------------------------------------------------
(* The parts of an answer.                                                  *)

\* Of the parts that are there, none is lost or moved when more are sent.
Agree(sent, out, k) == k \in Nat /\ \A j \in 1..k : sent[j] = out[j]
LEMMA SentOfPrefix ==
  ASSUME NEW out, NEW sent, NEW k, Agree(sent, out, k), NEW n
  PROVE  SentOf(sent, n, k) = SentOf(out, n, k)
<1>1. {j \in 1..k : sent[j].request = n} = {j \in 1..k : out[j].request = n}
    BY DEF Agree
<1>2. \A j \in {j \in 1..k : out[j].request = n} : sent[j].part = out[j].part
    BY DEF Agree
<1>3. QED
    BY <1>1, <1>2 DEF SentOf

\* The next part of an answer is one more of its parts, and none of any other's.
LEMMA SentOfNext ==
  ASSUME NEW sent, NEW k \in Nat, NEW n
  PROVE  SentOf(sent, n, k + 1) =
           SentOf(sent, n, k) \cup (IF sent[k + 1].request = n THEN {sent[k + 1].part} ELSE {})
<1>1. 1..(k + 1) = 1..k \cup {k + 1}
    OBVIOUS
<1>2. PICK next : next = k + 1
    OBVIOUS
<1>3. {j \in 1..next : sent[j].request = n} =
        {j \in 1..k : sent[j].request = n} \cup (IF sent[next].request = n THEN {next} ELSE {})
    BY <1>1, <1>2
<1>4. QED
    BY <1>2, <1>3 DEF SentOf

\* What Parts adds to what has been sent.
Sends(sent, out, n, status, from, m) ==
  /\ Len(sent) = Len(out) + m /\ \A j \in 1..Len(out) : sent[j] = out[j]
  /\ \A i \in 1..m : sent[Len(out) + i] = [request |-> n, status |-> status, part |-> from + i]

\* send() takes the next m parts.
Appends(sent, out, n, status, from, m) == sent = out \o Parts(n, status, from + 1, from + m)
LEMMA PartsAppended ==
  ASSUME NEW S, NEW out \in Seq(S), NEW n, NEW status, NEW from \in Nat, NEW m \in Nat,
         NEW sent, Appends(sent, out, n, status, from, m)
  PROVE  Sends(sent, out, n, status, from, m)
<1>1. PICK to \in Nat : to = from + m /\ to - (from + 1) + 1 = m
    OBVIOUS
<1>2. \A i \in 1..m : from + 1 + i - 1 = from + i
    OBVIOUS
<1>3. PICK parts : parts = [i \in 1..m |-> [request |-> n, status |-> status, part |-> from + i]]
    OBVIOUS
<1>4. Parts(n, status, from + 1, to) = parts
    BY <1>1, <1>2, <1>3 DEF Parts
<1>5. PICK T : T = S \cup {parts[i] : i \in 1..m}
    OBVIOUS
<1>6. parts \in Seq(T) /\ Len(parts) = m
  <2>1. parts = [i \in 1..m |-> parts[i]] /\ \A i \in 1..m : parts[i] \in T
        BY <1>3, <1>5
  <2>2. QED
        BY <2>1
<1>7. out \in Seq(T)
    BY <1>5, SeqMonotonic
<1>8. PICK L \in Nat : L = Len(out)
    OBVIOUS
<1>9. /\ Len(out \o parts) = L + m /\ \A j \in 1..L : (out \o parts)[j] = out[j]
      /\ \A i \in 1..m : (out \o parts)[L + i] = parts[i]
  <2>1. \A j \in 1..(L + m) : (out \o parts)[j] = IF j <= L THEN out[j] ELSE parts[j - L]
        BY <1>6, <1>7, <1>8, ConcatProperties
  <2>2. \A i \in 1..m : L + i \in 1..(L + m) /\ ~(L + i <= L) /\ (L + i) - L = i
        BY <1>8
  <2>3. \A j \in 1..L : j \in 1..(L + m) /\ j <= L
        BY <1>8
  <2>4. Len(out \o parts) = L + m
        BY <1>6, <1>7, <1>8
  <2>5. QED
        BY <2>1, <2>2, <2>3, <2>4
<1>10. QED
    BY <1>1, <1>3, <1>4, <1>8, <1>9 DEF Sends, Appends

\* They make its answer longer and leave the others as they are.
ToldTo(out, n, from) == from \in Nat /\ Len(out) \in Nat /\ Told(out, n) = 1..from
Longer(sent, out, n, from, m) ==
  \A i \in 0..m : /\ SentOf(sent, n, Len(out) + i) = 1..(from + i)
                  /\ \A l : l # n => SentOf(sent, l, Len(out) + i) = Told(out, l)
LEMMA MoreToldAt ==
  ASSUME NEW out, NEW sent, NEW n, NEW status, NEW from, NEW m \in Nat,
         ToldTo(out, n, from), Sends(sent, out, n, status, from, m)
  PROVE  Longer(sent, out, n, from, m)
<1> from \in Nat /\ Len(out) \in Nat /\ Told(out, n) = 1..from
    BY DEF ToldTo
<1> PICK L \in Nat : L = Len(out)
    OBVIOUS
<1> DEFINE Q(i) == /\ SentOf(sent, n, L + i) = 1..(from + i)
                   /\ \A l : l # n => SentOf(sent, l, L + i) = Told(out, l)
           good == {i \in Nat : i <= m => Q(i)}
<1>1. Q(0)
  <2>1. Agree(sent, out, L)
        BY DEF Sends, Agree
  <2>2. \A l : SentOf(sent, l, L) = Told(out, l)
        BY <2>1, SentOfPrefix DEF Told
  <2>3. QED
        BY <2>2
<1>2. ASSUME NEW i \in Nat, i + 1 <= m, Q(i) PROVE Q(i + 1)
  <2>1. PICK k \in Nat : k = L + i /\ k + 1 = L + (i + 1)
        OBVIOUS
  <2>2. PICK p : p = sent[k + 1] /\ p.request = n /\ p.part = from + (i + 1)
    <3>1. sent[L + (i + 1)] = [request |-> n, status |-> status, part |-> from + (i + 1)]
          BY <1>2 DEF Sends
    <3>2. QED
          BY <2>1, <3>1
  <2>3. SentOf(sent, n, k + 1) = 1..(from + i) \cup {from + (i + 1)}
    <3>1. SentOf(sent, n, k) = 1..(from + i)
          BY <1>2, <2>1
    <3>2. SentOf(sent, n, k + 1) = SentOf(sent, n, k) \cup {p.part}
          BY <2>2, SentOfNext
    <3>3. QED
          BY <2>2, <3>1, <3>2
  <2>4. 1..(from + i) \cup {from + (i + 1)} = 1..(from + (i + 1))
        OBVIOUS
  <2>5. ASSUME NEW l, l # n PROVE SentOf(sent, l, k + 1) = Told(out, l)
    <3>1. SentOf(sent, l, k + 1) = SentOf(sent, l, k) \cup {}
          BY <2>2, <2>5, SentOfNext
    <3>2. SentOf(sent, l, k) = Told(out, l)
          BY <1>2, <2>1, <2>5
    <3>3. QED
          BY <3>1, <3>2
  <2>6. QED
        BY <2>1, <2>3, <2>4, <2>5
<1>3. Nat \subseteq good
  <2>1. 0 \in good
        BY <1>1
  <2>2. \A i \in good : i + 1 \in good
    <3>1. SUFFICES ASSUME NEW i \in Nat, i \in good, i + 1 <= m PROVE Q(i + 1)
          OBVIOUS
    <3>2. i <= m
          BY <3>1
    <3>3. QED
          BY <1>2, <3>1, <3>2
  <2> HIDE DEF good
  <2>3. QED
        BY <2>1, <2>2, NatSetInduction
<1>4. \A i \in 0..m : i \in Nat /\ i <= m
    OBVIOUS
<1>5. \A i \in 0..m : Q(i)
    BY <1>3, <1>4
<1> HIDE DEF Q
<1>6. QED
  <2> USE DEF Q
  <2> QED
      BY <1>5 DEF Longer

\* So every part that has been sent is still in its place, and so are the new ones.
Fits(rs, n, status, from, m) ==
  n \in 1..Len(rs) /\ status = Answer[rs[n]] /\ Size[status] \in Nat /\ from + m <= Size[status]
LEMMA AnswersGrow ==
  ASSUME NEW rs \in Seq(Requests), NEW n, NEW status, NEW out, NEW sent, NEW from, NEW m \in Nat,
         Fits(rs, n, status, from, m), ToldTo(out, n, from), AnswersWhole(out, rs),
         Sends(sent, out, n, status, from, m)
  PROVE  /\ AnswersWhole(sent, rs) /\ Told(sent, n) = 1..(from + m)
         /\ \A l : l # n => Told(sent, l) = Told(out, l)
<1>f. from \in Nat /\ n \in 1..Len(rs) /\ status = Answer[rs[n]] /\ Told(out, n) = 1..from
    BY DEF Fits, ToldTo
<1>l. PICK L \in Nat : L = Len(out)
    BY DEF ToldTo
<1>s. PICK size \in Nat : size = Size[status] /\ from + m <= size
    BY DEF Fits
<1>1. Len(sent) = L + m /\ \A j \in 1..L : sent[j] = out[j]
    BY <1>l DEF Sends
<1>2. \A i \in 0..m : /\ SentOf(sent, n, L + i) = 1..(from + i)
                      /\ \A l : l # n => SentOf(sent, l, L + i) = Told(out, l)
  <2>1. ToldTo(out, n, from)
        BY <1>f, <1>l DEF ToldTo
  <2>2. Longer(sent, out, n, from, m)
        BY <2>1, MoreToldAt
  <2>3. QED
        BY <1>l, <2>2 DEF Longer
<1>3. ASSUME NEW k \in 1..L PROVE InPlace(sent[k], SentOf(sent, sent[k].request, k - 1), rs)
  <2>1. PICK b \in Nat : b = k - 1 /\ \A j \in 1..b : j \in 1..L
        BY <1>l
  <2>2. Agree(sent, out, b)
        BY <1>1, <2>1 DEF Agree
  <2>l. PICK l : l = out[k].request
        OBVIOUS
  <2>s. SentOf(sent, l, b) = SentOf(out, l, b)
        BY <2>2, SentOfPrefix
  <2>3. SentOf(sent, out[k].request, b) = SentOf(out, out[k].request, b)
        BY <2>l, <2>s
  <2>4. InPlace(out[k], SentOf(out, out[k].request, b), rs)
        BY <1>l, <2>1 DEF AnswersWhole
  <2>5. QED
        BY <1>1, <2>1, <2>3, <2>4
<1>4. ASSUME NEW k \in (L + 1)..(L + m)
      PROVE  InPlace(sent[k], SentOf(sent, sent[k].request, k - 1), rs)
  <2>1. PICK i \in 1..m : i = k - L /\ k = L + i
    <3>1. k - L \in 1..m /\ k = L + (k - L)
          BY <1>4, <1>l
    <3>2. QED
          BY <3>1
  <2>2. PICK p : p = sent[k] /\ p.request = n /\ p.status = status /\ p.part = from + i
    <3>1. sent[L + i] = [request |-> n, status |-> status, part |-> from + i]
          BY <1>l DEF Sends
    <3>2. QED
          BY <2>1, <3>1
  <2>b. i - 1 \in 0..m /\ k - 1 = L + (i - 1)
        BY <1>l, <2>1
  <2>3. PICK b \in 0..m : b = i - 1 /\ k - 1 = L + b
        BY <2>b
  <2>4. SentOf(sent, n, L + b) = 1..(from + b)
        BY <1>2
  <2>5. from + b = from + i - 1 /\ from + i \in 1..size
        BY <1>f, <1>s, <2>3
  <2>6. SentOf(sent, n, k - 1) = 1..(p.part - 1)
    <3>1. from + b = p.part - 1
          BY <1>f, <2>1, <2>2, <2>3
    <3>2. SentOf(sent, n, k - 1) = 1..(from + b)
          BY <2>3, <2>4
    <3>3. QED
          BY <3>1, <3>2
  <2>7. QED
        BY <1>f, <1>s, <2>2, <2>5, <2>6 DEF InPlace
<1>5. AnswersWhole(sent, rs)
  <2>1. \A k \in 1..(L + m) : k \in 1..L \/ k \in (L + 1)..(L + m)
        BY <1>l
  <2>2. QED
        BY <1>1, <1>3, <1>4, <2>1 DEF AnswersWhole
<1>6. Told(sent, n) = 1..(from + m) /\ \A l : l # n => Told(sent, l) = Told(out, l)
  <2>1. m \in 0..m
        OBVIOUS
  <2>2. QED
        BY <1>1, <1>2, <2>1 DEF Told
<1>7. QED
    BY <1>5, <1>6

\* Nothing has been told of a request beyond those that have been.
LEMMA NothingTold ==
  ASSUME NEW out, NEW k \in Nat, NEW n \in Nat, n > k,
         \A j \in 1..Len(out) : out[j].request \in Nat /\ out[j].request <= k
  PROVE  Told(out, n) = {}
<1>1. {j \in 1..Len(out) : out[j].request = n} = {}
    OBVIOUS
<1>2. QED
    BY <1>1 DEF Told, SentOf

\* A further request changes nothing for those before it.
LEMMA WholeMore ==
  ASSUME NEW rs, NEW more, OneMore(more, rs), Len(rs) \in Nat
  PROVE  /\ \A out : AnswersWhole(out, rs) => AnswersWhole(out, more)
         /\ \A o, told : Stage(o, rs, told) => Stage(o, more, told)
<1>1. \A n \in 1..Len(rs) : n \in 1..Len(more) /\ more[n] = rs[n]
    BY DEF OneMore
<1>2. \A p, before : InPlace(p, before, rs) => InPlace(p, before, more)
    BY <1>1 DEF InPlace
<1>3. \A o, told : Stage(o, rs, told) => Stage(o, more, told)
    BY <1>1 DEF Stage, FileStage, WriteStage
<1>4. QED
    BY <1>2, <1>3 DEF AnswersWhole

-----------------------------------------------------------------------------
(* What the callbacks return for a request of which nothing has been sent.  *)

\* A response begins.
LEMMA WriteBegins ==
  ASSUME NEW rs, NEW n \in 1..Len(rs), Answer[rs[n]] \in Statuses
  PROVE  /\ Write(n, Answer[rs[n]]).request = n
         /\ Stage(Write(n, Answer[rs[n]]), rs, {})
<1>1. PICK status \in Statuses : status = Answer[rs[n]]
    OBVIOUS
<1>2. PICK w : w = Write(n, status)
    OBVIOUS
<1>3. /\ w.kind = "write" /\ w.request = n /\ w.status = status
      /\ w.size = Size[status] /\ w.moved = 0
    BY <1>2 DEF Write, Operation
<1>4. 0 \in 0..Size[status]
    BY SizeIs
<1>5. 1..0 = {}
    OBVIOUS
<1>6. QED
    BY <1>1, <1>2, <1>3, <1>4, <1>5 DEF Stage, WriteStage

\* A file is going to be read.
LEMMA FileBegins ==
  ASSUME NEW rs, NEW n \in 1..Len(rs), rs[n].form = "valid", NEW purpose,
         \/ purpose = "htaccess" /\ rs[n].rules # "none"
         \/ /\ purpose = "contents" /\ rs[n].rules \in {"none", "allows"}
            /\ rs[n].file \notin {"absent", "private"}
  PROVE  FileRead(purpose, n).request = n /\ Stage(FileRead(purpose, n), rs, {})
<1>1. PICK o : o = FileRead(purpose, n)
    OBVIOUS
<1>2. o.kind = purpose /\ o.request = n /\ o.moved = 0
    BY <1>1 DEF FileRead, Operation
<1>3. 0 \in 0..FileChunks
    BY AsyncAssumption
<1>4. QED
    BY <1>1, <1>2, <1>3 DEF Stage, FileStage

\* The file handler answers the request or reads the file it asks for.
LEMMA ServeFileBegins ==
  ASSUME NEW c, asked[c] \in Seq(Requests), NEW n \in 1..Len(asked[c]),
         asked[c][n].form = "valid", asked[c][n].rules \in {"none", "allows"}
  PROVE  ServeFile(c, n).request = n /\ Stage(ServeFile(c, n), asked[c], {})
<1>1. PICK r \in Requests : r = asked[c][n]
    OBVIOUS
<1>2. r \in RequestType /\ Answer[r] = Deserved(r)
    BY RequestIs
<1>3. CASE r.file = "absent"
  <2>1. ServeFile(c, n) = Write(n, "404") /\ Answer[r] = "404" /\ "404" \in Statuses
        BY <1>1, <1>2, <1>3, DeservedIs DEF ServeFile, Statuses
  <2>2. QED
        BY <1>1, <2>1, WriteBegins
<1>4. CASE r.file = "private"
  <2>1. ServeFile(c, n) = Write(n, "403") /\ Answer[r] = "403" /\ "403" \in Statuses
        BY <1>1, <1>2, <1>4, DeservedIs DEF ServeFile, Statuses
  <2>2. QED
        BY <1>1, <2>1, WriteBegins
<1>5. CASE r.file \notin {"absent", "private"}
  <2>1. ServeFile(c, n) = FileRead("contents", n)
        BY <1>1, <1>5 DEF ServeFile
  <2>2. QED
        BY <1>1, <1>5, <2>1, FileBegins
<1>6. QED
    BY <1>3, <1>4, <1>5

\* A request that has left the buffer is answered or looked into.
LEMMA HandleBegins ==
  ASSUME NEW c, asked[c] \in Seq(Requests), NEW n \in 1..Len(asked[c])
  PROVE  HandleRequest(c, n).request = n /\ Stage(HandleRequest(c, n), asked[c], {})
<1>1. PICK r \in Requests : r = asked[c][n]
    OBVIOUS
<1>2. r \in RequestType /\ Answer[r] = Deserved(r) /\ r.form \in Forms
    BY RequestIs DEF RequestType
<1>3. CASE r.form \in {"malformed", "nohost"}
  <2>1. HandleRequest(c, n) = Write(n, "400") /\ Answer[r] = "400" /\ "400" \in Statuses
        BY <1>1, <1>2, <1>3, DeservedIs DEF HandleRequest, Statuses
  <2>2. QED
        BY <1>1, <2>1, WriteBegins
<1>4. CASE r.form = "throws"
  <2>1. HandleRequest(c, n) = Write(n, "500") /\ Answer[r] = "500" /\ "500" \in Statuses
        BY <1>1, <1>2, <1>4, DeservedIs DEF HandleRequest, Statuses
  <2>2. QED
        BY <1>1, <2>1, WriteBegins
<1>5. CASE r.form = "valid" /\ r.rules = "none"
  <2>1. HandleRequest(c, n) = ServeFile(c, n)
        BY <1>1, <1>5 DEF HandleRequest, AllowRequest
  <2>2. QED
        BY <1>1, <1>5, <2>1, ServeFileBegins
<1>6. CASE r.form = "valid" /\ r.rules # "none"
  <2>1. HandleRequest(c, n) = FileRead("htaccess", n)
        BY <1>1, <1>6 DEF HandleRequest, AllowRequest
  <2>2. QED
        BY <1>1, <1>6, <2>1, FileBegins
<1>7. QED
    BY <1>2, <1>3, <1>4, <1>5, <1>6 DEF Forms

\* What read_until returns: a read, or an operation for the first complete request.
Begins(o, rs, k, n) ==
  \/ n = k /\ ReadStage(o)
  \/ n = k + 1 /\ o.request = n /\ Stage(o, rs, {})
GoesOn(o, rs, left, rest, k) ==
  left \in Seq(Nat) /\ \E n \in 0..Len(rs) : Arrived(left \o rest, n, Len(rs)) /\ Begins(o, rs, k, n)

LEMMA ReadRequestBegins ==
  ASSUME NEW c, asked[c] \in Seq(Requests), NEW bytes \in Seq(Nat), NEW rest \in Seq(Nat), NEW k,
         Arrived(bytes \o rest, k, Len(asked[c]))
  PROVE  GoesOn(ReadRequest(c, bytes).next, asked[c], ReadRequest(c, bytes).left, rest, k)
<1>1. PICK rs \in Seq(Requests) : rs = asked[c]
    OBVIOUS
<1>2. Len(rs) \in Nat /\ k \in 0..Len(rs)
    BY <1>1 DEF Arrived
<1>3. PICK r : r = ReadRequest(c, bytes)
    OBVIOUS
<1>4. CASE FirstEnd(bytes) = 0
  <2>1. r.next = Read /\ r.left = bytes
        BY <1>3, <1>4 DEF ReadRequest
  <2>2. ReadStage(r.next)
        BY <2>1 DEF ReadStage, Read, Operation
  <2>3. QED
        BY <1>1, <1>2, <1>3, <2>1, <2>2 DEF GoesOn, Begins
<1>5. CASE FirstEnd(bytes) # 0
  <2>1. /\ bytes[FirstEnd(bytes)] = k + 1 /\ k + 1 \in 1..Len(rs)
        /\ After(bytes, FirstEnd(bytes)) \in Seq(Nat)
        /\ Arrived(After(bytes, FirstEnd(bytes)) \o rest, k + 1, Len(rs))
        BY <1>1, <1>2, <1>5, FirstRequest
  <2>2. PICK n \in 1..Len(rs) : n = k + 1 /\ n \in 0..Len(rs)
        BY <1>2, <2>1
  <2>3. r.next = HandleRequest(c, n) /\ r.left = After(bytes, FirstEnd(bytes))
        BY <1>3, <1>5, <2>1, <2>2 DEF ReadRequest
  <2>4. r.next.request = n /\ Stage(r.next, rs, {})
        BY <1>1, <2>3, HandleBegins
  <2>5. Arrived(r.left \o rest, n, Len(rs)) /\ r.left \in Seq(Nat)
        BY <2>1, <2>2, <2>3
  <2>6. QED
        BY <1>1, <1>3, <2>2, <2>4, <2>5 DEF GoesOn, Begins
<1>6. QED
    BY <1>4, <1>5

\* After a response the connection ends or goes on.
LEMMA AfterWriteBegins ==
  ASSUME NEW c, asked[c] \in Seq(Requests), buffer[c] \in Seq(Nat), NEW rest \in Seq(Nat), NEW k,
         Arrived(buffer[c] \o rest, k, Len(asked[c])), NEW n
  PROVE  GoesOn(AfterWrite(c, n).next, asked[c], AfterWrite(c, n).left, rest, k)
<1>1. CASE asked[c][n].form # "valid" \/ asked[c][n].close
  <2>1. AfterWrite(c, n).next = Nothing /\ AfterWrite(c, n).left = buffer[c]
        BY <1>1 DEF AfterWrite
  <2>2. ReadStage(Nothing)
        BY DEF ReadStage, Nothing, Operation
  <2>3. k \in 0..Len(asked[c])
        BY DEF Arrived
  <2>4. QED
        BY <2>1, <2>2, <2>3 DEF GoesOn, Begins
<1>2. CASE ~(asked[c][n].form # "valid" \/ asked[c][n].close)
  <2>1. AfterWrite(c, n) = ReadRequest(c, buffer[c])
        BY <1>2 DEF AfterWrite
  <2>2. QED
        BY <2>1, ReadRequestBegins
<1>3. QED
    BY <1>1, <1>2

\* When a file has been read, its request is answered, or the next file is read,
\* or the rules could not be parsed.
LEMMA FileCallbackBegins ==
  ASSUME NEW i, NEW c, c = Owner(i), asked[c] \in Seq(Requests), NEW told,
         FileStage(op[i], asked[c], told), FileOf(i) = "regular", ~(op[i].moved < FileChunks)
  PROVE  \/ ReadStage(FileCallback(i))
         \/ FileCallback(i).request = op[i].request /\ Stage(FileCallback(i), asked[c], {})
<1>1. PICK rs \in Seq(Requests) : rs = asked[c]
    OBVIOUS
<1>2. PICK n \in 1..Len(rs) : op[i].request = n
    BY <1>1 DEF FileStage
<1>3. PICK r \in Requests : r = rs[n]
    BY <1>2
<1>4. r \in RequestType /\ Answer[r] = Deserved(r)
    BY RequestIs
<1>5. r.form = "valid" /\ op[i].moved = FileChunks
    BY <1>1, <1>2, <1>3, AsyncAssumption DEF FileStage
<1>6. CASE op[i].kind = "contents"
  <2>1. r.file = "regular" /\ r.rules \in {"none", "allows"}
        BY <1>1, <1>2, <1>3, <1>6 DEF FileOf, FileStage
  <2>2. Answer[r] = "200" /\ "200" \in Statuses
        BY <1>4, <1>5, <2>1, DeservedIs DEF Statuses
  <2>3. FileCallback(i) = Write(n, "200")
        BY <1>2, <1>5, <1>6, SizeIs DEF FileCallback, Write, Operation
  <2>4. QED
        BY <1>1, <1>2, <1>3, <2>2, <2>3, WriteBegins
<1>7. CASE op[i].kind = "htaccess"
  <2>1. r.rules \in {"allows", "denies", "invalid"}
        BY <1>1, <1>2, <1>3, <1>4, <1>7 DEF FileOf, FileStage, RequestType, Rules
  <2>2. CASE r.rules = "allows"
    <3>1. FileCallback(i) = ServeFile(c, n)
          BY <1>1, <1>2, <1>3, <1>7, <2>2 DEF FileCallback
    <3>2. QED
          BY <1>1, <1>2, <1>3, <1>5, <2>2, <3>1, ServeFileBegins
  <2>3. CASE r.rules = "denies"
    <3>1. FileCallback(i) = Write(n, "403")
          BY <1>1, <1>2, <1>3, <1>7, <2>3 DEF FileCallback
    <3>2. Answer[r] = "403" /\ "403" \in Statuses
          BY <1>4, <1>5, <2>3, DeservedIs DEF Statuses
    <3>3. QED
          BY <1>1, <1>2, <1>3, <3>1, <3>2, WriteBegins
  <2>4. CASE r.rules = "invalid"
    <3>1. FileCallback(i) = Nothing
          BY <1>1, <1>2, <1>3, <1>7, <2>4 DEF FileCallback
    <3>2. QED
          BY <3>1 DEF ReadStage, Nothing, Operation
  <2>5. QED
        BY <2>1, <2>2, <2>3, <2>4
<1>8. QED
    BY <1>6, <1>7 DEF FileStage

-----------------------------------------------------------------------------
(* The steps of one connection.                                             *)

\* An operation of the connection c becomes next, when k requests have left its
\* buffer: next is for no request, the same one, or the one that has now left it.
Advances(c, j, next, k) ==
  /\ StepOf(j, next) /\ WholeTo(c, k)
  /\ AnswersWhole(wire'[c], asked[c]) /\ \A x \in 1..Len(wire'[c]) : wire'[c][x].request <= k
  /\ \A l : l # op[j].request => Told(wire'[c], l) = Told(wire[c], l)
  /\ Stage(next, asked[c], Told(wire'[c], next.request))
  /\ \E n \in 0..Len(asked[c]) :
       /\ Arrived(buffer'[c] \o inbox'[c], n, Len(asked[c]))
       /\ \/ n = k /\ next.request \in {0, op[j].request}
          \/ n = k + 1 /\ next.request = n

\* An operation is for one of the requests sent, or for none.
LEMMA StageRequest ==
  ASSUME NEW o, NEW rs, Len(rs) \in Nat, NEW told, Stage(o, rs, told)
  PROVE  o.request \in 0..Len(rs) /\ (o.request = 0 => \A other : Stage(o, rs, other))
BY DEF Stage, ReadStage, FileStage, WriteStage

\* Such a step keeps the connection whole.
LEMMA AdvanceWhole ==
  ASSUME HeldInv, NEW c \in Conns, asked[c] \in Seq(Requests), conn[c] = "accepted",
         NEW j \in Ids, Owner(j) = c, NEW next, NEW k \in 0..Len(asked[c]), Advances(c, j, next, k)
  PROVE  ConnectionWhole(c)'
<1>1. op'[j] = next /\ \A i \in Ids : i # j => op'[i] = op[i]
    BY DEF Advances, StepOf, HeldInv, Shape
<1>2. asked'[c] = asked[c] /\ conn'[c] = "accepted" /\ Len(asked[c]) \in Nat
    BY DEF Advances, StepOf
<1>3. PICK n \in 0..Len(asked[c]) :
        /\ Arrived(buffer'[c] \o inbox'[c], n, Len(asked[c]))
        /\ \/ n = k /\ next.request \in {0, op[j].request}
           \/ n = k + 1 /\ next.request = n
    BY DEF Advances
<1>4. k \in Nat /\ n \in Nat /\ k <= n
    BY <1>2, <1>3
<1>5. ASSUME NEW i \in Ids, Owner(i) = c
      PROVE  /\ op[i].request \in Nat /\ op[i].request <= k
             /\ Stage(op[i], asked[c], Told(wire[c], op[i].request))
             /\ op[i].request = 0 => \A other : Stage(op[i], asked[c], other)
             /\ \A l \in Ids : Owner(l) = c /\ l # i /\ op[i].request # 0 =>
                  op[l].request # op[i].request
  <2>1. /\ op[i].request <= k
        /\ Stage(op[i], asked[c], Told(wire[c], op[i].request))
        /\ \A l \in Ids : Owner(l) = c /\ l # i /\ op[i].request # 0 =>
             op[l].request # op[i].request
        BY <1>5 DEF Advances, WholeTo
  <2>2. QED
        BY <1>2, <2>1, StageRequest
<1>6. next.request \in Nat /\ next.request <= n
    BY <1>3, <1>4, <1>5
<1>7. ASSUME NEW i \in Ids, Owner(i) = c
      PROVE  /\ op'[i].request <= n /\ Stage(op'[i], asked[c], Told(wire'[c], op'[i].request))
             /\ \A l \in Ids : Owner(l) = c /\ l # i /\ op'[i].request # 0 =>
                  op'[l].request # op'[i].request
  <2>1. CASE i = j
    <3>1. Stage(next, asked[c], Told(wire'[c], next.request))
          BY DEF Advances
    <3>2. ASSUME NEW l \in Ids, Owner(l) = c, l # j, next.request # 0
          PROVE  op[l].request # next.request
      <4>1. op[l].request \in Nat /\ op[l].request <= k
            BY <1>5, <3>2
      <4>2. op[j].request # 0 => op[l].request # op[j].request
            BY <1>5, <3>2
      <4>3. QED
            BY <1>3, <1>4, <3>2, <4>1, <4>2
    <3>3. QED
          BY <1>1, <1>6, <2>1, <3>1, <3>2
  <2>2. CASE i # j
    <3>1. op'[i] = op[i] /\ op[i].request \in Nat /\ op[i].request <= k
          BY <1>1, <1>5, <1>7, <2>2
    <3>2. Stage(op[i], asked[c], Told(wire'[c], op[i].request))
      <4>1. CASE op[i].request = 0
            BY <1>5, <1>7, <4>1
      <4>2. CASE op[i].request # 0
        <5>1. op[i].request # op[j].request
              BY <1>5, <1>7, <2>2, <4>2
        <5>2. Told(wire'[c], op[i].request) = Told(wire[c], op[i].request)
              BY <5>1 DEF Advances
        <5>3. QED
              BY <1>5, <1>7, <5>2
      <4>3. QED
            BY <4>1, <4>2
    <3>3. ASSUME NEW l \in Ids, Owner(l) = c, l # i, op[i].request # 0
          PROVE  op'[l].request # op[i].request
      <4>1. op[l].request # op[i].request
            BY <1>5, <1>7, <3>3
      <4>2. CASE l # j
            BY <1>1, <4>1, <4>2
      <4>3. CASE l = j
            BY <1>1, <1>3, <1>4, <3>1, <3>3, <4>1, <4>3
      <4>4. QED
            BY <4>2, <4>3
    <3>4. op[i].request <= n
          BY <1>4, <3>1
    <3>5. QED
          BY <3>1, <3>2, <3>3, <3>4
  <2>3. QED
        BY <2>1, <2>2
<1>8. \A x \in 1..Len(wire'[c]) : wire'[c][x].request <= n
  <2>1. ASSUME NEW x \in 1..Len(wire'[c]) PROVE wire'[c][x].request <= n
    <3>1. wire'[c][x].request <= k /\ wire'[c][x].request \in 1..Len(asked[c])
          BY DEF Advances, AnswersWhole, InPlace
    <3>2. QED
          BY <1>2, <1>4, <3>1
  <2>2. QED
        BY <2>1
<1>9. WholeTo(c, n)'
    BY <1>2, <1>3, <1>7, <1>8 DEF WholeTo
<1>10. AnswersWhole(wire'[c], asked'[c])
    BY <1>2 DEF Advances
<1>11. QED
    BY <1>2, <1>9, <1>10 DEF ConnectionWhole

\* A step that leaves a connection and its operations alone keeps it whole.
LEMMA UntouchedWhole ==
  ASSUME NEW c, ConnectionWhole(c), Untouched(c)
  PROVE  ConnectionWhole(c)'
BY DEF Untouched, ConnectionWhole, WholeTo, NotServed

\* A step of one operation keeps every connection whole if it does its own.
LEMMA StepWhole ==
  ASSUME HeldInv, TypesInv, WholeInv, NEW c \in Conns, conn[c] = "accepted",
         NEW j \in Ids, Owner(j) = c, NEW next, NEW k \in 0..Len(asked[c]), Advances(c, j, next, k)
  PROVE  WholeInv'
<1>1. ConnectionWhole(c)'
    BY ConnectionHolds, AdvanceWhole
<1>2. ASSUME NEW d \in Conns, d # c PROVE ConnectionWhole(d)'
  <2>1. StepOf(j, next) /\ \A i \in Ids : i # j => op'[i] = op[i]
        BY DEF Advances, StepOf, HeldInv, Shape
  <2>2. Untouched(d)
        BY <1>2, <2>1 DEF StepOf, Untouched
  <2>3. QED
        BY <2>2, UntouchedWhole DEF WholeInv
<1>3. QED
    BY <1>1, <1>2 DEF WholeInv

\* What a step sends, on a connection of which k requests have left the buffer.
SendsWhole(c, j, k) ==
  /\ AnswersWhole(wire'[c], asked[c]) /\ \A x \in 1..Len(wire'[c]) : wire'[c][x].request <= k
  /\ \A l : l # op[j].request => Told(wire'[c], l) = Told(wire[c], l)

LEMMA SendsNothing ==
  ASSUME NEW c \in Conns, WholeInv, NEW k, WholeTo(c, k), NEW j, wire'[c] = wire[c]
  PROVE  SendsWhole(c, j, k)
BY DEF WholeInv, ConnectionWhole, WholeTo, SendsWhole

\* The connection goes on with what read_until returns.
LEMMA GoesOnAdvances ==
  ASSUME NEW c \in Conns, asked[c] \in Seq(Requests), NEW j, NEW next, NEW k \in 0..Len(asked[c]),
         StepOf(j, next), WholeTo(c, k), SendsWhole(c, j, k),
         GoesOn(next, asked[c], buffer'[c], inbox'[c], k)
  PROVE  Advances(c, j, next, k)
<1>1. PICK n \in 0..Len(asked[c]) :
        Arrived(buffer'[c] \o inbox'[c], n, Len(asked[c])) /\ Begins(next, asked[c], k, n)
    BY DEF GoesOn
<1>2. CASE n = k /\ ReadStage(next)
    BY <1>1, <1>2 DEF Advances, SendsWhole, ReadStage, Stage
<1>3. CASE n = k + 1 /\ next.request = n /\ Stage(next, asked[c], {})
  <2>1. \A x \in 1..Len(wire'[c]) : wire'[c][x].request \in Nat /\ wire'[c][x].request <= k
        BY DEF SendsWhole, AnswersWhole, InPlace
  <2>2. n \in Nat /\ k \in Nat /\ n > k
        BY <1>3
  <2>3. PICK out : out = wire'[c]
        OBVIOUS
  <2>4. Told(out, n) = {}
        BY <2>1, <2>2, <2>3, NothingTold
  <2>5. Stage(next, asked[c], Told(wire'[c], next.request))
        BY <1>3, <2>3, <2>4
  <2>6. QED
        BY <1>1, <1>3, <2>5 DEF Advances, SendsWhole
<1>4. QED
    BY <1>1, <1>2, <1>3 DEF Begins

\* The operation goes on for the same request, or ends.
LEMMA KeepsAdvances ==
  ASSUME NEW c \in Conns, asked[c] \in Seq(Requests), NEW j, NEW next, NEW k \in 0..Len(asked[c]),
         StepOf(j, next), WholeTo(c, k), SendsWhole(c, j, k),
         Stage(next, asked[c], Told(wire'[c], next.request)), next.request \in {0, op[j].request},
         buffer'[c] = buffer[c], inbox'[c] = inbox[c]
  PROVE  Advances(c, j, next, k)
BY DEF Advances, SendsWhole, WholeTo

\* What a notified pollable finds.
LEMMA ReadyHolds ==
  ASSUME HeldInv, TypesInv, WholeInv, NEW i \in ready \ {Listener}, NEW c, c = Owner(i)
  PROVE  /\ i \in Ids /\ c \in Conns /\ conn[c] = "accepted" /\ asked[c] \in Seq(Requests)
         /\ buffer[c] \in Seq(Nat) /\ inbox[c] \in Seq(Nat)
         /\ \E k \in 0..Len(asked[c]) : WholeTo(c, k)
<1>1. i \in Ids /\ op[i] # Nothing
    BY DEF HeldInv, EveryPollableHeldOnce
<1>2. c \in Conns /\ conn[c] = "accepted"
    BY <1>1 DEF HeldInv, NoneBeforeAccept, Ids, Owner
<1>3. asked[c] \in Seq(Requests) /\ Len(asked[c]) \in Nat
    BY <1>2, ConnectionHolds
<1>4. 0..Len(asked[c]) \subseteq Nat
    BY <1>3
<1>5. \A s \in Seq(0..Len(asked[c])) : s \in Seq(Nat)
    BY <1>4, SeqMonotonic
<1>6. buffer[c] \in Seq(Nat) /\ inbox[c] \in Seq(Nat)
    BY <1>2, <1>5, ConnectionHolds
<1>7. \E k \in 0..Len(asked[c]) : WholeTo(c, k)
    BY <1>2 DEF WholeInv, ConnectionWhole
<1>8. QED
    BY <1>1, <1>2, <1>3, <1>6, <1>7

\* The pollable i, or one that is registered beside it, is replaced.
LEMMA ReplaceIsStep ==
  ASSUME HeldInv, TypesInv, NEW c \in Conns, NEW j \in Ids, Owner(j) = c, NEW next,
         Install([op EXCEPT ![j] = next]), UNCHANGED <<conn, clientVars>>,
         NEW left, buffer' = [buffer EXCEPT ![c] = left],
         NEW rest, inbox' = [inbox EXCEPT ![c] = rest],
         NEW sent, wire' = [wire EXCEPT ![c] = sent]
  PROVE  StepOf(j, next) /\ buffer'[c] = left /\ inbox'[c] = rest /\ wire'[c] = sent
<1>1. /\ buffer = [d \in Conns |-> buffer[d]] /\ inbox = [d \in Conns |-> inbox[d]]
      /\ wire = [d \in Conns |-> wire[d]]
    BY DEF TypesInv, ConnectionsInv, ConnectionsTypeOK
<1>2. \A d \in Conns : d # c => buffer'[d] = buffer[d] /\ inbox'[d] = inbox[d] /\ wire'[d] = wire[d]
    BY <1>1
<1>3. buffer'[c] = left /\ inbox'[c] = rest /\ wire'[c] = sent
    BY <1>1
<1>4. QED
    BY <1>2, <1>3 DEF StepOf, Install, clientVars

\* A read, whether or not there is something to read.
LEMMA NotifyReadWhole ==
  ASSUME HeldInv, TypesInv, WholeInv, NEW i \in ready \ {Listener}, NotifyRead(i)
  PROVE  WholeInv'
<1>1. PICK c : c = Owner(i)
    OBVIOUS
<1>2. /\ i \in Ids /\ c \in Conns /\ conn[c] = "accepted" /\ asked[c] \in Seq(Requests)
      /\ buffer[c] \in Seq(Nat) /\ inbox[c] \in Seq(Nat)
    BY <1>1, ReadyHolds
<1>3. PICK k \in 0..Len(asked[c]) : WholeTo(c, k)
    BY <1>1, ReadyHolds
<1>4. UNCHANGED <<conn, clientVars, wire>> /\ wire' = [wire EXCEPT ![c] = wire[c]]
    BY <1>2, ConnectionHolds DEF NotifyRead
<1>5. \A j : SendsWhole(c, j, k)
    BY <1>2, <1>3, <1>4, SendsNothing
<1>6. ASSUME NEW j \in Ids, Owner(j) = c, NEW next, Install([op EXCEPT ![j] = next]),
             NEW left, buffer' = [buffer EXCEPT ![c] = left],
             NEW rest, inbox' = [inbox EXCEPT ![c] = rest],
             GoesOn(next, asked[c], left, rest, k)
      PROVE  WholeInv'
  <2>4. PICK sent : sent = wire[c] /\ wire' = [wire EXCEPT ![c] = sent]
        BY <1>4
  <2>5. UNCHANGED <<conn, clientVars>>
        BY <1>4
  <2>1. StepOf(j, next) /\ buffer'[c] = left /\ inbox'[c] = rest
        BY <1>2, <1>6, <2>4, <2>5, ReplaceIsStep, ZenonT(60)
  <2>2. Advances(c, j, next, k)
        BY <1>2, <1>3, <1>5, <1>6, <2>1, GoesOnAdvances
  <2>3. QED
        BY <1>2, <1>3, <1>6, <2>2, StepWhole
<1>7. Arrived(buffer[c] \o inbox[c], k, Len(asked[c]))
    BY <1>3 DEF WholeTo
<1>8. ASSUME NEW m \in 1..Len(inbox[c]), NEW request,
             request = ReadRequest(c, buffer[c] \o Received(c, m)), Receive(c, m),
             buffer' = [buffer EXCEPT ![c] = request.left], Replace(i, request.next)
      PROVE  WholeInv'
  <2>1. PICK s \in Seq(Nat), t \in Seq(Nat) : s = buffer[c] /\ t = inbox[c]
        BY <1>2
  <2>2. m \in 0..Len(t)
        BY <1>8, <2>1
  <2>3. /\ s \o SubSeq(t, 1, m) \in Seq(Nat) /\ SubSeq(t, m + 1, Len(t)) \in Seq(Nat)
        /\ (s \o SubSeq(t, 1, m)) \o SubSeq(t, m + 1, Len(t)) = s \o t
        BY <2>2, ReceivedBytes
  <2>4. PICK bytes \in Seq(Nat), rest \in Seq(Nat) :
          /\ bytes = s \o SubSeq(t, 1, m) /\ rest = SubSeq(t, m + 1, Len(t))
          /\ bytes \o rest = s \o t
        BY <2>3
  <2>5. request = ReadRequest(c, bytes) /\ inbox' = [inbox EXCEPT ![c] = rest]
        BY <1>8, <2>1, <2>4 DEF Received, Receive
  <2>6. Arrived(bytes \o rest, k, Len(asked[c]))
        BY <1>7, <2>1, <2>4
  <2>7. GoesOn(request.next, asked[c], request.left, rest, k)
        BY <1>2, <2>5, <2>6, ReadRequestBegins
  <2>8. Install([op EXCEPT ![i] = request.next])
        BY <1>8 DEF Replace
  <2>9. QED
        BY <1>1, <1>2, <1>6, <1>8, <2>5, <2>7, <2>8
<1>9. UNCHANGED inbox => inbox' = [inbox EXCEPT ![c] = inbox[c]]
    BY <1>2, ConnectionHolds
<1>10. CASE Replace(i, Nothing) /\ UNCHANGED <<inbox, buffer>>
  <2>1. ReadStage(Nothing)
        BY DEF ReadStage, Nothing, Operation
  <2>2. GoesOn(Nothing, asked[c], buffer[c], inbox[c], k)
        BY <1>2, <1>7, <2>1 DEF GoesOn, Begins
  <2>3. buffer' = [buffer EXCEPT ![c] = buffer[c]]
        BY <1>2, <1>10, ConnectionHolds
  <2>4. Install([op EXCEPT ![i] = Nothing])
        BY <1>10 DEF Replace
  <2>5. QED
        BY <1>1, <1>2, <1>6, <1>9, <1>10, <2>2, <2>3, <2>4
<1>11. ASSUME NEW request, request = ReadRequest(c, buffer[c]), UNCHANGED inbox,
              buffer' = [buffer EXCEPT ![c] = request.left], KeepAndAdd(i, request.next)
       PROVE  WholeInv'
  <2>1. GoesOn(request.next, asked[c], request.left, inbox[c], k)
        BY <1>2, <1>7, <1>11, ReadRequestBegins
  <2>2. PICK j \in Ids : Owner(j) = Owner(i) /\ Install([op EXCEPT ![j] = request.next])
        BY <1>11 DEF KeepAndAdd
  <2>3. QED
        BY <1>1, <1>6, <1>9, <1>11, <2>1, <2>2
<1>12. QED
    BY <1>1, <1>8, <1>10, <1>11 DEF NotifyRead

\* A file that is read.
LEMMA NotifyFileWhole ==
  ASSUME HeldInv, TypesInv, WholeInv, NEW i \in ready \ {Listener}, NotifyFile(i)
  PROVE  WholeInv'
<1>1. PICK c : c = Owner(i)
    OBVIOUS
<1>2. /\ i \in Ids /\ c \in Conns /\ conn[c] = "accepted" /\ asked[c] \in Seq(Requests)
    BY <1>1, ReadyHolds
<1>3. PICK k \in 0..Len(asked[c]) : WholeTo(c, k)
    BY <1>1, ReadyHolds
<1>4. PICK told : told = Told(wire[c], op[i].request)
    OBVIOUS
<1>5. Stage(op[i], asked[c], told) /\ op[i].kind \in {"htaccess", "contents"}
    BY <1>1, <1>2, <1>3, <1>4 DEF WholeTo, NotifyFile
<1>6. FileStage(op[i], asked[c], told) /\ told = {}
    BY <1>5 DEF Stage, ReadStage, FileStage, WriteStage
<1>7. ASSUME NEW next, Install([op EXCEPT ![i] = next]),
             ReadStage(next) \/ (next.request = op[i].request /\ Stage(next, asked[c], {}))
      PROVE  WholeInv'
  <2>1. PICK left, rest, sent :
          /\ left = buffer[c] /\ rest = inbox[c] /\ sent = wire[c]
          /\ buffer' = [buffer EXCEPT ![c] = left] /\ inbox' = [inbox EXCEPT ![c] = rest]
          /\ wire' = [wire EXCEPT ![c] = sent]
        BY <1>2, ConnectionHolds DEF NotifyFile
  <2>2. UNCHANGED <<conn, clientVars>>
        BY DEF NotifyFile
  <2>i. Install([op EXCEPT ![i] = next]) /\ Owner(i) = c /\ i \in Ids /\ c \in Conns
        BY <1>1, <1>2, <1>7
  <2>w. /\ buffer' = [buffer EXCEPT ![c] = left] /\ inbox' = [inbox EXCEPT ![c] = rest]
        /\ wire' = [wire EXCEPT ![c] = sent]
        BY <2>1
  <2>3. StepOf(i, next) /\ buffer'[c] = left /\ inbox'[c] = rest /\ wire'[c] = sent
        BY <2>i, <2>2, <2>w, ReplaceIsStep
  <2>4. SendsWhole(c, i, k)
        BY <1>2, <1>3, <2>1, <2>3, SendsNothing
  <2>5. /\ Stage(next, asked[c], Told(wire'[c], next.request))
        /\ next.request \in {0, op[i].request}
        BY <1>4, <1>6, <1>7, <2>1, <2>3 DEF Stage, ReadStage
  <2>6. Advances(c, i, next, k)
        BY <1>2, <1>3, <2>1, <2>3, <2>4, <2>5, KeepsAdvances
  <2>7. QED
        BY <1>1, <1>2, <1>3, <2>6, StepWhole
<1>8. CASE FileOf(i) = "regular" /\ op[i].moved < FileChunks
  <2>1. PICK more \in Nat : more = op[i].moved + 1 /\ more \in 0..FileChunks
        BY <1>6, <1>8, AsyncAssumption DEF FileStage
  <2>2. PICK next : next = [op[i] EXCEPT !.moved = more]
        OBVIOUS
  <2>3. /\ next.kind = op[i].kind /\ next.request = op[i].request /\ next.moved = more
        BY <1>2, <2>2 DEF HeldInv, Shape, IsOperation
  <2>4. Stage(next, asked[c], {})
        BY <1>6, <2>1, <2>3 DEF Stage, FileStage
  <2>5. Install([op EXCEPT ![i] = next])
        BY <1>8, <2>1, <2>2 DEF NotifyFile, Keep
  <2>6. QED
        BY <1>7, <2>3, <2>4, <2>5
<1>9. CASE FileOf(i) = "regular" /\ ~(op[i].moved < FileChunks)
  <2>1. PICK next : next = FileCallback(i)
        OBVIOUS
  <2>2. ReadStage(next) \/ (next.request = op[i].request /\ Stage(next, asked[c], {}))
        BY <1>1, <1>2, <1>6, <1>9, <2>1, FileCallbackBegins
  <2>3. Install([op EXCEPT ![i] = next])
        BY <1>9, <2>1 DEF NotifyFile, Replace
  <2>4. QED
        BY <1>7, <2>2, <2>3
<1>10. CASE FileOf(i) # "regular"
  <2>1. Install([op EXCEPT ![i] = op[i]])
        BY <1>10 DEF NotifyFile, Keep
  <2>2. QED
        BY <1>5, <1>6, <1>7, <2>1
<1>11. QED
    BY <1>8, <1>9, <1>10

\* A response that is written: send() may take nothing, or fail.
LEMMA NotifyWriteWhole ==
  ASSUME HeldInv, TypesInv, WholeInv, NEW i \in ready \ {Listener}, NotifyWrite(i)
  PROVE  WholeInv'
<1>1. PICK c : c = Owner(i)
    OBVIOUS
<1>2. /\ i \in Ids /\ c \in Conns /\ conn[c] = "accepted" /\ asked[c] \in Seq(Requests)
      /\ buffer[c] \in Seq(Nat) /\ inbox[c] \in Seq(Nat)
    BY <1>1, ReadyHolds
<1>3. PICK k \in 0..Len(asked[c]) : WholeTo(c, k)
    BY <1>1, ReadyHolds
<1>4. /\ Arrived(buffer[c] \o inbox[c], k, Len(asked[c])) /\ op[i].request <= k
      /\ Stage(op[i], asked[c], Told(wire[c], op[i].request)) /\ op[i].kind = "write"
    BY <1>1, <1>2, <1>3 DEF WholeTo, NotifyWrite
<1>5. WriteStage(op[i], asked[c], Told(wire[c], op[i].request))
    BY <1>4 DEF Stage, ReadStage, FileStage
<1>6. PICK n \in 1..Len(asked[c]) : n = op[i].request /\ n <= k
    BY <1>4, <1>5 DEF WriteStage
<1>7. PICK status \in Statuses : status = op[i].status /\ status = Answer[asked[c][n]]
    BY <1>5, <1>6 DEF WriteStage
<1>8. PICK size \in Nat : size = op[i].size /\ size = Size[status]
    BY <1>5, <1>7, SizeIs DEF WriteStage
<1>9. PICK from \in Nat : from = op[i].moved /\ from <= size /\ Told(wire[c], n) = 1..from
    BY <1>5, <1>6, <1>8 DEF WriteStage
<1>10. PICK rest : rest = inbox[c] /\ inbox' = [inbox EXCEPT ![c] = rest]
    BY <1>2, ConnectionHolds DEF NotifyWrite
<1>11. UNCHANGED <<conn, clientVars>>
    BY DEF NotifyWrite
<1>12. ASSUME WriteDone(i), NEW sent, wire' = [wire EXCEPT ![c] = sent], SendsWhole(c, i, k)
       PROVE  WholeInv'
  <2>1. PICK request : request = AfterWrite(c, n)
        OBVIOUS
  <2>2. PICK next, left : next = request.next /\ left = request.left
        OBVIOUS
  <2>3. buffer' = [buffer EXCEPT ![c] = left] /\ Install([op EXCEPT ![i] = next])
        BY <1>1, <1>6, <1>12, <2>1, <2>2 DEF WriteDone, Replace
  <2>4. StepOf(i, next) /\ buffer'[c] = left /\ inbox'[c] = rest
        BY <1>1, <1>2, <1>10, <1>11, <1>12, <2>3, ReplaceIsStep, ZenonT(60)
  <2>5. GoesOn(next, asked[c], left, rest, k)
        BY <1>2, <1>4, <1>10, <2>1, <2>2, AfterWriteBegins
  <2>6. Advances(c, i, next, k)
        BY <1>2, <1>3, <1>12, <2>4, <2>5, GoesOnAdvances
  <2>7. QED
        BY <1>1, <1>2, <1>3, <2>6, StepWhole
<1>13. CASE WriteDone(i) /\ UNCHANGED wire
  <2>1. PICK sent : sent = wire[c] /\ wire' = [wire EXCEPT ![c] = sent]
        BY <1>2, <1>13, ConnectionHolds
  <2>2. SendsWhole(c, i, k)
        BY <1>2, <1>3, <1>13, SendsNothing
  <2>3. QED
        BY <1>12, <1>13, <2>1, <2>2
<1>14. CASE Send(i)
  <2>1. PICK m \in (IF "spurious" \in Faults THEN 0 ELSE 1)..(size - from) :
          /\ Transmit(c, n, status, from + 1, from + m)
          /\ IF from + m = size THEN WriteDone(i)
             ELSE Keep(i, [op[i] EXCEPT !.moved = @ + m]) /\ UNCHANGED buffer
        BY <1>1, <1>6, <1>7, <1>8, <1>9, <1>14 DEF Send
  <2>2. m \in Nat /\ from + m <= size
        BY <2>1
  <2>3. PICK to \in Nat : to = from + m
        BY <2>2
  <2>4. PICK rs \in Seq(Requests), out \in Seq(AnyPart(Statuses)) : rs = asked[c] /\ out = wire[c]
        BY <1>2, ConnectionHolds
  <2>5. PICK sent : sent = out \o Parts(n, status, from + 1, from + m)
        OBVIOUS
  <2>6. wire' = [wire EXCEPT ![c] = sent] /\ wire'[c] = sent
        BY <1>2, <2>1, <2>4, <2>5 DEF Transmit, TypesInv, ConnectionsInv, ConnectionsTypeOK
  <2>a. Appends(sent, out, n, status, from, m)
        BY <2>5 DEF Appends
  <2>7. Sends(sent, out, n, status, from, m) /\ Len(out) \in Nat
        BY <2>2, <2>a, PartsAppended
  <2>8. n \in 1..Len(rs) /\ status = Answer[rs[n]] /\ Told(out, n) = 1..from
        BY <1>7, <1>9, <2>4
  <2>9. AnswersWhole(out, rs) /\ \A x \in 1..Len(out) : out[x].request <= k
        BY <1>2, <1>3, <2>4 DEF WholeInv, ConnectionWhole, WholeTo
  <2>f. Fits(rs, n, status, from, m)
        BY <1>8, <2>2, <2>8 DEF Fits
  <2>t. ToldTo(out, n, from)
        BY <2>7, <2>8 DEF ToldTo
  <2>10. /\ AnswersWhole(sent, rs) /\ Told(sent, n) = 1..(from + m)
         /\ \A l : l # n => Told(sent, l) = Told(out, l)
        BY <2>2, <2>7, <2>9, <2>f, <2>t, AnswersGrow
  <2>11. \A x \in 1..Len(sent) : sent[x].request <= k
    <3>1. PICK L \in Nat : L = Len(out)
          BY <2>7
    <3>2. Len(sent) = L + m /\ \A x \in 1..L : sent[x] = out[x]
          BY <2>7, <3>1 DEF Sends
    <3>3. ASSUME NEW x \in 1..m PROVE sent[L + x].request = n
      <4>1. sent[L + x] = [request |-> n, status |-> status, part |-> from + x]
            BY <2>7, <3>1 DEF Sends
      <4>2. QED
            BY <4>1
    <3>4. ASSUME NEW x \in 1..Len(sent), ~(x <= L) PROVE sent[x].request = n
      <4>1. PICK y \in 1..m : y = x - L /\ L + y = x
            BY <2>2, <3>2, <3>4
      <4>2. QED
            BY <3>3, <4>1
    <3>5. ASSUME NEW x \in 1..Len(sent) PROVE sent[x].request <= k
      <4>1. CASE x <= L
            BY <2>9, <3>1, <3>2, <4>1
      <4>2. CASE ~(x <= L)
            BY <1>6, <3>4, <4>2
      <4>3. QED
            BY <4>1, <4>2
    <3>6. QED
          BY <3>5
  <2>12. SendsWhole(c, i, k)
        BY <1>6, <2>4, <2>6, <2>10, <2>11 DEF SendsWhole
  <2>13. CASE WriteDone(i)
        BY <1>12, <2>6, <2>12, <2>13
  <2>14. CASE Keep(i, [op[i] EXCEPT !.moved = @ + m]) /\ UNCHANGED buffer
    <3>1. PICK next : next = [op[i] EXCEPT !.moved = to]
          OBVIOUS
    <3>2. /\ next.kind = "write" /\ next.request = n /\ next.status = status
          /\ next.size = size /\ next.moved = to
          BY <1>2, <1>4, <1>6, <1>7, <1>8, <3>1 DEF HeldInv, Shape, IsOperation
    <3>3. to \in 0..size /\ Told(sent, n) = 1..to
          BY <2>2, <2>3, <2>10
    <3>4. Stage(next, asked[c], Told(wire'[c], next.request))
          BY <1>6, <1>7, <1>8, <2>6, <3>2, <3>3 DEF Stage, WriteStage
    <3>5. Install([op EXCEPT ![i] = next])
          BY <1>9, <2>3, <2>14, <3>1 DEF Keep
    <3>6. PICK left : left = buffer[c] /\ buffer' = [buffer EXCEPT ![c] = left]
          BY <1>2, <2>14, ConnectionHolds
    <3>7. StepOf(i, next) /\ buffer'[c] = left /\ inbox'[c] = rest
          BY <1>1, <1>2, <1>10, <1>11, <2>6, <3>5, <3>6, ReplaceIsStep, ZenonT(60)
    <3>8. Advances(c, i, next, k)
          BY <1>2, <1>3, <1>6, <1>10, <2>12, <3>2, <3>4, <3>6, <3>7, KeepsAdvances
    <3>9. QED
          BY <1>1, <1>2, <1>3, <3>8, StepWhole
  <2>15. QED
        BY <2>1, <2>13, <2>14
<1>15. QED
    BY <1>13, <1>14 DEF NotifyWrite

-----------------------------------------------------------------------------
(* The other steps, and the theorem.                                        *)

\* Where operations only end or grow late.
LEMMA EndingWhole ==
  ASSUME HeldInv, TypesInv, WholeInv, OperationsEnd, UNCHANGED <<conn, clientVars, inbox, buffer, wire>>
  PROVE  WholeInv'
<1>1. ASSUME NEW i \in Ids
      PROVE  \/ ReadStage(op'[i])
             \/ /\ op'[i].request = op[i].request
                /\ \A rs, told : Stage(op[i], rs, told) => Stage(op'[i], rs, told)
  <2>1. CASE op'[i] = op[i]
        BY <2>1
  <2>2. CASE op'[i] = Nothing
        BY <2>2 DEF ReadStage, Nothing, Operation
  <2>3. CASE op'[i] = [op[i] EXCEPT !.late = TRUE]
    <3>1. IsOperation(op[i])
          BY DEF HeldInv, Shape
    <3>2. /\ op'[i].kind = op[i].kind /\ op'[i].request = op[i].request
          /\ op'[i].status = op[i].status /\ op'[i].size = op[i].size /\ op'[i].moved = op[i].moved
          BY <2>3, <3>1 DEF IsOperation
    <3>3. QED
          BY <3>2 DEF Stage, ReadStage, FileStage, WriteStage
  <2>4. QED
        BY <2>1, <2>2, <2>3 DEF OperationsEnd
<1>2. ASSUME NEW c \in Conns PROVE ConnectionWhole(c)'
  <2>1. PICK k \in 0..Len(asked[c]) : WholeTo(c, k)
        BY DEF WholeInv, ConnectionWhole
  <2>2. asked' = asked /\ conn' = conn /\ buffer' = buffer /\ inbox' = inbox /\ wire' = wire
        BY DEF clientVars
  <2>3. k \in Nat /\ k >= 0
        BY <2>1, ConnectionHolds
  <2>4. ASSUME NEW i \in Ids, Owner(i) = c
        PROVE  /\ op'[i].request <= k /\ Stage(op'[i], asked[c], Told(wire[c], op'[i].request))
               /\ \A j \in Ids : Owner(j) = c /\ j # i /\ op'[i].request # 0 =>
                    op'[j].request # op'[i].request
    <3>1. /\ op[i].request <= k /\ Stage(op[i], asked[c], Told(wire[c], op[i].request))
          /\ \A j \in Ids : Owner(j) = c /\ j # i /\ op[i].request # 0 =>
               op[j].request # op[i].request
          BY <2>1, <2>4 DEF WholeTo
    <3>2. CASE ReadStage(op'[i])
          BY <2>3, <3>2 DEF ReadStage, Stage
    <3>3. CASE ~ReadStage(op'[i])
      <4>1. /\ op'[i].request = op[i].request
            /\ Stage(op'[i], asked[c], Told(wire[c], op[i].request))
            BY <1>1, <3>1, <3>3
      <4>2. ASSUME NEW j \in Ids, Owner(j) = c, j # i, op'[i].request # 0
            PROVE  op'[j].request # op'[i].request
        <5>1. op'[j].request = 0 \/ op'[j].request = op[j].request
              BY <1>1, <4>2 DEF ReadStage
        <5>2. QED
              BY <3>1, <4>1, <4>2, <5>1
      <4>3. QED
            BY <3>1, <4>1, <4>2
    <3>4. QED
          BY <3>2, <3>3
  <2>5. WholeTo(c, k)'
        BY <2>1, <2>2, <2>4 DEF WholeTo
  <2>6. AnswersWhole(wire[c], asked[c]) /\ (conn[c] # "accepted" => NotServed(c))
        BY DEF WholeInv, ConnectionWhole
  <2>7. NotServed(c)' <=> NotServed(c)
        BY <2>2 DEF NotServed
  <2>8. QED
        BY <2>1, <2>2, <2>5, <2>6, <2>7 DEF ConnectionWhole
<1>3. QED
    BY <1>2 DEF WholeInv

\* The loop's own steps, the end of the process, and the clock.
LEMMA LoopWhole ==
  ASSUME HeldInv, TypesInv, WholeInv,
         AcceptFails \/ Poll \/ EndPass \/ Killed \/ (\E i \in Ids : DeadlinePasses(i))
         \/ UNCHANGED vars
  PROVE  WholeInv'
<1>1. UNCHANGED <<conn, clientVars, inbox, buffer, wire>>
    BY DEF AcceptFails, Poll, EndPass, Killed, DeadlinePasses, vars, connVars, clientVars
<1>2. OperationsEnd
  <2>1. CASE AcceptFails \/ Poll \/ Killed \/ UNCHANGED vars
        BY <2>1 DEF AcceptFails, Poll, Killed, vars, loopVars, OperationsEnd
  <2>2. CASE EndPass
        BY <2>2 DEF EndPass, Install, OperationsEnd
  <2>3. CASE \E i \in Ids : DeadlinePasses(i)
        BY <2>3 DEF DeadlinePasses, OperationsEnd, HeldInv, Shape
  <2>4. QED
        BY <2>1, <2>2, <2>3
<1>3. QED
    BY <1>1, <1>2, EndingWhole

\* A connection that is accepted has not been served: its first operation is a read.
LEMMA NotifyListenerWhole ==
  ASSUME HeldInv, TypesInv, WholeInv, NotifyListener
  PROVE  WholeInv'
<1>1. PICK c \in Conns :
        /\ conn[c] = "backlog" /\ conn' = [conn EXCEPT ![c] = "accepted"]
        /\ Install([op EXCEPT ![<<c, 1>>] = ReadRequest(c, buffer[c]).next])
    BY DEF NotifyListener
<1>2. UNCHANGED <<peer, asked, inbox, buffer, wire>>
    BY DEF NotifyListener, clientVars
<1>3. <<c, 1>> \in Ids /\ Owner(<<c, 1>>) = c /\ \A i \in Ids : Owner(i) = c => op[i] = Nothing
    BY <1>1, AsyncAssumption DEF Ids, Owner, HeldInv, NoneBeforeAccept
<1>4. NotServed(c) /\ AnswersWhole(wire[c], asked[c])
    BY <1>1 DEF WholeInv, ConnectionWhole
<1>5. ReadRequest(c, buffer[c]).next = Read
  <2>1. PICK none \in Seq(Nat) : none = <<>> /\ none = buffer[c] /\ Len(none) = 0
    <3>1. <<>> \in Seq(Nat) /\ Len(<<>>) = 0
          OBVIOUS
    <3>2. QED
          BY <1>4, <3>1 DEF NotServed
  <2>2. FirstEnd(none) = 0 \/ FirstEnd(none) \in 1..Len(none)
        BY FirstEndIs
  <2>3. FirstEnd(none) = 0
        BY <2>1, <2>2
  <2>4. QED
        BY <2>1, <2>3 DEF ReadRequest
<1>6. /\ \A i \in Ids : Owner(i) = c => op'[i] \in {Nothing, Read}
      /\ \A i \in Ids : i # <<c, 1>> => op'[i] = op[i]
    BY <1>1, <1>3, <1>5 DEF Install, HeldInv, Shape
<1>7. ConnectionWhole(c)'
  <2>1. \A o \in {Nothing, Read} : o.request = 0 /\ \A rs, told : Stage(o, rs, told)
        BY DEF Nothing, Read, Operation, Stage, ReadStage
  <2>2. Arrived(buffer[c] \o inbox[c], 0, Len(asked[c]))
    <3>1. PICK t \in Seq(Nat) : t = inbox[c]
          BY <1>4 DEF NotServed, Arrived
    <3>2. <<>> \o t = t
          BY ConcatEmptySeq
    <3>3. QED
          BY <1>4, <3>1, <3>2 DEF NotServed
  <2>3. 0 \in 0..Len(asked[c]) /\ Len(<<>>) = 0
        BY ConnectionHolds
  <2>4. \A x \in 1..Len(wire[c]) : wire[c][x].request <= 0
        BY <1>4, <2>3 DEF NotServed
  <2>5. \A i \in Ids : Owner(i) = c =>
          /\ op'[i].request <= 0 /\ Stage(op'[i], asked[c], Told(wire[c], op'[i].request))
          /\ \A j \in Ids : Owner(j) = c /\ j # i /\ op'[i].request # 0 =>
               op'[j].request # op'[i].request
        BY <1>6, <2>1
  <2>6. WholeTo(c, 0)'
        BY <1>2, <2>2, <2>4, <2>5 DEF WholeTo
  <2>7. conn'[c] = "accepted"
        BY <1>1 DEF HeldInv, Shape
  <2>8. QED
        BY <1>2, <1>4, <2>3, <2>6, <2>7 DEF ConnectionWhole
<1>8. ASSUME NEW d \in Conns, d # c PROVE ConnectionWhole(d)'
  <2>1. Untouched(d)
        BY <1>1, <1>2, <1>3, <1>6, <1>8 DEF Untouched, HeldInv, Shape
  <2>2. QED
        BY <2>1, UntouchedWhole DEF WholeInv
<1>9. QED
    BY <1>7, <1>8 DEF WholeInv

\* What a client sends comes behind what it has sent.
LEMMA ClientWhole ==
  ASSUME HeldInv, TypesInv, WholeInv, NEW c \in Conns, Client(c), UNCHANGED loopVars
  PROVE  WholeInv'
<1>1. ClientStep(c)
  <2>1. \A d \in Conns : inbox[d] \in Seq(Nat)
    <3>1. ASSUME NEW d \in Conns PROVE inbox[d] \in Seq(Nat)
      <4>1. Len(asked[d]) \in Nat /\ inbox[d] \in Seq(0..Len(asked[d]))
            BY ConnectionHolds
      <4>2. 0..Len(asked[d]) \subseteq Nat
            BY <4>1
      <4>3. QED
            BY <4>1, <4>2, SeqMonotonic
    <3>2. QED
          BY <3>1
  <2>2. /\ inbox \in [Conns -> Seq(Nat)] /\ asked \in [Conns -> Seq(Requests)]
        /\ peer \in [Conns -> {"open", "fin", "reset"}]
        /\ conn = [d \in Conns |-> conn[d]]
        BY <2>1 DEF TypesInv, ConnectionsInv, ConnectionsTypeOK
  <2>3. ClientEffect(c)
        BY <2>2, ClientEffectIs
  <2>4. QED
        BY <2>3 DEF ClientStep, loopVars
<1>2. ASSUME NEW d \in Conns, d # c PROVE ConnectionWhole(d)'
  <2>1. Untouched(d)
        BY <1>1, <1>2 DEF ClientStep, ClientEffect, Untouched
  <2>2. QED
        BY <2>1, UntouchedWhole DEF WholeInv
<1>3. PICK rs \in Seq(Requests), more \in Seq(Requests) :
        rs = asked[c] /\ more = asked'[c] /\ (more = rs \/ OneMore(more, rs))
    BY <1>1, ConnectionHolds DEF ClientStep, ClientEffect
<1>4. Len(rs) \in Nat /\ Len(more) \in Nat /\ \A k \in 0..Len(rs) : k \in Nat /\ k \in 0..Len(more)
    BY <1>3 DEF OneMore
<1>5. /\ \A out : AnswersWhole(out, rs) => AnswersWhole(out, more)
      /\ \A o, told : Stage(o, rs, told) => Stage(o, more, told)
    BY <1>3, <1>4, WholeMore
<1>6. op' = op /\ buffer' = buffer /\ wire' = wire
    BY <1>1 DEF ClientStep, ClientEffect
<1>7. PICK k \in 0..Len(rs) : WholeTo(c, k)
    BY <1>3 DEF WholeInv, ConnectionWhole
<1>8. buffer[c] \in Seq(Nat) /\ inbox[c] \in Seq(Nat)
  <2>1. 0..Len(rs) \subseteq Nat
        BY <1>4
  <2>2. buffer[c] \in Seq(0..Len(rs)) /\ inbox[c] \in Seq(0..Len(rs))
        BY <1>3, ConnectionHolds
  <2>3. QED
        BY <2>1, <2>2, SeqMonotonic
<1>9. WholeTo(c, k)'
  <2>1. Arrived(buffer[c] \o inbox[c], k, Len(rs))
        BY <1>3, <1>7 DEF WholeTo
  <2>2. Arrived(buffer[c] \o inbox'[c], k, Len(more))
        BY <1>1, <1>3, <1>4, <1>8, <2>1 DEF ClientStep, ClientEffect, ArrivesAtEnd
  <2>3. QED
        BY <1>3, <1>5, <1>6, <1>7, <2>2 DEF WholeTo
<1>10. conn'[c] # "accepted" => NotServed(c)'
  <2>1. SUFFICES ASSUME conn'[c] # "accepted" PROVE NotServed(c)'
        OBVIOUS
  <2>2. NotServed(c)
        BY <1>1, <2>1 DEF ClientStep, ClientEffect, WholeInv, ConnectionWhole
  <2>3. QED
        BY <1>1, <1>8, <2>2, NotServedStill DEF ClientStep
<1>11. AnswersWhole(wire'[c], asked'[c])
    BY <1>3, <1>5, <1>6 DEF WholeInv, ConnectionWhole
<1>12. ConnectionWhole(c)'
    BY <1>3, <1>4, <1>7, <1>9, <1>10, <1>11 DEF ConnectionWhole
<1>13. QED
    BY <1>2, <1>12 DEF WholeInv

\* Nothing has been asked, and nothing sent.
LEMMA InitWhole == Init => WholeInv
<1> SUFFICES ASSUME Init, NEW c \in Conns PROVE ConnectionWhole(c)
    BY DEF WholeInv
<1>1. /\ wire[c] = <<>> /\ asked[c] = <<>> /\ inbox[c] = <<>> /\ buffer[c] = <<>>
      /\ \A i \in Ids : op[i] = Nothing
    BY DEF Init, ConnectionsInit
<1>2. PICK none \in Seq(Nat) : none = <<>> /\ Len(none) = 0
  <2>1. <<>> \in Seq(Nat) /\ Len(<<>>) = 0
        OBVIOUS
  <2>2. QED
        BY <2>1
<1>3. Arrived(none, 0, 0) /\ none \o none = none
    BY <1>2, ConcatEmptySeq DEF Arrived
<1>4. Nothing.request = 0 /\ \A rs, told : Stage(Nothing, rs, told)
    BY DEF Nothing, Operation, Stage, ReadStage
<1>5. WholeTo(c, 0)
    BY <1>1, <1>2, <1>3, <1>4 DEF WholeTo
<1>6. AnswersWhole(wire[c], asked[c]) /\ NotServed(c)
    BY <1>1, <1>2, <1>3 DEF AnswersWhole, NotServed
<1>7. 0 \in 0..Len(asked[c])
    BY <1>1, <1>2
<1>8. QED
    BY <1>5, <1>6, <1>7 DEF ConnectionWhole

\* Every step keeps each answer whole.
LEMMA NextWhole == HeldInv /\ TypesInv /\ WholeInv /\ [Next]_vars => WholeInv'
<1> SUFFICES ASSUME HeldInv, TypesInv, WholeInv, [Next]_vars PROVE WholeInv'
    OBVIOUS
<1>1. ASSUME NEW i \in ready \ {Listener}, NotifyRead(i) \/ NotifyFile(i) \/ NotifyWrite(i)
      PROVE  WholeInv'
    BY <1>1, NotifyReadWhole, NotifyFileWhole, NotifyWriteWhole
<1>2. CASE NotifyListener
    BY <1>2, NotifyListenerWhole
<1>3. CASE Poll \/ AcceptFails \/ EndPass \/ UNCHANGED vars
    BY <1>3, LoopWhole
<1>4. CASE Exit \/ PollFails \/ Sigpipe
  <2>1. Killed
        BY <1>4 DEF Exit, PollFails, Sigpipe
  <2>2. QED
        BY <2>1, LoopWhole
<1>5. ASSUME NEW i \in Ids, DeadlinePasses(i) PROVE WholeInv'
    BY <1>5, LoopWhole
<1>6. ASSUME NEW c \in Conns, Client(c), UNCHANGED loopVars PROVE WholeInv'
    BY <1>6, ClientWhole
<1>7. QED
    BY <1>1, <1>2, <1>3, <1>4, <1>5, <1>6 DEF Next, LoopStep, Notify

\* Whatever goes wrong, poll() being wrong about a socket included, so that two
\* operations share a connection: no part is sent that its request does not
\* deserve, and of each answer the parts come in order, none twice and none left
\* out (async_connection.cpp:108-163).
THEOREM AnswersStayWhole == Spec => []EachAnswerWhole
<1>1. TypesInv /\ WholeInv => EachAnswerWhole
  <2> SUFFICES ASSUME TypesInv, WholeInv, NEW c \in Conns, NEW k \in DOMAIN wire[c]
               PROVE  InPlace(wire[c][k], SentOf(wire[c], wire[c][k].request, k - 1), asked[c])
                      /\ DOMAIN asked[c] = 1..Len(asked[c])
      BY DEF EachAnswerWhole, InPlace
  <2>1. DOMAIN wire[c] = 1..Len(wire[c]) /\ DOMAIN asked[c] = 1..Len(asked[c])
        BY ConnectionHolds
  <2>2. QED
        BY <2>1 DEF WholeInv, ConnectionWhole, AnswersWhole
<1>2. QED
    BY <1>1, InitTyped, InitWhole, NextTyped, NextWhole, HeldInvariance, PTL DEF Spec
=============================================================================
