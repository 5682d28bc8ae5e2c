----------------------------- MODULE AsyncServer -----------------------------
(***************************************************************************)
(* The asynchronous server: AsyncEventLoop driving the pollables that      *)
(* AsyncHttpServer, AsyncHttpConnection, AsyncBufferedConnection, the      *)
(* .htaccess filter and the file handler create for one another.  One      *)
(* thread runs everything; what interleaves with it is the clients and the *)
(* clock.                                                                  *)
(*                                                                         *)
(* A pollable is an entry <<connection, slot>> of op; a connection owns a  *)
(* second slot only when two of its operations are pending at once.  The   *)
(* vectors of the loop are sets here: the pass below may visit the ready   *)
(* pollables in any order.                                                 *)
(***************************************************************************)
EXTENDS Connections

CONSTANTS
  MaxOps,               \* bound on the pending operations of one connection
  FileChunks            \* the number of read() calls a regular file takes

ASSUME AsyncAssumption == MaxOps \in Nat \ {0} /\ FileChunks \in Nat

VARIABLES
  phase,                \* where loop() is
  op,                   \* the pollables that exist
  pollables,            \* the loop's vector, while a pass runs: registered by it
  ready, skipped        \* the rest of cur_pollables: with events, without

loopVars == <<phase, op, pollables, ready, skipped>>
vars == <<loopVars, connVars>>

Ids == Conns \X (1..MaxOps)
Listener == <<"listener", 0>>
Statuses == {"200", "400", "403", "404", "500"}
Size == [s \in Statuses |-> IF s = "200" THEN 1 + FileChunks ELSE 1]

\* The fields of a pollable: what it does, the request it does it for, the
\* status and size of what it writes, the chunks or parts it has moved so far,
\* and whether more than DEFAULT_TIMEOUT has passed since start.
Operation(kind, n, status, size) ==
  [kind |-> kind, request |-> n, status |-> status, size |-> size,
   moved |-> 0, late |-> FALSE]
Nothing == Operation("nothing", 0, "none", 0)
Read == Operation("read", 0, "none", 0)
FileRead(purpose, n) == Operation(purpose, n, "none", 0)
Write(n, status) == Operation("write", n, status, Size[status])

Init ==
  /\ phase = "poll"
  /\ op = [i \in Ids |-> Nothing]
  /\ pollables = {Listener} /\ ready = {} /\ skipped = {}
  /\ ConnectionsInit

-----------------------------------------------------------------------------
(* The next pollable: what the callbacks return, from the request on.      *)

\* FileServingAsyncHttpRequestHandler::handle_request
ServeFile(c, n) ==
  CASE asked[c][n].file = "absent" -> Write(n, "404")
    [] asked[c][n].file = "private" -> Write(n, "403")
    [] OTHER -> FileRead("contents", n)

\* AsyncRequestFilterMiddleware with AsyncHtAccessRequestFilter::allow_request
AllowRequest(c, n) ==
  IF asked[c][n].rules = "none" THEN ServeFile(c, n) ELSE FileRead("htaccess", n)

\* The callback of read_request around that of handle_http_connection
HandleRequest(c, n) ==
  CASE asked[c][n].form = "malformed" -> Write(n, "400")
    [] asked[c][n].form = "nohost" -> Write(n, "400")
    [] asked[c][n].form = "throws" -> Write(n, "500")
    [] OTHER -> AllowRequest(c, n)

\* Wrong on purpose: the request stays in the buffer.
ReadRequestPeeks(c, bytes) ==
  LET end == FirstEnd(bytes) IN
    IF end = 0 THEN [next |-> Read, left |-> bytes]
    ELSE [next |-> HandleRequest(c, bytes[end]), left |-> bytes]

\* AsyncBufferedConnection::read_until, and the callback it gives to read():
\* the first complete request leaves the buffer, or another read is needed.
ReadRequest(c, bytes) ==
  LET end == FirstEnd(bytes) IN
    IF end = 0 THEN [next |-> Read, left |-> bytes]
    ELSE [next |-> HandleRequest(c, bytes[end]), left |-> After(bytes, end)]

\* Wrong on purpose: "Connection: close" is overlooked, or the bytes that came
\* with an earlier request are.
AfterWriteGoesOn(c, n) ==
  IF asked[c][n].form # "valid" THEN [next |-> Nothing, left |-> buffer[c]]
  ELSE ReadRequest(c, buffer[c])
AfterWriteReads(c, n) ==
  IF asked[c][n].form # "valid" \/ asked[c][n].close
  THEN [next |-> Nothing, left |-> buffer[c]]
  ELSE [next |-> Read, left |-> buffer[c]]

\* The callback of write_response: Callback::empty() after an error response,
\* else the end of the connection or the next request.
AfterWrite(c, n) ==
  IF asked[c][n].form # "valid" \/ asked[c][n].close
  THEN [next |-> Nothing, left |-> buffer[c]]
  ELSE ReadRequest(c, buffer[c])

-----------------------------------------------------------------------------
(* AsyncEventLoop::process_pollable.                                       *)

Owner(i) == i[1]
InUse(ops, c) == \E i \in Ids : i[1] = c /\ ops[i] # Nothing

\* The socket is closed with the last pollable that refers to it.
Install(ops) ==
  /\ op' = ops
  /\ closed' = closed \cup {c \in Conns : InUse(op, c) /\ ~InUse(ops, c)}

Processed(i) == ready' = ready \ {i} /\ UNCHANGED <<phase, skipped>>

\* notify returned next and the pollable is done, or threw (next is Nothing):
\* the pollable is dropped and next registered in its place.
Replace(i, next) ==
  /\ Processed(i)
  /\ Install([op EXCEPT ![i] = next])
  /\ pollables' = pollables \cup (IF next = Nothing THEN {} ELSE {i})

\* Wrong on purpose: the pollable is not registered again.
KeepForgets(i, updated) ==
  /\ Processed(i)
  /\ Install([op EXCEPT ![i] = updated])
  /\ UNCHANGED pollables

\* notify returned null and the pollable is not done: it is registered again.
Keep(i, updated) ==
  /\ Processed(i)
  /\ Install([op EXCEPT ![i] = updated])
  /\ pollables' = pollables \cup {i}

\* notify returned next although the pollable is not done: both are registered.
KeepAndAdd(i, next) ==
  /\ Processed(i)
  /\ \E j \in Ids : /\ Owner(j) = Owner(i) /\ op[j] = Nothing
                    /\ \A k \in 1..(j[2] - 1) : op[<<Owner(j), k>>] # Nothing
                    /\ Install([op EXCEPT ![j] = next])
                    /\ pollables' = pollables \cup {i, j}

-----------------------------------------------------------------------------
(* Pollable::notify, one action per kind of pollable.                      *)

\* Wrong on purpose: the read is only done with a complete request.
NotifyReadNotDone(i) ==
  LET c == Owner(i) IN
  /\ op[i].kind = "read"
  /\ \E m \in 1..Len(inbox[c]) :
       LET request == ReadRequest(c, buffer[c] \o Received(c, m)) IN
       /\ Receive(c, m)
       /\ buffer' = [buffer EXCEPT ![c] = request.left]
       /\ IF request.next = Read THEN KeepAndAdd(i, request.next) ELSE Replace(i, request.next)
  /\ UNCHANGED <<conn, clientVars, wire>>

\* SocketReadPollable: recv() returns some of what has arrived, the end of the
\* stream, an error, or (spurious) EAGAIN, which reads as an empty string.
NotifyRead(i) ==
  LET c == Owner(i) IN
  /\ op[i].kind = "read"
  /\ \/ \E m \in 1..Len(inbox[c]) :
          LET request == ReadRequest(c, buffer[c] \o Received(c, m)) IN
          /\ Receive(c, m)
          /\ buffer' = [buffer EXCEPT ![c] = request.left]
          /\ Replace(i, request.next)
     \/ /\ AtEnd(c)
        /\ Replace(i, Nothing)
        /\ UNCHANGED <<inbox, buffer>>
     \/ /\ inbox[c] = <<>> /\ peer[c] = "open"
        /\ LET request == ReadRequest(c, buffer[c]) IN
             /\ buffer' = [buffer EXCEPT ![c] = request.left]
             /\ KeepAndAdd(i, request.next)
        /\ UNCHANGED inbox
  /\ UNCHANGED <<conn, clientVars, wire>>

\* FileReadPollable: one chunk per notification, then the end of the file and
\* the callback.  A directory opens but cannot be read; the error keeps it
\* pending.  Invalid rules throw out of notify.
FileOf(i) ==
  LET request == asked[Owner(i)][op[i].request] IN
    IF op[i].kind = "contents" THEN request.file
    ELSE IF request.rules \in {"unopenable", "directory"} THEN request.rules ELSE "regular"

FileCallback(i) ==
  LET c == Owner(i) n == op[i].request IN
    IF op[i].kind = "contents" THEN [Write(n, "200") EXCEPT !.size = 1 + op[i].moved]
    ELSE CASE asked[c][n].rules = "allows" -> ServeFile(c, n)
           [] asked[c][n].rules = "denies" -> Write(n, "403")
           [] OTHER -> Nothing

NotifyFile(i) ==
  /\ op[i].kind \in {"htaccess", "contents"}
  /\ IF FileOf(i) = "regular"
     THEN IF op[i].moved < FileChunks THEN Keep(i, [op[i] EXCEPT !.moved = @ + 1])
                                      ELSE Replace(i, FileCallback(i))
     ELSE Keep(i, op[i])
  /\ UNCHANGED <<conn, clientVars, inbox, buffer, wire>>

\* SocketWritePollable: send() takes parts until it would block; after an error
\* the callback runs as if everything had been sent.
WriteDone(i) ==
  LET request == AfterWrite(Owner(i), op[i].request) IN
    /\ buffer' = [buffer EXCEPT ![Owner(i)] = request.left]
    /\ Replace(i, request.next)

\* Wrong on purpose: parts counted from 0, and total_sent not advanced.
SendFromZero(i) ==
  LET c == Owner(i) o == op[i] IN
  \E m \in 1..(o.size - o.moved) :
    /\ Transmit(c, o.request, o.status, o.moved, o.moved + m - 1)
    /\ IF o.moved + m = o.size THEN WriteDone(i)
       ELSE Keep(i, [o EXCEPT !.moved = @ + m]) /\ UNCHANGED buffer
SendAgain(i) ==
  LET c == Owner(i) o == op[i] IN
  \E m \in 1..(o.size - o.moved) :
    /\ Transmit(c, o.request, o.status, o.moved + 1, o.moved + m)
    /\ IF o.moved + m = o.size THEN WriteDone(i) ELSE Keep(i, o) /\ UNCHANGED buffer

Send(i) ==
  LET c == Owner(i) o == op[i] IN
  \E m \in (IF "spurious" \in Faults THEN 0 ELSE 1)..(o.size - o.moved) :
    /\ Transmit(c, o.request, o.status, o.moved + 1, o.moved + m)
    /\ IF o.moved + m = o.size THEN WriteDone(i)
       ELSE Keep(i, [o EXCEPT !.moved = @ + m]) /\ UNCHANGED buffer

NotifyWrite(i) ==
  /\ op[i].kind = "write"
  /\ \/ (peer[Owner(i)] = "reset" \/ "send" \in Faults) /\ WriteDone(i) /\ UNCHANGED wire
     \/ peer[Owner(i)] # "reset" /\ Send(i)
  /\ UNCHANGED <<conn, clientVars, inbox>>

\* Wrong on purpose: the listener is done after one connection.
NotifyListenerOnce ==
  /\ Processed(Listener)
  /\ \E c \in Conns : /\ conn[c] = "backlog"
                      /\ conn' = [conn EXCEPT ![c] = "accepted"]
                      /\ Install([op EXCEPT ![<<c, 1>>] = ReadRequest(c, buffer[c]).next])
                      /\ pollables' = pollables \cup {<<c, 1>>}
  /\ UNCHANGED <<clientVars, inbox, buffer, wire>>

\* AsyncSocketListenerPollable with the callback of AsyncHttpServer::serve.
NotifyListener ==
  /\ Processed(Listener)
  /\ \E c \in Conns : /\ conn[c] = "backlog"
                      /\ conn' = [conn EXCEPT ![c] = "accepted"]
                      /\ Install([op EXCEPT ![<<c, 1>>] = ReadRequest(c, buffer[c]).next])
                      /\ pollables' = pollables \cup {Listener, <<c, 1>>}
  /\ UNCHANGED <<clientVars, inbox, buffer, wire>>

\* accept() throws a ListenerError, which process_pollable catches.
AcceptFails ==
  /\ "accept" \in Faults
  /\ Processed(Listener)
  /\ UNCHANGED <<op, pollables, connVars>>

-----------------------------------------------------------------------------
(* AsyncEventLoop::loop.                                                   *)

Unread(c) == inbox[c] # <<>> \/ peer[c] # "open"

HasEvents(i) ==
  IF i = Listener THEN \E c \in Conns : conn[c] = "backlog"
  ELSE CASE op[i].kind = "read" -> Unread(Owner(i))
         [] op[i].kind = "write" -> peer[Owner(i)] = "reset" \/ "slow" \notin Faults
         [] OTHER -> FileOf(i) # "unopenable"

MayHaveEvents(i) ==
  \/ HasEvents(i)
  \/ i # Listener /\ op[i].kind = "write"
  \/ i # Listener /\ op[i].kind = "read" /\ "spurious" \in Faults

\* poll() and the start of a pass.  It returns early or after its own timeout.
Poll ==
  /\ phase = "poll"
  /\ phase' = "serve"
  /\ \E R \in SUBSET pollables :
       /\ \A i \in pollables : (HasEvents(i) => i \in R) /\ (i \in R => MayHaveEvents(i))
       /\ ready' = R /\ skipped' = pollables \ R
  /\ pollables' = {}
  /\ UNCHANGED <<op, connVars>>

Notify ==
  /\ phase = "serve"
  /\ \/ \E i \in ready \ {Listener} : NotifyRead(i) \/ NotifyFile(i) \/ NotifyWrite(i)
     \/ Listener \in ready /\ (NotifyListener \/ AcceptFails)

\* Wrong on purpose: only writes time out.
WritePastDeadline(i) == i # Listener /\ op[i].late /\ op[i].kind = "write"

\* past_deadline(now)
PastDeadline(i) == i # Listener /\ op[i].late

\* Wrong on purpose: pollables that have just been notified are pruned as well.
EndPassPrunesAll ==
  /\ phase = "serve" /\ ready = {}
  /\ LET expired == {i \in skipped \cup pollables : PastDeadline(i)} IN
       /\ pollables' = (pollables \cup skipped) \ expired
       /\ Install([i \in Ids |-> IF i \in expired THEN Nothing ELSE op[i]])
  /\ skipped' = {}
  /\ phase' = IF pollables' = {} THEN "exited" ELSE "poll"
  /\ UNCHANGED <<ready, conn, clientVars, inbox, buffer, wire>>

\* The end of a pass: of the pollables without events those past their deadline
\* are pruned.  The loop ends when nothing is left to poll.
EndPass ==
  /\ phase = "serve" /\ ready = {}
  /\ LET expired == {i \in skipped : PastDeadline(i)} IN
       /\ pollables' = pollables \cup (skipped \ expired)
       /\ Install([i \in Ids |-> IF i \in expired THEN Nothing ELSE op[i]])
  /\ skipped' = {}
  /\ phase' = IF pollables' = {} THEN "exited" ELSE "poll"
  /\ UNCHANGED <<ready, conn, clientVars, inbox, buffer, wire>>

\* The process ends and the kernel closes its sockets: loop() has returned, or
\* poll() failed and loop() throws out of main, or a send on a reset connection
\* raised SIGPIPE, whose default action nothing changes.
Killed ==
  /\ phase' = "killed"
  /\ closed' = Conns
  /\ UNCHANGED <<op, pollables, ready, skipped, conn, clientVars, inbox, buffer, wire>>

Exit == phase = "exited" /\ Killed

PollFails == "poll" \in Faults /\ phase = "poll" /\ Killed

Sigpipe ==
  /\ "sigpipe" \in Faults /\ phase = "serve"
  /\ \E i \in ready \ {Listener} : op[i].kind = "write" /\ peer[Owner(i)] = "reset"
  /\ Killed

-----------------------------------------------------------------------------
(* The clock, and the whole system.                                        *)

DeadlinePasses(i) ==
  /\ "slow" \in Faults /\ op[i] # Nothing /\ ~op[i].late
  /\ op' = [op EXCEPT ![i].late = TRUE]
  /\ UNCHANGED <<phase, pollables, ready, skipped, connVars>>

LoopStep == Poll \/ Notify \/ EndPass

Next ==
  \/ LoopStep \/ Exit \/ PollFails \/ Sigpipe
  \/ \E i \in Ids : DeadlinePasses(i)
  \/ \E c \in Conns : Client(c) /\ UNCHANGED loopVars

\* The thread runs the loop, and time passes.  Clients owe nothing.
Spec == Init /\ [][Next]_vars
FairSpec == Spec /\ WF_vars(LoopStep) /\ \A i \in Ids : WF_vars(DeadlinePasses(i))

-----------------------------------------------------------------------------
(* Properties.                                                             *)

OperationType ==
  [kind : {"nothing", "read", "htaccess", "contents", "write"},
   request : 0..MaxRequests, status : Statuses \cup {"none"},
   size : Nat, moved : Nat, late : BOOLEAN]

\* The type of the loop's, the connections' and the clients' state.
TypeOK ==
  /\ phase \in {"poll", "serve", "exited", "killed"}
  /\ op \in [Ids -> OperationType]
  /\ pollables \subseteq Ids \cup {Listener}
  /\ ready \subseteq Ids \cup {Listener} /\ skipped \subseteq Ids \cup {Listener}
  /\ ConnectionsTypeOK(Statuses)

Pending(c) == {i \in Ids : i[1] = c /\ op[i] # Nothing}

\* A connection never has two operations pending: two readers would share one
\* buffer and two writers one socket (async_connection.cpp:190-214).  It holds
\* while poll() reports no socket that recv() then finds empty.
SingleOperation == \A c \in Conns : \A i, j \in Pending(c) : i = j

\* The three vectors of loop() hold every pollable that exists exactly once, and
\* nothing else: none is forgotten by a pass and none is processed twice
\* (async_event_loop.cpp:46-100).
EveryPollableHeldOnce ==
  /\ {i \in Ids : op[i] # Nothing} = (pollables \cup ready \cup skipped) \ {Listener}
  /\ pollables \cap ready = {} /\ pollables \cap skipped = {} /\ ready \cap skipped = {}

\* The listener stays registered for as long as the server runs
\* (async_listener.h:10-12 "whenever a socket is ready").
ListenerStays ==
  phase \in {"poll", "serve"} => Listener \in pollables \cup ready \cup skipped

\* What each request deserves, from the handlers' rules rather than their order
\* of calls: a refused request never reaches the filter, a denied one never
\* reaches the file, and what cannot be read gets no answer.
Deserved(r) ==
  CASE r.form \in {"malformed", "nohost"} -> "400"
    [] r.form = "throws" -> "500"
    [] r.form = "valid" /\ r.rules = "denies" -> "403"
    [] r.form = "valid" /\ r.rules \in {"none", "allows"} ->
         (CASE r.file = "absent" -> "404" [] r.file = "private" -> "403"
            [] r.file = "regular" -> "200" [] OTHER -> "none")
    [] OTHER -> "none"
Answer == [r \in Requests |-> Deserved(r)]
Final == {r \in Requests : Answer[r] = "none" \/ r.form # "valid" \/ r.close}

HttpService == INSTANCE HttpService

\* On every connection the bytes the client is sent are the answers to its
\* requests, whole, in order, none twice, none interleaved with another, and
\* none after a request that ends the connection.  It holds while send() fails
\* only on connections that stay broken.
AnswersInOrder ==
  \A c \in Conns : IsPrefix(wire[c], HttpService!Transcript(asked[c]))

\* The parts that have been sent of the n-th answer, among the first k parts.
SentOf(out, n, k) == {out[j].part : j \in {j \in 1..k : out[j].request = n}}

\* Whatever goes wrong, even where two readers share a connection or the rest of
\* an answer is given up after a failed send(): each part sent is one of the
\* answer that its request deserves, and the parts of each answer, taken by
\* themselves, come in order, once each and with none left out between two
\* (async_connection.cpp:108-163).
EachAnswerWhole ==
  \A c \in Conns : \A k \in DOMAIN wire[c] :
    LET p == wire[c][k] IN
    /\ p.request \in DOMAIN asked[c] /\ p.status = Answer[asked[c][p.request]]
    /\ p.part \in 1..Size[p.status]
    /\ SentOf(wire[c], p.request, k - 1) = 1..(p.part - 1)

\* The server implements the abstract service, including that a request is
\* eventually answered unless its connection is closed.
ImplementsHttpService == HttpService!Spec

\* The server closes a connection only when it has answered the request that
\* ends it or met one it cannot answer, when the client has left and nothing of
\* it is left to serve, or when an operation had no event and was past its
\* deadline; never because of another connection's trouble.
MayClose(c) ==
  \/ peer[c] = "reset"
  \/ peer[c] = "fin" /\ inbox[c] = <<>> /\ FirstEnd(buffer[c]) = 0
  \/ \E n \in DOMAIN asked[c] :
       asked[c][n] \in Final /\ wire'[c] = HttpService!Transcript(SubSeq(asked[c], 1, n))
  \/ \E i \in skipped \cap Ids : Owner(i) = c /\ op[i].late
ClosedForAReason ==
  [][phase' # "killed" => \A c \in closed' \ closed : MayClose(c)]_vars

\* A connection the listener has accepted is eventually given up if its client
\* sends boundedly many requests and pieces and asks for no directory: each of
\* the operations that these cause has a deadline or completes, however slowly
\* the client reads or sends.  (Each read starts its own deadline,
\* async_connection.cpp:69, so bytes without end keep a connection for ever.)
Accepted(c) == conn[c] = "accepted"
ConnectionsEnd == \A c \in Conns : Accepted(c) ~> c \in closed

\* A client that connects is accepted, whatever the others do.
EventuallyAccepted == \A c \in Conns : conn[c] = "backlog" ~> Accepted(c)

\* When clients read, nobody resets and no deadline passes, every request ends up
\* completely answered, however the requests were cut into pieces, pipelined or
\* followed by the end of the client's stream.
EventuallyAnswered ==
  \A c \in Conns : <>[](wire[c] = HttpService!Transcript(asked[c]))

\* "past_deadline returns true if this pollable operation has timed out and the
\* pollable should be removed" (async_event_loop.h:33): an operation past its
\* deadline completes or is removed.
DeadlinesEnd == \A i \in Ids : op[i].late ~> ~op[i].late

\* "It invokes the given callback once the read operation has completed"
\* (async_connection.cpp:41-42): a read that stays pending starts nothing else.
ReadsCompleteFirst ==
  [][\A i \in Ids : op[i].kind = "read" /\ op'[i] = op[i] /\ i \in ready \ ready'
       => \A j \in Ids \ {i} : op'[j] = op[j]]_vars
=============================================================================
