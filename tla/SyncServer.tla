------------------------------ MODULE SyncServer ------------------------------
(***************************************************************************)
(* The synchronous servers: HttpServer::serve on the main thread and       *)
(* handle_connection on the thread that the thread model gives each        *)
(* connection: the main thread itself ("nothread"), a new thread           *)
(* ("nopool") or one of PoolSize workers that take connections from a      *)
(* SynchronizedQueue ("pool").  Threads share the queue and nothing else,  *)
(* so a thread is known by the connection it serves, and the queue is the  *)
(* WorkQueue that SynchronizedQueue implements.                            *)
(***************************************************************************)
EXTENDS Connections

CONSTANTS
  Modes,                \* the thread models to start the server in
  PoolSize,             \* the size argument of the pool
  FileChunks            \* the parts of a regular file

ASSUME SyncAssumption ==
  Modes \subseteq {"nothread", "nopool", "pool"} /\ PoolSize \in Nat /\ FileChunks \in Nat

VARIABLES
  mode,                 \* the thread model, which never changes
  process,              \* "running", "exited" or "terminated"
  added, handed,        \* the work queue: connections pushed, connections popped
  idle,                 \* the number of workers in pop()
  at,                   \* where handle_connection is for each connection
  out                   \* the response a thread is writing

serverVars == <<mode, process, added, handed, idle, at, out>>
vars == <<serverVars, connVars>>

Queue == INSTANCE WorkQueue WITH Items <- Conns

Statuses == {"200", "400", "403", "404", "500", "empty"}
Size == [s \in Statuses |-> IF s = "200" THEN 1 + FileChunks ELSE 1]

\* caught says where in handle_connection the response is written: in the try
\* block, or in one of the handlers below it, out of which an exception escapes.
Response(n, status, caught) ==
  [request |-> n, status |-> status, sent |-> 0, caught |-> caught]
NoResponse == Response(0, "none", FALSE)

Init ==
  /\ mode \in Modes /\ process = "running"
  /\ Queue!Init
  /\ idle = IF mode = "pool" THEN PoolSize ELSE 0
  /\ at = [c \in Conns |-> "outside"]
  /\ out = [c \in Conns |-> NoResponse]
  /\ ConnectionsInit

Busy == {c \in Conns : at[c] \in {"read", "write"}}

-----------------------------------------------------------------------------
(* Responses: the request handlers, called on the connection's thread.     *)

\* FileServingHttpHandler::handle_request.  An unopenable file reads as empty;
\* reading a directory throws.
ServeFile(r) ==
  CASE r.file = "absent" -> "404"
    [] r.file = "private" -> "403"
    [] r.file = "regular" -> "200"
    [] r.file = "unopenable" -> "empty"
    [] r.file = "directory" -> "500"

\* RequestFilterMiddleware with HtAccessRequestFilter::allow_request.  Rules that
\* cannot be opened read as none; invalid rules and a directory throw.
FilterRequest(r) ==
  CASE r.rules = "denies" -> "403"
    [] r.rules \in {"invalid", "directory"} -> "500"
    [] OTHER -> ServeFile(r)

\* The body of the loop in handle_connection; an exception of the handler is
\* caught there and answered with an internal server error.
HandleRequest(c, n) ==
  LET r == asked[c][n] IN
    CASE r.form = "malformed" -> Response(n, "400", TRUE)
      [] r.form = "nohost" -> Response(n, "400", FALSE)
      [] r.form = "throws" -> Response(n, "500", TRUE)
      [] r.form = "valid" -> Response(n, FilterRequest(r), FilterRequest(r) = "500")

-----------------------------------------------------------------------------
(* HttpServer::serve, the connection handlers and the pool's workers.      *)

Start(c) == at' = [at EXCEPT ![c] = "read"]

\* accept() and handle_connection() on the main thread, which serves the
\* connection itself when there are no threads.
Accept(c) ==
  /\ process = "running" /\ conn[c] = "backlog"
  /\ mode = "nothread" => Busy = {}
  /\ conn' = [conn EXCEPT ![c] = "accepted"]
  /\ IF mode = "pool"
     THEN Queue!Add(c) /\ at' = [at EXCEPT ![c] = "queued"]
     ELSE Start(c) /\ UNCHANGED <<added, handed>>
  /\ UNCHANGED <<mode, process, idle, out, closed, clientVars, inbox, buffer, wire>>

\* Wrong on purpose: a worker that is not there, and the wrong connection.
TakeWithoutWorker ==
  /\ process = "running"
  /\ Queue!HandOver
  /\ Start(handed'[Len(handed')])
  /\ idle' = idle - 1
  /\ UNCHANGED <<mode, process, out, connVars>>
TakeNewest ==
  /\ process = "running" /\ idle > 0
  /\ Queue!HandOver
  /\ Start(added[Len(added)])
  /\ idle' = idle - 1
  /\ UNCHANGED <<mode, process, out, connVars>>

\* handle_work_queue: an idle worker pops the oldest connection.
Take ==
  /\ process = "running" /\ idle > 0
  /\ Queue!HandOver
  /\ Start(handed'[Len(handed')])
  /\ idle' = idle - 1
  /\ UNCHANGED <<mode, process, out, connVars>>

Stop(how) ==
  /\ process = "running"
  /\ process' = how /\ closed' = Conns
  /\ UNCHANGED <<mode, added, handed, idle, at, out, conn, clientVars, inbox, buffer, wire>>

\* accept() throws a ListenerError and serve() returns: main returns, but the
\* destructor of the pool's joinable threads terminates the process.
AcceptFails ==
  /\ "accept" \in Faults
  /\ mode = "nothread" => Busy = {}
  /\ Stop(IF mode = "pool" /\ PoolSize > 0 THEN "terminated" ELSE "exited")

\* The constructor of a connection's thread throws out of serve() and main.
ThreadFails ==
  /\ "thread" \in Faults /\ mode = "nopool" /\ \E c \in Conns : conn[c] = "backlog"
  /\ Stop("terminated")

-----------------------------------------------------------------------------
(* handle_connection.                                                      *)

\* It returns: the connection is destroyed, and with it the socket closed; the
\* thread ends, or the worker pops again.
Return(c) ==
  /\ at' = [at EXCEPT ![c] = "done"]
  /\ out' = [out EXCEPT ![c] = NoResponse]
  /\ closed' = closed \cup {c}
  /\ idle' = IF mode = "pool" THEN idle + 1 ELSE idle
  /\ UNCHANGED <<mode, process, added, handed>>

\* Wrong on purpose: the exception ends the process, or the worker.
EscapeTerminates(c) == Stop("terminated")
EscapeEndsWorker(c) ==
  IF mode = "pool"
  THEN /\ at' = [at EXCEPT ![c] = "done"]
       /\ out' = [out EXCEPT ![c] = NoResponse]
       /\ closed' = closed \cup {c}
       /\ UNCHANGED <<mode, process, added, handed, idle>>
  ELSE Stop("terminated")

\* An exception leaves it: only the worker's catch (...) stops it.
Escape(c) == IF mode = "pool" THEN Return(c) ELSE Stop("terminated")

Respond(c, response) ==
  /\ at' = [at EXCEPT ![c] = "write"]
  /\ out' = [out EXCEPT ![c] = response]
  /\ UNCHANGED <<mode, process, added, handed, idle, closed>>

\* Wrong on purpose: the request stays in the buffer.
ReadRequestPeeks(c, bytes) ==
  LET end == FirstEnd(bytes) IN
    /\ buffer' = [buffer EXCEPT ![c] = bytes]
    /\ IF end = 0
       THEN at' = [at EXCEPT ![c] = "read"] /\ out' = [out EXCEPT ![c] = NoResponse]
            /\ UNCHANGED <<mode, process, added, handed, idle, closed>>
       ELSE Respond(c, HandleRequest(c, bytes[end]))

\* BufferedConnection::read_until and what follows: the first complete request
\* is answered, or the thread goes on reading.
ReadRequest(c, bytes) ==
  LET end == FirstEnd(bytes) IN
    /\ buffer' = [buffer EXCEPT ![c] = After(bytes, end)]
    /\ IF end = 0
       THEN at' = [at EXCEPT ![c] = "read"] /\ out' = [out EXCEPT ![c] = NoResponse]
            /\ UNCHANGED <<mode, process, added, handed, idle, closed>>
       ELSE Respond(c, HandleRequest(c, bytes[end]))

Reading(c) == process = "running" /\ at[c] = "read"
Writing(c) == process = "running" /\ at[c] = "write"

\* recv() returns some of what has arrived.
ReadSome(c) ==
  /\ Reading(c)
  /\ \E m \in 1..Len(inbox[c]) : Receive(c, m) /\ ReadRequest(c, buffer[c] \o Received(c, m))
  /\ UNCHANGED <<conn, clientVars, wire>>

\* recv() finds the end of the stream or has waited for five seconds, which is
\* ConnectionClosed, or an error, which is answered like any exception.
ReadClosed(c) ==
  /\ Reading(c) /\ inbox[c] = <<>>
  /\ peer[c] = "fin" \/ (peer[c] = "open" /\ "slow" \in Faults)
  /\ Return(c)
  /\ UNCHANGED <<conn, clientVars, inbox, buffer, wire>>

ReadFails(c) ==
  /\ Reading(c) /\ peer[c] = "reset"
  /\ Respond(c, Response(0, "500", TRUE))
  /\ UNCHANGED <<conn, clientVars, inbox, buffer, wire>>

\* After the response: the end of the connection, or the next request.
EndsOnClose(r) == r.close    \* wrong on purpose: no return after a missing Host
Ends(r) == r.form = "nohost" \/ r.close
AfterWrite(c) ==
  IF out[c].caught \/ Ends(asked[c][out[c].request])
  THEN Return(c) /\ UNCHANGED buffer
  ELSE ReadRequest(c, buffer[c])

\* send() blocks until it has taken everything, some of it at a time.
SendSome(c) ==
  /\ Writing(c) /\ peer[c] # "reset"
  /\ \E m \in 1..(Size[out[c].status] - out[c].sent) :
       /\ Transmit(c, out[c].request, out[c].status, out[c].sent + 1, out[c].sent + m)
       /\ IF out[c].sent + m = Size[out[c].status] THEN AfterWrite(c)
          ELSE /\ out' = [out EXCEPT ![c].sent = @ + m]
               /\ UNCHANGED <<mode, process, added, handed, idle, at, closed, buffer>>
  /\ UNCHANGED <<conn, clientVars, inbox>>

\* send() stops when it has taken some, because the connection is reset or for an
\* error of its own: it returns what it has taken and only a warning is printed.
SendCutShort(c) ==
  /\ Writing(c) /\ (peer[c] = "reset" \/ "send" \in Faults) /\ out[c].sent > 0
  /\ AfterWrite(c)
  /\ UNCHANGED <<conn, clientVars, inbox, wire>>

\* send() fails at once: SIGPIPE ends the process if the client is gone, or the
\* ConnectionError is answered with an internal server error, or it escapes.
SendFails(c) ==
  /\ Writing(c) /\ (peer[c] = "reset" \/ "send" \in Faults) /\ out[c].sent = 0
  /\ \/ peer[c] = "reset" /\ "sigpipe" \in Faults /\ Stop("terminated")
     \/ /\ IF out[c].caught THEN Escape(c)
           ELSE Respond(c, Response(out[c].request, "500", TRUE))
        /\ UNCHANGED <<conn, clientVars, inbox, buffer, wire>>

Handle(c) ==
  ReadSome(c) \/ ReadClosed(c) \/ ReadFails(c) \/ SendSome(c) \/ SendCutShort(c) \/ SendFails(c)

-----------------------------------------------------------------------------
Next ==
  \/ \E c \in Conns : Accept(c) \/ Handle(c)
  \/ Take \/ AcceptFails \/ ThreadFails
  \/ \E c \in Conns : Client(c) /\ UNCHANGED serverVars

\* Threads that can run do, and clients read what they are sent: nothing in the
\* code bounds how long a send may block.
Spec == Init /\ [][Next]_vars
FairSpec == /\ Spec
            /\ WF_vars(Take)
            /\ \A c \in Conns : WF_vars(Accept(c)) /\ WF_vars(Handle(c))

-----------------------------------------------------------------------------
(* Properties.                                                             *)

\* The type of the threads' and the connections' state.
TypeOK ==
  /\ mode \in Modes /\ process \in {"running", "exited", "terminated"}
  /\ added \in Seq(Conns) /\ handed \in Seq(Conns) /\ idle \in Nat
  /\ at \in [Conns -> {"outside", "queued", "read", "write", "done"}]
  /\ out \in [Conns -> [request : 0..MaxRequests, status : Statuses \cup {"none"},
                        sent : Nat, caught : BOOLEAN]]
  /\ ConnectionsTypeOK(Statuses)

\* No more connections are served at once than the thread model has threads for:
\* one on the calling thread (connection_handlers.h:11-14), one per worker of the
\* pool (TESTING.txt:70-71); and however a connection ends, its worker serves
\* again (connection_handlers.cpp:57-66).
ThreadsConserved ==
  process = "running" =>
    /\ mode = "nothread" => Cardinality(Busy) <= 1
    /\ mode = "pool" => Cardinality(Busy) + idle = PoolSize

\* The queue holds each waiting connection once and no other: none is lost
\* between the main thread and the workers, none served by two of them.
QueueHoldsTheWaiting ==
  LET waiting == SubSeq(added, Len(handed) + 1, Len(added)) IN
    /\ Range(waiting) = {c \in Conns : at[c] = "queued"}
    /\ \A c \in Busy : mode = "pool" => Cardinality({k \in DOMAIN handed : handed[k] = c}) = 1

\* In the pool no exception that escapes from serving a connection ends the
\* process: it stays with the worker (connection_handlers.cpp:60-64).  What does
\* end it is left out by name: an accept() that fails, and SIGPIPE, which a client
\* that resets a connection during a response can raise (connection.cpp:65).
PoolSurvives ==
  mode = "pool" /\ Faults \cap {"accept", "sigpipe"} = {} => process = "running"

\* What each request deserves of the synchronous handlers: a file or rules that
\* cannot be opened read as empty, an error while serving is reported.
Deserved(r) ==
  CASE r.form \in {"malformed", "nohost"} -> "400"
    [] r.form = "throws" -> "500"
    [] r.form = "valid" /\ r.rules \in {"invalid", "directory"} -> "500"
    [] r.form = "valid" /\ r.rules = "denies" -> "403"
    [] OTHER -> (CASE r.file = "absent" -> "404" [] r.file = "private" -> "403"
                   [] r.file = "regular" -> "200" [] r.file = "unopenable" -> "empty"
                   [] r.file = "directory" -> "500")
Answer == [r \in Requests |-> Deserved(r)]
Final == {r \in Requests : Answer[r] \in {"400", "500"} \/ r.close}

HttpService == INSTANCE HttpService

\* On every connection the bytes the client is sent are the answers to its
\* requests, whole, in order, and none after one that ends the connection.  It
\* holds while send() fails only on connections that stay broken.
AnswersInOrder ==
  \A c \in Conns : IsPrefix(wire[c], HttpService!Transcript(asked[c]))

\* Every thread model implements the same abstract service.
ImplementsHttpService == HttpService!Spec

\* A queued connection is eventually served while the process runs: no worker is
\* held for ever, because reads time out and clients read their responses.
EventuallyServed ==
  \A c \in Conns : at[c] = "queued" ~> (at[c] # "queued" \/ process # "running")

\* "It throws ConnectionClosed if the underlying connection closes"
\* (server.h:15-16): a response that cannot be sent because the client has gone
\* ends the connection quietly.
WriteSeesClosed ==
  [][\A c \in Conns :
       at[c] = "write" /\ peer[c] = "reset" /\ out[c].sent = 0 /\ out'[c] # out[c]
         => at'[c] = "done"]_vars
=============================================================================
