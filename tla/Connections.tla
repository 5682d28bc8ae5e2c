----------------------------- MODULE Connections -----------------------------
(***************************************************************************)
(* The connections that clients open to either server, seen from the       *)
(* clients and the kernel: what has been sent, what recv() has still to    *)
(* return, what send() has taken.  The kernel and the clients are not part *)
(* of the repository; they are modelled from what the servers' accept,     *)
(* recv, send and close calls can observe of them.                         *)
(*                                                                         *)
(* A client's bytes are symbols: n is the rest of its n-th request up to   *)
(* the blank line, 0 is a piece that completes no request.  A response is  *)
(* a number of parts, the first of them the head.                          *)
(***************************************************************************)
EXTENDS Naturals, FiniteSets, SequencesExt

CONSTANTS
  Conns,                \* connections
  Requests,             \* the requests clients send: a subset of RequestType
  MaxRequests,          \* bound on the requests of one connection
  Faults                \* what may go wrong around the server: a subset of FaultType

\* How far a request gets before a response is due: no blank-line-terminated text
\* that parse_request_frame accepts, no Host header, an exception other than a
\* parse error (as out of memory is) while it is handled, or a valid request.
Forms == {"malformed", "nohost", "throws", "valid"}

\* What the .htaccess file that governs the request says of this client, or why
\* it says nothing: there is none, its rules do not parse, it cannot be opened,
\* it is a directory.
Rules == {"none", "allows", "denies", "invalid", "unopenable", "directory"}

\* What canonicalize_path and the file system make of the URI.
Files == {"absent", "private", "regular", "unopenable", "directory"}

\* close: the request has "Connection: close".
RequestType == [form : Forms, close : BOOLEAN, rules : Rules, file : Files]

\* "slow": clients pause for longer than a timeout and stop reading; "reset":
\* clients reset connections; "sigpipe": a send on a reset connection raises
\* SIGPIPE; "accept": accept() fails; "spurious": poll() reports a socket on
\* which recv() or send() then would block; "send": send() fails, or stops halfway
\* in the synchronous server, on a connection that goes on (as for want of kernel
\* memory); "poll": poll() fails; "thread": a thread cannot be created.
FaultType == {"slow", "reset", "sigpipe", "accept", "spurious", "send", "poll", "thread"}

ASSUME ConnectionsAssumption ==
  Requests \subseteq RequestType /\ Faults \subseteq FaultType /\ MaxRequests \in Nat

VARIABLES
  conn,                 \* each connection as the listener sees it
  closed,               \* the connections whose socket the server has closed
  peer,                 \* the client's end of each connection
  asked, partial,       \* the requests sent; whether a piece of the next has been
  inbox,                \* the received bytes recv() has not returned yet
  buffer,               \* the bytes the server has read but not consumed
  wire                  \* the parts of responses send() has taken

connVars == <<conn, closed, peer, asked, partial, inbox, buffer, wire>>
clientVars == <<peer, asked, partial>>

ConnectionsInit ==
  /\ conn = [c \in Conns |-> "away"] /\ closed = {}
  /\ peer = [c \in Conns |-> "open"]
  /\ asked = [c \in Conns |-> <<>>] /\ partial = [c \in Conns |-> FALSE]
  /\ inbox = [c \in Conns |-> <<>>] /\ buffer = [c \in Conns |-> <<>>]
  /\ wire = [c \in Conns |-> <<>>]

\* statuses: those of the server's responses.
ConnectionsTypeOK(statuses) ==
  /\ conn \in [Conns -> {"away", "backlog", "accepted"}] /\ closed \in SUBSET Conns
  /\ peer \in [Conns -> {"open", "fin", "reset"}]
  /\ asked \in [Conns -> Seq(Requests)] /\ partial \in [Conns -> BOOLEAN]
  /\ inbox \in [Conns -> Seq(0..MaxRequests)]
  /\ buffer \in [Conns -> Seq(0..MaxRequests)]
  /\ wire \in [Conns -> Seq([request : 1..MaxRequests, status : statuses, part : Nat \ {0}])]

-----------------------------------------------------------------------------
(* What the clients do.                                                    *)

Connect(c) ==
  /\ conn[c] = "away" /\ c \notin closed
  /\ conn' = [conn EXCEPT ![c] = "backlog"]
  /\ UNCHANGED <<closed, clientVars, inbox, buffer, wire>>

Connected(c) == conn[c] # "away" /\ c \notin closed

SendPiece(c) ==
  /\ Connected(c) /\ peer[c] = "open" /\ ~partial[c] /\ Len(asked[c]) < MaxRequests
  /\ partial' = [partial EXCEPT ![c] = TRUE]
  /\ inbox' = [inbox EXCEPT ![c] = Append(@, 0)]
  /\ UNCHANGED <<conn, closed, peer, asked, buffer, wire>>

SendRequest(c) ==
  /\ Connected(c) /\ peer[c] = "open" /\ Len(asked[c]) < MaxRequests
  /\ \E r \in Requests : asked' = [asked EXCEPT ![c] = Append(@, r)]
  /\ partial' = [partial EXCEPT ![c] = FALSE]
  /\ inbox' = [inbox EXCEPT ![c] = Append(@, Len(asked[c]) + 1)]
  /\ UNCHANGED <<conn, closed, peer, buffer, wire>>

\* The client closes its sending side.
Finish(c) ==
  /\ Connected(c) /\ peer[c] = "open"
  /\ peer' = [peer EXCEPT ![c] = "fin"]
  /\ UNCHANGED <<conn, closed, asked, partial, inbox, buffer, wire>>

\* The client resets the connection, or answers a send with a reset.
Reset(c) ==
  /\ "reset" \in Faults
  /\ Connected(c) /\ peer[c] # "reset"
  /\ peer' = [peer EXCEPT ![c] = "reset"]
  /\ UNCHANGED <<conn, closed, asked, partial, inbox, buffer, wire>>

Client(c) == Connect(c) \/ SendPiece(c) \/ SendRequest(c) \/ Finish(c) \/ Reset(c)

-----------------------------------------------------------------------------
(* What the servers' system calls do to a connection.                      *)

\* recv() returns the first m of the symbols that have arrived.
Received(c, m) == SubSeq(inbox[c], 1, m)
Receive(c, m) == inbox' = [inbox EXCEPT ![c] = SubSeq(@, m + 1, Len(@))]

\* recv() reports an error or the end of the stream.
AtEnd(c) == peer[c] = "reset" \/ (peer[c] = "fin" /\ inbox[c] = <<>>)

\* send() takes parts from..to of a response to the n-th request.
Parts(n, status, from, to) ==
  [k \in 1..(to - from + 1) |-> [request |-> n, status |-> status, part |-> from + k - 1]]
Transmit(c, n, status, from, to) ==
  wire' = [wire EXCEPT ![c] = @ \o Parts(n, status, from, to)]

\* Where the first request ends in the bytes read so far, 0 if none does.
FirstEnd(bytes) == SelectInSeq(bytes, LAMBDA b : b # 0)
After(bytes, end) == SubSeq(bytes, end + 1, Len(bytes))
=============================================================================
