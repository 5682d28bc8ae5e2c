----------------------------- MODULE HttpService -----------------------------
(***************************************************************************)
(* What both servers promise a client, with no sockets, threads, files or  *)
(* event loop: on each connection the answers come back whole, in the      *)
(* order of the requests and with the status each request deserves, the    *)
(* connection ends after a request that asks for it (Final), and a request  *)
(* is eventually answered unless the server closes the connection.         *)
(***************************************************************************)
EXTENDS Naturals, SequencesExt

CONSTANTS
  Conns,                \* connections
  Requests,             \* the requests a client can send
  Answer,               \* the status each request deserves, "none" if it gets no answer
  Size,                 \* the number of parts of a response of each status
  Final,                \* the requests after which the server serves no other
  MaxRequests           \* bound on the requests of one connection

VARIABLES
  asked,                \* the requests each client has sent
  wire,                 \* the parts of responses written to each connection
  closed                \* the connections the server has closed

vars == <<asked, wire, closed>>

Response(n, status) ==
  [k \in 1..Size[status] |-> [request |-> n, status |-> status, part |-> k]]

\* The parts of every answer that the requests rs deserve, in order.
Transcript(rs) ==
  LET end == SelectInSeq(rs, LAMBDA r : r \in Final)
      answers == [n \in 1..(IF end = 0 THEN Len(rs) ELSE end) |->
                    IF Answer[rs[n]] = "none" THEN <<>>
                    ELSE Response(n, Answer[rs[n]])]
  IN FlattenSeq(answers)

Init ==
  /\ asked = [c \in Conns |-> <<>>]
  /\ wire = [c \in Conns |-> <<>>]
  /\ closed = {}

Ask(c) ==
  /\ Len(asked[c]) < MaxRequests
  /\ \E r \in Requests : asked' = [asked EXCEPT ![c] = Append(@, r)]
  /\ UNCHANGED <<wire, closed>>

Deliver(c) ==
  /\ c \notin closed
  /\ LET due == Transcript(asked[c]) IN
       \E n \in (Len(wire[c]) + 1)..Len(due) : wire' = [wire EXCEPT ![c] = SubSeq(due, 1, n)]
  /\ UNCHANGED asked
  /\ closed' \in {closed, closed \cup {c}}

Close == \E C \in SUBSET (Conns \ closed) : closed' = closed \cup C /\ UNCHANGED <<asked, wire>>

Next == Close \/ \E c \in Conns : Ask(c) \/ Deliver(c)

Spec == Init /\ [][Next]_vars /\ \A c \in Conns : WF_vars(Deliver(c))
=============================================================================
