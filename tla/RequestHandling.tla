--------------------------- MODULE RequestHandling ---------------------------
(***************************************************************************)
(* One connection's requests, from the bytes recv() returns to the answer, *)
(* in both servers, against a file system that others change between any   *)
(* two system calls: read_until, parse_request_frame, the .htaccess filter *)
(* and the file handler.  SyncServer and AsyncServer take the outcome of   *)
(* all this as given.                                                      *)
(*                                                                         *)
(* The two servers make the same calls in the same order and differ in     *)
(* what becomes of a failing one, so they share their actions; mode tells  *)
(* them apart.                                                             *)
(***************************************************************************)
EXTENDS HttpMessages, HtAccess

CONSTANTS
  Scenarios,            \* what the client sends and what the server finds
  FileChunks            \* the reads a whole file takes

\* A file: what kind it is, whether others may read it, whether the server can
\* open it, its inode, and the version of its contents, which is also its date.
Absent == [kind |-> "absent", world |-> FALSE, opens |-> FALSE, inode |-> 0, version |-> 0]
FileType ==
  [kind : {"regular", "directory", "absent"}, world : BOOLEAN, opens : BOOLEAN,
   inode : Nat, version : Nat]

\* sent: the bytes; requests: what the client packed into them; atOnce: they
\* arrive together; files: the files by path, from the document root, a directory
\* by each path that a system call resolves to it; texts: the successive contents
\* of a rules file; envs: what lookups and shifts may give;
\* maxChanges: a bound on the changes of the file system.
ASSUME RequestHandlingAssumption ==
  /\ FileChunks \in Nat \ {0}
  /\ \A s \in Scenarios :
       /\ s.mode \in {"sync", "async"} /\ s.atOnce \in BOOLEAN /\ s.client \in Address
       /\ s.sent \in Seq(Range(s.sent)) /\ s.texts \in Seq(Range(s.texts))
       /\ \A text \in Range(s.texts) : text \in Seq(Range(text))
       /\ s.envs # {} /\ (\A env \in s.envs : IsEnv(env)) /\ s.maxChanges \in Nat
       /\ <<>> \notin DOMAIN s.files
       /\ \A p \in DOMAIN s.files :
            Last(Components(p)) \in {<<>>, Here, Up} => s.files[p].kind = "directory"
       /\ \A p \in DOMAIN s.files :
            \/ s.files[p] = Absent
            \/ /\ s.files[p] \in FileType /\ s.files[p].kind # "absent"
               /\ s.files[p].version \in DOMAIN s.texts

VARIABLES
  scenario,             \* never changes
  received,             \* how much of scenario.sent recv() has returned
  buffer,               \* what has been read and not consumed
  frames,               \* history: the frames cut from it
  at,                   \* where the server is
  request,              \* the request it handles
  path,                 \* the file it looks at
  fs,                   \* the file system
  changes,              \* the number of changes others have made
  open,                 \* the open file: its inode and the version read from it
  contents,             \* the version of each chunk read, <<>> of an unreadable file
  fetched,              \* which of "contents" and "date" the response has
  date,                 \* the version whose date it has, 0 for garbage
  status,               \* the status of the response
  seen                  \* history: the states of each path during the request

connVars == <<received, buffer, frames>>
fileVars == <<open, contents, fetched, date>>
vars == <<scenario, connVars, at, request, path, fs, changes, fileVars, status, seen>>

mode == scenario.mode
File(p) == IF p \in DOMAIN fs THEN fs[p] ELSE Absent
NoRequest == HttpRequest(<<>>, <<>>, <<>>, <<>>)
Closed == [inode |-> 0, version |-> 0]

Init ==
  /\ scenario \in Scenarios
  /\ received = 0 /\ buffer = <<>> /\ frames = <<>>
  /\ at = "read" /\ request = NoRequest /\ path = <<>>
  /\ fs = scenario.files /\ changes = 0
  /\ open = Closed /\ contents = <<>> /\ fetched = {} /\ date = 0
  /\ status = "none"
  /\ seen = [p \in DOMAIN fs |-> {fs[p]}]

-----------------------------------------------------------------------------
(* Reading a request.                                                      *)

Respond(s) ==
  /\ at' = "respond" /\ status' = s
  /\ UNCHANGED <<request, path, fileVars>>

\* An exception while a request is handled: handle_connection answers it with an
\* internal server error, process_pollable only prints it and drops the pollable,
\* and with it the connection.
Throw ==
  IF mode = "sync" THEN Respond("500")
  ELSE /\ at' = "closed"
       /\ UNCHANGED <<request, path, fileVars, status>>

StartFresh ==
  path' = <<>> /\ open' = Closed /\ contents' = <<>> /\ fetched' = {} /\ date' = 0

\* The frame becomes a request, or is answered at once.
HandleFrame(frame) ==
  LET parsed == ParseRequest(frame) IN
    /\ frames' = Append(frames, frame)
    /\ seen' = [p \in DOMAIN fs |-> {fs[p]}]
    /\ StartFresh
    /\ IF parsed # <<>> /\ HasHeader(parsed[1].headers, <<"Host">>)
       THEN request' = parsed[1] /\ at' = "filter" /\ status' = "none"
       ELSE request' = NoRequest /\ at' = "respond" /\ status' = "400"

\* The first frame is taken out of bytes; the rest stays in the buffer.
TakeFrame(bytes) ==
  LET end == Find(bytes, CRLFCRLF, 0) IN
    /\ buffer' = Remaining(bytes, end, Len(CRLFCRLF))
    /\ HandleFrame(Popped(bytes, end))

GoOnReading(bytes) ==
  /\ buffer' = bytes
  /\ at' = "read" /\ request' = NoRequest /\ status' = "none"
  /\ StartFresh
  /\ UNCHANGED <<frames, seen>>

\* What read() makes of the bytes received: string(buf) ends at the first NUL,
\* string(buf, received) does not.
Piece(bytes) ==
  IF mode = "sync" THEN SubSeq(bytes, 1, Find(bytes, <<"NUL">>, 0)) ELSE bytes

\* Wrong on purpose: the delimiter is looked for in the new piece only.
ReadUntilInPiece(piece) ==
  IF Has(piece, CRLFCRLF) THEN TakeFrame(buffer \o piece) ELSE GoOnReading(buffer \o piece)

\* read_until after a read.  An empty piece ends the synchronous one with
\* whatever there is, as if it were a frame.
ReadUntil(piece) ==
  LET bytes == buffer \o piece IN
    CASE Has(bytes, CRLFCRLF) -> TakeFrame(bytes)
      [] ~Has(bytes, CRLFCRLF) /\ mode = "sync" /\ piece = <<>> ->
           buffer' = <<>> /\ HandleFrame(bytes)
      [] OTHER -> GoOnReading(bytes)

Receive ==
  /\ at = "read" /\ received < Len(scenario.sent)
  /\ \E end \in (received + 1)..Len(scenario.sent) :
       /\ scenario.atOnce => end = Len(scenario.sent)
       /\ received' = end
       /\ ReadUntil(Piece(SubSeq(scenario.sent, received + 1, end)))
  /\ UNCHANGED <<scenario, fs, changes>>

\* recv() finds the end of the stream, or nothing for five seconds.
ReceiveNothing ==
  /\ at = "read"
  /\ at' = "closed"
  /\ UNCHANGED <<scenario, connVars, request, path, fs, changes, fileVars, status, seen>>

\* Any other error of recv().
ReceiveFails ==
  /\ at = "read"
  /\ Throw
  /\ UNCHANGED <<scenario, connVars, fs, changes, seen>>

-----------------------------------------------------------------------------
(* The .htaccess filter.                                                   *)

\* Wrong on purpose: the rules of the path as it was sent.
RulesPathAsSent == CString(HtaccessPath(request.uri))

\* The path that access() and open() get.  The code tests it for "" before c_str(),
\* which makes no path empty: each begins with a slash.
RulesPath == CString(HtaccessPath(CanonicalizePath(request.uri)))

Go(to, p) ==
  /\ at' = to /\ path' = p
  /\ UNCHANGED <<request, fileVars, status>>

\* Wrong on purpose: rules that others may not read count for nothing, as files do.
FilterAccessIfReadable ==
  /\ at = "filter"
  /\ IF RulesPath = <<>> \/ ~File(RulesPath).world
     THEN Go("serve", <<>>) ELSE Go("open rules", RulesPath)
  /\ UNCHANGED <<scenario, connVars, fs, changes, seen>>

FilterAccess ==
  /\ at = "filter"
  /\ IF RulesPath = <<>> \/ File(RulesPath).kind = "absent"
     THEN Go("serve", <<>>) ELSE Go("open rules", RulesPath)
  /\ UNCHANGED <<scenario, connVars, fs, changes, seen>>

Readable(f) == f.kind = "regular" /\ f.opens
OpenableDirectory(f) == f.kind = "directory" /\ f.opens
ReadsEmpty(f) == mode = "sync" /\ ~Readable(f) /\ ~OpenableDirectory(f)

\* What reading a file that cannot be read comes to.  An ifstream that could not
\* be opened reads as an empty file, one of a directory throws.  The pollable of a
\* file that could not be opened runs into its deadline and is dropped with the
\* connection; the one of a directory is polled for ever.
ReadUnreadable ==
  IF mode = "sync" THEN Throw
  ELSE /\ at' = IF OpenableDirectory(File(path)) THEN "stuck" ELSE "closed"
       /\ UNCHANGED <<request, path, fileVars, status>>

OpenFile(to) ==
  /\ at' = to /\ open' = [inode |-> File(path).inode, version |-> File(path).version]
  /\ UNCHANGED <<request, path, contents, fetched, date, status>>

\* Wrong on purpose: rules that cannot be opened are looked for again.
OpenRulesRetry ==
  /\ at = "open rules"
  /\ IF Readable(File(path)) THEN OpenFile("read rules") ELSE Go("filter", <<>>)
  /\ UNCHANGED <<scenario, connVars, fs, changes, seen>>

OpenRules ==
  /\ at = "open rules"
  /\ CASE Readable(File(path)) -> OpenFile("read rules")
       [] ReadsEmpty(File(path)) -> Go("serve", <<>>)
       [] OTHER -> ReadUnreadable
  /\ UNCHANGED <<scenario, connVars, fs, changes, seen>>

\* The whole text is read at once, parsed, and asked about the client.
ReadRules ==
  /\ at = "read rules"
  /\ \E env \in scenario.envs :
       LET verdict == Verdict(scenario.texts[open.version], scenario.client, env) IN
         CASE verdict = "throws" -> Throw
           [] verdict = "deny" -> Respond("403")
           [] OTHER -> Go("serve", <<>>)
  /\ UNCHANGED <<scenario, connVars, fs, changes, seen>>

-----------------------------------------------------------------------------
(* The file handler.                                                       *)

IndexPath == <<"/", "index", ".html">>
ServedPath ==
  LET canonical == CanonicalizePath(request.uri)
  IN CString(IF canonical = Slash THEN IndexPath ELSE canonical)

ServeAccess ==
  /\ at = "serve"
  /\ IF ServedPath = <<>> \/ File(ServedPath).kind = "absent"
     THEN Respond("404") ELSE Go("stat", ServedPath)
  /\ UNCHANGED <<scenario, connVars, fs, changes, seen>>

\* Wrong on purpose: the permission of the server itself is tested.
StatOwn ==
  /\ at = "stat"
  /\ IF File(path).opens THEN Go("fetch", path) ELSE Respond("403")
  /\ UNCHANGED <<scenario, connVars, fs, changes, seen>>

\* stat() fails if the file is gone, and the mode tested is what was on the stack.
Stat ==
  /\ at = "stat"
  /\ \E readable \in IF File(path).kind = "absent" THEN BOOLEAN ELSE {File(path).world} :
       IF readable THEN Go("fetch", path) ELSE Respond("403")
  /\ UNCHANGED <<scenario, connVars, fs, changes, seen>>

\* The response needs the contents and the date.  The arguments of ok_response
\* are evaluated in any order; the callbacks ask for the contents first.
Fetched(what) ==
  /\ fetched' = fetched \cup {what}
  /\ IF fetched' = {"contents", "date"} THEN at' = "respond" /\ status' = "200"
     ELSE at' = "fetch" /\ UNCHANGED status

OpenContents ==
  /\ at = "fetch" /\ "contents" \notin fetched
  /\ CASE Readable(File(path)) -> OpenFile("read contents")
       [] ReadsEmpty(File(path)) ->
            Fetched("contents") /\ UNCHANGED <<request, path, open, contents, date>>
       [] OTHER -> ReadUnreadable
  /\ UNCHANGED <<scenario, connVars, fs, changes, seen>>

\* Wrong on purpose: the file is opened again for each chunk.
ReadContentsReopened ==
  /\ at = "read contents"
  /\ contents' = Append(contents, File(path).version)
  /\ IF Len(contents') = FileChunks THEN Fetched("contents") ELSE UNCHANGED <<at, fetched, status>>
  /\ UNCHANGED <<scenario, connVars, request, path, fs, changes, open, date, seen>>

\* Wrong on purpose: one read too many.
ReadContentsPastEnd ==
  /\ at = "read contents"
  /\ contents' = Append(contents, open.version)
  /\ IF Len(contents) = FileChunks THEN Fetched("contents") ELSE UNCHANGED <<at, fetched, status>>
  /\ UNCHANGED <<scenario, connVars, request, path, fs, changes, open, date, seen>>

ReadContents ==
  /\ at = "read contents"
  /\ contents' = Append(contents, open.version)
  /\ IF Len(contents') = FileChunks THEN Fetched("contents") ELSE UNCHANGED <<at, fetched, status>>
  /\ UNCHANGED <<scenario, connVars, request, path, fs, changes, open, date, seen>>

\* The date of the file, or what was on the stack if it is gone.
LastModified ==
  /\ at = "fetch" /\ "date" \notin fetched
  /\ mode = "async" => "contents" \in fetched
  /\ date' = IF File(path).kind = "absent" THEN 0 ELSE File(path).version
  /\ Fetched("date")
  /\ UNCHANGED <<scenario, connVars, request, path, fs, changes, open, contents, seen>>

\* The response is written.  The connection ends, or the next request is taken
\* from the buffer, or read.
LastResponse == status \in {"400", "500"} \/ AsksToClose(request)
WriteResponse ==
  /\ at = "respond"
  /\ IF LastResponse THEN at' = "closed" /\ UNCHANGED <<connVars, request, path, fileVars, status, seen>>
     ELSE /\ UNCHANGED received
          /\ IF Has(buffer, CRLFCRLF) THEN TakeFrame(buffer) ELSE GoOnReading(buffer)
  /\ UNCHANGED <<scenario, fs, changes>>

-----------------------------------------------------------------------------
(* Others change the file system while a request is handled.               *)

Change(p, f) ==
  /\ at \notin {"read", "closed", "stuck"} /\ changes < scenario.maxChanges
  /\ f.version <= Len(scenario.texts)
  /\ changes' = changes + 1
  /\ fs' = [fs EXCEPT ![p] = f]
  /\ seen' = [seen EXCEPT ![p] = @ \cup {f}]
  /\ UNCHANGED <<scenario, connVars, at, request, path, contents, fetched, date, status>>

\* A new file takes the name; whoever has the old one open keeps it.
Replace(p) ==
  /\ fs[p].kind # "directory"
  /\ LET next == fs[p].version + 1 IN
       \E world, opens \in BOOLEAN :
         Change(p, [kind |-> "regular", world |-> world, opens |-> opens,
                    inode |-> next, version |-> next])
  /\ UNCHANGED open

\* The contents change under whoever has the file open.
Rewrite(p) ==
  /\ fs[p].kind = "regular"
  /\ Change(p, [fs[p] EXCEPT !.version = @ + 1])
  /\ open' = IF p = path /\ open.inode = fs[p].inode
             THEN [open EXCEPT !.version = fs[p].version + 1] ELSE open

Unlink(p) ==
  /\ fs[p].kind = "regular"
  /\ Change(p, [Absent EXCEPT !.version = fs[p].version])
  /\ UNCHANGED open

Chmod(p) ==
  /\ fs[p].kind # "absent"
  /\ \E world, opens \in BOOLEAN : Change(p, [fs[p] EXCEPT !.world = world, !.opens = opens])
  /\ UNCHANGED open

-----------------------------------------------------------------------------
Handle ==
  \/ FilterAccess \/ OpenRules \/ ReadRules
  \/ ServeAccess \/ Stat \/ OpenContents \/ ReadContents \/ LastModified

Others == \E p \in DOMAIN fs : Replace(p) \/ Rewrite(p) \/ Unlink(p) \/ Chmod(p)

\* A closed connection stays closed, and a directory is polled for ever.
Stay == at \in {"closed", "stuck"} /\ UNCHANGED vars

Next == Receive \/ ReceiveNothing \/ ReceiveFails \/ Handle \/ WriteResponse \/ Others \/ Stay

\* Weak fairness of Handle, which is enabled in each of these places and in no
\* other: the server goes on with a request, the client and the others owe nothing.
Handling == {"filter", "open rules", "read rules", "serve", "stat", "fetch", "read contents"}
Fairness == []<>(at \notin Handling) \/ []<><<Handle>>_vars

Spec == Init /\ [][Next]_vars /\ Fairness

-----------------------------------------------------------------------------
(* Properties.                                                             *)

\* The type of the state of a connection, a request and the file system.
TypeOK ==
  /\ received \in 0..Len(scenario.sent)
  /\ DOMAIN fs = DOMAIN scenario.files /\ changes \in 0..scenario.maxChanges
  /\ \A p \in DOMAIN fs : fs[p] \in FileType /\ fs[p].version <= Len(scenario.texts)
  /\ at \in Handling \cup {"read", "respond", "closed", "stuck"}
  /\ open \in [inode : Nat, version : 0..Len(scenario.texts)]
  /\ contents \in Seq(Nat) /\ Len(contents) <= FileChunks
  /\ fetched \subseteq {"contents", "date"} /\ date \in Nat
  /\ status \in {"none", "200", "400", "403", "404", "500"}
  /\ DOMAIN seen = DOMAIN fs /\ \A p \in DOMAIN fs : seen[p] \subseteq FileType

\* The bytes so far reach the program as they were sent: string(buf) loses those
\* that follow a NUL (connection.cpp:60).
Unaltered == mode = "async" \/ "NUL" \notin Range(SubSeq(scenario.sent, 1, received))

\* However recv() cuts the stream, no byte of it is lost, doubled or moved: the
\* frames with their delimiters and the buffer are what has been received, a frame
\* ends at the first delimiter, and the server waits for more only while the buffer
\* holds no frame (connection.h:66-71).
FramesCut ==
  /\ at = "read" => ~Has(buffer, CRLFCRLF)
  /\ Unaltered =>
      /\ FlattenSeq([k \in DOMAIN frames |-> frames[k] \o CRLFCRLF]) \o buffer
           = SubSeq(scenario.sent, 1, received)
      /\ \A k \in DOMAIN frames : Find(frames[k] \o CRLFCRLF, CRLFCRLF, 0) = Len(frames[k])

\* The requests read are those the client packed, in order, with every header
\* (http.h:48-53): parsing undoes packing across reads and pipelining.
RequestsAsSent ==
  Unaltered =>
    \A k \in DOMAIN frames \cap DOMAIN scenario.requests :
      ParseRequest(frames[k]) = <<scenario.requests[k]>>

\* A frame is answered as a bad request exactly if it is none that the grammar
\* generates or does not name a host (http.cpp:201-260, connection_handlers.cpp:18).
BadRequests ==
  at = "respond" /\ frames # <<>> =>
    (status = "400" <=> ~(WellFormed(Last(frames)) /\ Mentions(Last(frames), "Host")))

\* What the path of a request names does not depend on how it is written: each
\* ".." takes back the nearest name before it, and a path is refused exactly if it
\* leaves the root on its way (util.cpp:88-114).  This is the string that
\* canonicalize_path makes, before c_str() cuts it.
PathsResolved ==
  request # NoRequest =>
    LET canonical == CanonicalizePath(request.uri) IN
      IF LeavesRoot(request.uri) THEN canonical = <<>>
      ELSE canonical = Slash \o Join(Slash, Resolved(request.uri))

\* In the asynchronous server a path may hold a NUL (async_connection.cpp:64), at
\* which every system call ends it; read() of the other one ends a piece there.
NulInPath == mode = "async" /\ "NUL" \in Range(request.uri)

\* The rules asked about a request are those of the directory of the file it is
\* answered with, and no file outside the root is touched (request_filters.cpp:11-21):
\* in the synchronous server for every stream, in the asynchronous one for every
\* path without a NUL.  Of a path with one nothing is claimed.
RulesOfTheDirectory ==
  path # <<>> /\ ~NulInPath =>
    LET touched == Components(path)
        resolved == Resolved(request.uri)
    IN /\ ~LeavesRoot(request.uri) /\ touched[1] = <<>>
       /\ \A k \in 2..Len(touched) : touched[k] \notin {<<>>, Here, Up}
       /\ at \in {"open rules", "read rules"} =>
            touched = <<<<>>>> \o (IF resolved = <<>> THEN <<>> ELSE Front(resolved))
                        \o <<<<".htaccess">>>>

\* A text means what it says line by line: the first line that speaks of the
\* client decides, and a line that means nothing throws (htaccess.cpp:84-144).
\* Claimed of texts without a NUL, which would end an address or a name.
VerdictsAsWritten ==
  at = "read rules" =>
    LET text == scenario.texts[open.version] IN
      LengthsInRange(text) /\ "NUL" \notin Range(text) =>
        \A env \in scenario.envs :
          Verdict(text, scenario.client, env) = ReferenceVerdict(text, scenario.client, env)

\* The states a path has been in since the request was read.
States(p) == IF p \in DOMAIN seen THEN seen[p] ELSE {Absent}
Says(f, verdict) ==
  /\ f.kind = "regular" /\ f.version \in DOMAIN scenario.texts
  /\ \E env \in scenario.envs : Verdict(scenario.texts[f.version], scenario.client, env) = verdict

Denied ==
  /\ request # NoRequest
  /\ \A f \in States(RulesPath) : Readable(f) /\ ~Says(f, "allow") /\ ~Says(f, "throws")

\* While the rules looked at are in place and say nothing but "deny" to the client,
\* however they are replaced and names resolve, nothing changed beside them lets
\* the request through (request_filters.cpp:27-40, async_request_filters.cpp:16-34).
DeniedStaysDenied ==
  Denied => /\ at \notin {"serve", "stat", "fetch", "read contents"}
            /\ at = "respond" => status = "403"

\* The rules let the request through at some moment: there were none, they allow
\* the client, or they read as an empty file, as the synchronous server has it.
LetThrough ==
  \E f \in States(RulesPath) : f.kind = "absent" \/ Says(f, "allow") \/ ReadsEmpty(f)

\* The file passed for one that others may read: it was, or stat() found it gone.
PassedAsReadable ==
  \E f \in States(ServedPath) : f.world \/ f.kind = "absent"

Justified ==
  LET rules == States(RulesPath)
      files == States(ServedPath)
      broken == \E f \in rules : OpenableDirectory(f) \/ Says(f, "throws")
      unreadable == \E f \in rules \cup files : f.kind = "absent" \/ ~f.opens
  IN \/ LetThrough /\ \/ status = "404" /\ (ServedPath = <<>> \/ \E f \in files : f.kind = "absent")
                      \/ status = "403" /\ \E f \in files : ~f.world
                      \/ status = "500" /\ mode = "sync" /\ \E f \in files : OpenableDirectory(f)
                      \/ status = "200" /\ PassedAsReadable /\ \E f \in files : f.kind # "absent"
     \/ status = "403" /\ \E f \in rules : Says(f, "deny")
     \/ status = (IF mode = "sync" THEN "500" ELSE "none") /\ broken
     \/ status = "none" /\ mode = "async" /\ unreadable

\* Every end of a request has moments that explain it, whatever changed before and
\* after: rules that denied it, or rules that did not and a file that was absent,
\* private, unreadable or there.  A private file is served only if it was public or
\* gone at some moment, and a request passes rules that deny it only if they were
\* absent, or in the synchronous server unreadable, at some moment
\* (request_handlers.cpp:11-31, async_request_handlers.cpp:17-44).
EndsJustified ==
  /\ at \in {"respond", "closed"} /\ request # NoRequest => Justified
  /\ at = "stuck" => mode = "async"
       /\ \E f \in States(RulesPath) \cup States(ServedPath) : OpenableDirectory(f)

\* A response has the contents that the file had at one moment, whole, if nobody
\* writes into the file in place; the date is of some moment too, and in the
\* asynchronous server of one no earlier, or garbage if the file has gone
\* (file_repository.cpp:26-35, async_file_repository.cpp:103-112).
ServesOneVersion ==
  LET files == States(ServedPath)
      InPlace(f, g) == f.kind = "regular" /\ f.inode = g.inode /\ f.version # g.version
  IN at = "respond" /\ status = "200" /\ ~(\E f, g \in files : InPlace(f, g)) =>
       /\ \/ \E f \in files : Readable(f) /\ contents = [k \in 1..FileChunks |-> f.version]
          \/ contents = <<>> /\ \E f \in files : ReadsEmpty(f)
       /\ \/ \E f \in files : f.kind # "absent" /\ date = f.version
          \/ date = 0 /\ \E f \in files : f.kind = "absent"
       /\ mode = "async" /\ date # 0 => date >= contents[1]

\* Every request that is read gets its answer or the end of its connection, except
\* that the asynchronous server polls a directory for ever.  A file that cannot be
\* opened waits for its deadline in one step here; AsyncServer has the deadline.
EventuallyAnswered ==
  at = "filter" ~> at \in {"respond", "closed"} \/ at = "stuck"
=============================================================================
