------------------------- MODULE RequestHandlingProofs -------------------------
(***************************************************************************)
(* Theorems about the handling of a request against a changing file        *)
(* system, for any scenarios (any streams, files, texts of rules, results  *)
(* of lookups and numbers of changes) and any number of reads of a file:   *)
(* a client that the rules deny stays denied, every end of a request has a *)
(* moment that explains it, a response has the contents of one version of  *)
(* a file and a date no earlier, the state keeps its type, and the rules   *)
(* that are read mean what their reference says.                           *)
(***************************************************************************)
EXTENDS RequestHandling, StringLemmas

\* A state of a file: the version of a regular one has a text, and what is not there
\* can be read by nobody.
Proper(f) ==
  /\ f \in FileType /\ f.version <= Len(scenario.texts)
  /\ f.kind = "regular" => f.version > 0
  /\ f.kind = "absent" => ~f.world

\* The history of the files: it has at least what is there now.
Snapshots ==
  /\ scenario \in Scenarios
  /\ DOMAIN fs = DOMAIN scenario.files /\ DOMAIN seen = DOMAIN fs
  /\ \A p \in DOMAIN fs : fs[p] \in seen[p] /\ \A f \in seen[p] : Proper(f)

\* The rules opened are those of the request's directory, and what is read from
\* them is what they were at some moment, whether or not they still have the name.
RulesLookedAt == at \in {"open rules", "read rules"} => path = RulesPath
RulesRead ==
  at = "read rules" =>
    /\ open \in [inode : Nat, version : Nat]
    /\ \E f \in States(path) : f.kind = "regular" /\ f.version = open.version

\* While the server reads it handles no request.
ReadsNone == at = "read" => request = NoRequest

DenialInv == Snapshots /\ ReadsNone /\ RulesLookedAt /\ RulesRead /\ DeniedStaysDenied

-----------------------------------------------------------------------------
(* The history.                                                            *)

\* What the assumption says of the scenario at hand.
LEMMA ScenarioFacts ==
  ASSUME scenario \in Scenarios
  PROVE /\ Len(scenario.texts) \in Nat /\ DOMAIN scenario.texts = 1..Len(scenario.texts)
        /\ <<>> \notin DOMAIN scenario.files
        /\ \A p \in DOMAIN scenario.files : Proper(scenario.files[p])
<1>1. scenario.texts \in Seq(Range(scenario.texts))
  BY RequestHandlingAssumption
<1>2. Len(scenario.texts) \in Nat /\ DOMAIN scenario.texts = 1..Len(scenario.texts)
  BY <1>1
<1>3. <<>> \notin DOMAIN scenario.files
  BY RequestHandlingAssumption
<1>4. ASSUME NEW p \in DOMAIN scenario.files PROVE Proper(scenario.files[p])
  <2>1. CASE scenario.files[p] = Absent
    BY <1>2, <2>1 DEF Proper, Absent, FileType
  <2>2. CASE /\ scenario.files[p] \in FileType /\ scenario.files[p].kind # "absent"
             /\ scenario.files[p].version \in DOMAIN scenario.texts
    BY <1>2, <2>2 DEF Proper
  <2> QED
    BY <2>1, <2>2, RequestHandlingAssumption
<1> QED
  BY <1>2, <1>3, <1>4

\* The server changes no file, and forgets the history only when it begins with a
\* request.
LEMMA ServerKeepsFiles ==
  ASSUME Receive \/ ReceiveNothing \/ ReceiveFails \/ Handle \/ WriteResponse \/ Stay
  PROVE /\ scenario' = scenario /\ fs' = fs
        /\ seen' = seen \/ seen' = [p \in DOMAIN fs |-> {fs[p]}]
<1>1. ASSUME NEW frame, HandleFrame(frame) PROVE seen' = [p \in DOMAIN fs |-> {fs[p]}]
  BY <1>1 DEF HandleFrame
<1>2. ASSUME NEW bytes, TakeFrame(bytes) \/ GoOnReading(bytes)
      PROVE seen' = seen \/ seen' = [p \in DOMAIN fs |-> {fs[p]}]
  BY <1>1, <1>2 DEF TakeFrame, GoOnReading
<1>3. CASE Receive
  <2>1. PICK piece : ReadUntil(piece)
    BY <1>3 DEF Receive
  <2> QED
    BY <1>1, <1>2, <1>3, <2>1 DEF Receive, ReadUntil
<1>4. CASE ReceiveNothing \/ ReceiveFails \/ Stay
  BY <1>4 DEF ReceiveNothing, ReceiveFails, Stay, vars
<1>5. CASE Handle
  BY <1>5 DEF Handle, FilterAccess, OpenRules, ReadRules, ServeAccess, Stat, OpenContents,
         ReadContents, LastModified
<1>6. CASE WriteResponse
  BY <1>2, <1>6 DEF WriteResponse
<1> QED
  BY <1>3, <1>4, <1>5, <1>6

\* There is always a next version.
LEMMA NextVersion ==
  \A version \in Nat :
    version + 1 \in Nat /\ version <= version + 1 /\ version <= version /\ version + 1 # version
OBVIOUS

\* A change adds to the history a state that is proper and no older.
LEMMA ChangesAreSeen ==
  ASSUME Snapshots, NEW p \in DOMAIN fs, Replace(p) \/ Rewrite(p) \/ Unlink(p) \/ Chmod(p)
  PROVE \E f : Proper(f) /\ fs[p].version <= f.version /\ Change(p, f)
<1> USE DEF Snapshots
<1>1. fs[p] \in FileType /\ fs[p].version <= Len(scenario.texts)
      /\ (fs[p].kind = "regular" => fs[p].version > 0) /\ Len(scenario.texts) \in Nat
  BY ScenarioFacts DEF Proper
<1>2. CASE Replace(p)
  <2>1. PICK world, opens \in BOOLEAN :
          Change(p, [kind |-> "regular", world |-> world, opens |-> opens,
                     inode |-> fs[p].version + 1, version |-> fs[p].version + 1])
    BY <1>2 DEF Replace
  <2> DEFINE f == [kind |-> "regular", world |-> world, opens |-> opens,
                   inode |-> fs[p].version + 1, version |-> fs[p].version + 1]
  <2>2. f.version <= Len(scenario.texts)
    BY <2>1 DEF Change
  <2>3. fs[p].version \in Nat
    BY <1>1 DEF FileType
  <2>4. Proper(f)
    BY <1>1, <2>2, <2>3, NextVersion DEF Proper, FileType
  <2>5. fs[p].version <= f.version
    BY <1>1, <2>3, NextVersion DEF FileType
  <2> QED
    BY <2>1, <2>4, <2>5
<1>3. CASE Rewrite(p)
  <2>1. Change(p, [fs[p] EXCEPT !.version = @ + 1])
    BY <1>3 DEF Rewrite
  <2> DEFINE f == [fs[p] EXCEPT !.version = @ + 1]
  <2>2. f.version <= Len(scenario.texts)
    BY <2>1 DEF Change
  <2>3. fs[p].version \in Nat
    BY <1>1 DEF FileType
  <2>4. Proper(f)
    BY <1>1, <2>2, <2>3, NextVersion DEF Proper, FileType
  <2>5. fs[p].version <= f.version
    BY <1>1, <2>3, NextVersion DEF FileType
  <2> QED
    BY <2>1, <2>4, <2>5
<1>4. CASE Unlink(p)
  <2>1. Change(p, [Absent EXCEPT !.version = fs[p].version])
    BY <1>4 DEF Unlink
  <2> DEFINE f == [Absent EXCEPT !.version = fs[p].version]
  <2>2. fs[p].version \in Nat /\ f.version = fs[p].version
    BY <1>1 DEF FileType, Absent
  <2>3. Proper(f)
    BY <1>1, <2>2 DEF Proper, FileType, Absent
  <2> QED
    BY <2>1, <2>2, <2>3, NextVersion
<1>5. CASE Chmod(p)
  <2>1. PICK world, opens \in BOOLEAN :
          Change(p, [fs[p] EXCEPT !.world = world, !.opens = opens])
    BY <1>5 DEF Chmod
  <2> DEFINE f == [fs[p] EXCEPT !.world = world, !.opens = opens]
  <2>2. fs[p].kind # "absent"
    BY <1>5 DEF Chmod
  <2>3. fs[p].version \in Nat
    BY <1>1 DEF FileType
  <2>4. Proper(f)
    BY <1>1, <2>2, <2>3, NextVersion DEF Proper, FileType
  <2>5. fs[p].version <= f.version
    BY <1>1, <2>3, NextVersion DEF FileType
  <2> QED
    BY <2>1, <2>4, <2>5
<1> QED
  BY <1>2, <1>3, <1>4, <1>5

\* Every step keeps the history, which starts anew with each request.
LEMMA NextKeepsSnapshots == Snapshots /\ [Next]_vars => Snapshots'
<1> SUFFICES ASSUME Snapshots, [Next]_vars PROVE Snapshots'
  OBVIOUS
<1>1. CASE Receive \/ ReceiveNothing \/ ReceiveFails \/ Handle \/ WriteResponse \/ Stay
  BY <1>1, ServerKeepsFiles DEF Snapshots, Proper
<1>2. CASE Others
  <2>1. PICK p \in DOMAIN fs : Replace(p) \/ Rewrite(p) \/ Unlink(p) \/ Chmod(p)
    BY <1>2 DEF Others
  <2>2. PICK f : Proper(f) /\ Change(p, f)
    BY <2>1, ChangesAreSeen
  <2> QED
    BY <2>2 DEF Snapshots, Proper, Change
<1>3. CASE UNCHANGED vars
  BY <1>3 DEF vars, Snapshots, Proper
<1> QED
  BY <1>1, <1>2, <1>3 DEF Next

-----------------------------------------------------------------------------
(* Denied requests.                                                        *)

\* What reading or writing comes to: nothing to answer yet, a request to filter, an
\* answer to no request, or the end.
Starts == \/ at' = "read" /\ request' = NoRequest
          \/ at' = "filter" /\ status' = "none"
          \/ at' = "respond" /\ request' = NoRequest
Closes == at = "respond" /\ at' = "closed" /\ UNCHANGED <<request, status, scenario, seen>>

LEMMA ReadingBegins ==
  ASSUME Receive \/ WriteResponse
  PROVE Starts \/ Closes
<1>1. ASSUME NEW frame, HandleFrame(frame) PROVE Starts
  BY <1>1 DEF HandleFrame, Starts
<1>2. ASSUME NEW bytes, TakeFrame(bytes) \/ GoOnReading(bytes) PROVE Starts
  BY <1>1, <1>2 DEF TakeFrame, GoOnReading, Starts
<1>3. CASE Receive
  <2>1. PICK piece : ReadUntil(piece)
    BY <1>3 DEF Receive
  <2> QED
    BY <1>1, <1>2, <2>1 DEF ReadUntil
<1>4. CASE WriteResponse
  BY <1>2, <1>4 DEF WriteResponse, Closes
<1> QED
  BY <1>3, <1>4

\* A recv() that returns nothing ends the connection, or is answered without a request.
LEMMA ReadingEnds ==
  ASSUME ReceiveNothing \/ ReceiveFails
  PROVE /\ at = "read" /\ at' \in {"respond", "closed"} /\ (at' = "respond" => status' = "500")
        /\ status' \in {status, "500"}
        /\ UNCHANGED <<scenario, connVars, request, path, fs, changes, fileVars, seen>>
BY DEF ReceiveNothing, ReceiveFails, Throw, Respond

\* Handling a request is not reading another.
LEMMA HandleReadsNone == Handle => at' # "read"
BY DEF Handle, FilterAccess, OpenRules, ReadRules, ServeAccess, Stat, OpenContents, ReadContents,
       LastModified, Go, OpenFile, Fetched, Throw, Respond, ReadUnreadable

\* Whatever regular file has been seen has a text.
LEMMA SeenHasText ==
  ASSUME Snapshots, NEW p, NEW f \in States(p), f.kind = "regular"
  PROVE f.version \in DOMAIN scenario.texts
BY ScenarioFacts DEF Snapshots, States, Proper, FileType, Absent

\* A path that is denied has rules that can be read.
LEMMA DeniedHasRules ==
  ASSUME Snapshots, Denied
  PROVE /\ RulesPath \in DOMAIN fs /\ Readable(File(RulesPath))
        /\ \A f \in States(RulesPath) : f.kind = "regular" => f.version \in DOMAIN scenario.texts
<1>1. \A f \in States(RulesPath) : Readable(f)
  BY DEF Denied
<1>2. RulesPath \in DOMAIN seen
  BY <1>1 DEF States, Readable, Absent
<1> QED
  BY <1>1, <1>2, ScenarioFacts DEF Snapshots, States, File, Proper, FileType

\* No step of the server lets a denied request through.
LEMMA HandleKeepsDenial == DenialInv /\ Handle => (RulesLookedAt /\ RulesRead /\ DeniedStaysDenied)'
<1> SUFFICES ASSUME DenialInv, Handle PROVE (RulesLookedAt /\ RulesRead /\ DeniedStaysDenied)'
  OBVIOUS
<1>1. request' = request /\ scenario' = scenario /\ seen' = seen /\ fs' = fs
  BY DEF Handle, FilterAccess, OpenRules, ReadRules, ServeAccess, Stat, OpenContents, ReadContents,
         LastModified, Go, OpenFile, Throw, Respond, ReadUnreadable, fileVars
<1>2. RulesPath' = RulesPath /\ (Denied' <=> Denied) /\ \A p : States(p)' = States(p)
  BY <1>1 DEF RulesPath, Denied, States, Says
<1>3. CASE FilterAccess
  <2>1. Denied => RulesPath # <<>> /\ File(RulesPath).kind # "absent"
    BY DeniedHasRules, ScenarioFacts DEF DenialInv, Snapshots, Readable
  <2> QED
    BY <1>2, <1>3, <2>1 DEF FilterAccess, Go, RulesLookedAt, RulesRead, DeniedStaysDenied
<1>4. CASE OpenRules
  <2>1. path = RulesPath
    BY <1>4 DEF DenialInv, RulesLookedAt, OpenRules
  <2>2. CASE Readable(File(path))
    <3>1. OpenFile("read rules")
      BY <1>4, <2>2 DEF OpenRules, ReadsEmpty
    <3>2. /\ File(path) \in States(path) /\ File(path).kind = "regular"
          /\ File(path) \in FileType
      BY <2>2 DEF DenialInv, Snapshots, File, States, Readable, Absent, Proper
    <3>3. /\ at' = "read rules" /\ path' = path /\ open'.version = File(path).version
          /\ open' \in [inode : Nat, version : Nat]
      BY <3>1, <3>2 DEF OpenFile, FileType
    <3> QED
      BY <1>2, <2>1, <3>2, <3>3 DEF RulesLookedAt, RulesRead, DeniedStaysDenied
  <2>3. CASE ~Readable(File(path))
    <3>1. ~Denied
      BY <2>1, <2>3, DeniedHasRules DEF DenialInv
    <3>2. at' \in {"serve", "respond", "closed", "stuck"}
      BY <1>4, <2>3 DEF OpenRules, Go, ReadUnreadable, Throw, Respond
    <3> QED
      BY <1>2, <3>1, <3>2 DEF RulesLookedAt, RulesRead, DeniedStaysDenied
  <2> QED
    BY <2>2, <2>3
<1>5. CASE ReadRules
  <2>1. path = RulesPath
    BY <1>5 DEF DenialInv, RulesLookedAt, ReadRules
  <2>2. PICK f \in States(path) : f.kind = "regular" /\ f.version = open.version
    BY <1>5 DEF DenialInv, RulesRead, ReadRules
  <2>3. PICK env \in scenario.envs :
          LET verdict == Verdict(scenario.texts[open.version], scenario.client, env) IN
            CASE verdict = "throws" -> Throw
              [] verdict = "deny" -> Respond("403")
              [] OTHER -> Go("serve", <<>>)
    BY <1>5 DEF ReadRules
  <2> DEFINE verdict == Verdict(scenario.texts[open.version], scenario.client, env)
  <2>4. verdict \in {"throws", "allow", "deny"}
    BY DEF Verdict
  <2>5. Denied => verdict = "deny"
    <3> SUFFICES ASSUME Denied PROVE verdict = "deny"
      OBVIOUS
    <3>1. open.version \in DOMAIN scenario.texts
      BY <2>1, <2>2, DeniedHasRules DEF DenialInv
    <3>2. Says(f, verdict)
      BY <2>2, <3>1 DEF Says
    <3>3. ~Says(f, "allow") /\ ~Says(f, "throws")
      BY <2>1, <2>2 DEF Denied
    <3> QED
      BY <2>4, <3>2, <3>3
  <2>6. at' \in {"respond", "closed", "serve"} /\ (verdict = "deny" => at' = "respond" /\ status' = "403")
    BY <2>3 DEF Throw, Respond, Go
  <2> QED
    BY <1>2, <2>5, <2>6 DEF RulesLookedAt, RulesRead, DeniedStaysDenied
<1>6. CASE ServeAccess \/ Stat \/ OpenContents \/ ReadContents \/ LastModified
  <2>1. ~Denied
    BY <1>6 DEF DenialInv, DeniedStaysDenied, ServeAccess, Stat, OpenContents, ReadContents, LastModified
  <2>2. at' \notin {"open rules", "read rules"}
    BY <1>6 DEF ServeAccess, Stat, OpenContents, ReadContents, LastModified, Go, Respond, OpenFile,
           Fetched, ReadUnreadable, Throw
  <2> QED
    BY <1>2, <2>1, <2>2 DEF RulesLookedAt, RulesRead, DeniedStaysDenied
<1> QED
  BY <1>3, <1>4, <1>5, <1>6 DEF Handle

\* A change of others can only make a request one that is not denied, and keeps
\* what the open rules say in the history.
LEMMA OthersKeepDenial == DenialInv /\ Others => (RulesLookedAt /\ RulesRead /\ DeniedStaysDenied)'
<1> SUFFICES ASSUME DenialInv, Others PROVE (RulesLookedAt /\ RulesRead /\ DeniedStaysDenied)'
  OBVIOUS
<1>1. PICK p \in DOMAIN fs : Replace(p) \/ Rewrite(p) \/ Unlink(p) \/ Chmod(p)
  BY DEF Others
<1>2. PICK f : Proper(f) /\ Change(p, f)
  BY <1>1, ChangesAreSeen DEF DenialInv
<1>3. /\ at' = at /\ request' = request /\ path' = path /\ status' = status
      /\ scenario' = scenario /\ RulesPath' = RulesPath
      /\ \A q : States(q) \subseteq States(q)'
      /\ fs'[p] \in States(p)'
  BY <1>2 DEF Change, RulesPath, States, DenialInv, Snapshots
<1>4. Denied' => Denied
  BY <1>3 DEF Denied, Says
<1>5. RulesRead'
  <2> SUFFICES ASSUME at = "read rules"
               PROVE /\ open' \in [inode : Nat, version : Nat]
                     /\ \E g \in States(path)' : g.kind = "regular" /\ g.version = open'.version
    BY <1>3 DEF RulesRead
  <2>1. CASE open' = open
    BY <1>3, <2>1 DEF DenialInv, RulesRead
  <2>2. CASE Rewrite(p) /\ open' # open
    <3>1. p = path /\ open' = [open EXCEPT !.version = fs[p].version + 1]
      BY <2>2 DEF Rewrite
    <3>2. fs'[p] = [fs[p] EXCEPT !.version = @ + 1] /\ fs[p].kind = "regular" /\ fs[p] \in FileType
      BY <2>2 DEF Rewrite, Change, DenialInv, Snapshots, Proper
    <3>3. open \in [inode : Nat, version : Nat]
      BY DEF DenialInv, RulesRead
    <3>4. fs[p].version \in Nat
      BY <3>2 DEF FileType
    <3>5. open'.version = fs[p].version + 1 /\ open' \in [inode : Nat, version : Nat]
      BY <3>1, <3>3, <3>4, NextVersion
    <3> QED
      BY <1>3, <3>1, <3>2, <3>5, ZenonT(60) DEF FileType
  <2> QED
    BY <1>1, <2>1, <2>2 DEF Replace, Unlink, Chmod
<1> QED
  BY <1>3, <1>4, <1>5 DEF DenialInv, RulesLookedAt, DeniedStaysDenied

\* The invariant is inductive.
LEMMA NextKeepsDenial == DenialInv /\ [Next]_vars => DenialInv'
<1> SUFFICES ASSUME DenialInv, [Next]_vars PROVE DenialInv'
  OBVIOUS
<1>1. Snapshots'
  BY NextKeepsSnapshots DEF DenialInv
<1>2. CASE Receive \/ WriteResponse
  <2>1. Starts \/ Closes
    BY <1>2, ReadingBegins
  <2> QED
    BY <1>1, <2>1 DEF Starts, Closes, DenialInv, ReadsNone, RulesLookedAt, RulesRead, DeniedStaysDenied,
           Denied, NoRequest
<1>3. CASE ReceiveNothing \/ ReceiveFails
  <2>1. request' = NoRequest /\ at' \in {"respond", "closed"}
    BY <1>3, ReadingEnds DEF DenialInv, ReadsNone
  <2> QED
    BY <1>1, <2>1 DEF DenialInv, ReadsNone, RulesLookedAt, RulesRead, DeniedStaysDenied, Denied, NoRequest
<1>4. CASE Handle
  BY <1>1, <1>4, HandleKeepsDenial, HandleReadsNone DEF DenialInv, ReadsNone
<1>5. CASE Others
  <2>1. at' = at /\ request' = request
    BY <1>5 DEF Others, Replace, Rewrite, Unlink, Chmod, Change
  <2> QED
    BY <1>1, <1>5, <2>1, OthersKeepDenial DEF DenialInv, ReadsNone
<1>6. CASE Stay \/ UNCHANGED vars
  BY <1>1, <1>6 DEF DenialInv, ReadsNone, RulesLookedAt, RulesRead, DeniedStaysDenied, Denied, Says, States,
         RulesPath, Stay, vars, fileVars, connVars
<1> QED
  BY <1>2, <1>3, <1>4, <1>5, <1>6 DEF Next

\* The invariant holds at first.
LEMMA DenialStarts == Init => DenialInv
<1> SUFFICES ASSUME Init PROVE DenialInv
  OBVIOUS
<1>1. Snapshots
  BY ScenarioFacts DEF Init, Snapshots, Proper
<1> QED
  BY <1>1 DEF Init, DenialInv, ReadsNone, RulesLookedAt, RulesRead, DeniedStaysDenied

\* Rules that say nothing but "deny" to a client keep it out, however they are
\* replaced, rewritten or chmodded between the server's calls (request_filters.cpp:27-40,
\* async_request_filters.cpp:16-34).
THEOREM DenialHolds == Spec => []DeniedStaysDenied
BY DenialStarts, NextKeepsDenial, PTL DEF Spec, DenialInv

-----------------------------------------------------------------------------
(* What explains the end of a request.                                     *)

\* A request that is handled has no response yet, it has passed the rules when a file
\* is looked for, the file looked at after access() is the one to serve, which was
\* there, and one that is read has passed for a readable one.
Places ==
  /\ at \in Handling => status = "none"
  /\ at \in {"serve", "stat", "fetch", "read contents"} => LetThrough
  /\ at \in {"stat", "fetch", "read contents"} =>
       path = ServedPath /\ \E f \in States(path) : f.kind # "absent"
  /\ at \in {"fetch", "read contents"} => PassedAsReadable

EndsInv == DenialInv /\ Places /\ EndsJustified

\* The file at a path is one of the states the path has been in.
LEMMA FileIsSeen ==
  ASSUME Snapshots, NEW p
  PROVE File(p) \in States(p) /\ File(p) \in FileType /\ (File(p).kind = "absent" => ~File(p).world)
<1>1. CASE p \in DOMAIN fs
  BY <1>1 DEF Snapshots, File, States, Proper
<1>2. CASE p \notin DOMAIN fs
  BY <1>2 DEF Snapshots, File, States, Absent, FileType
<1> QED
  BY <1>1, <1>2

\* A file that can be neither read nor taken for an empty one explains the end.
LEMMA UnreadableEnds ==
  ASSUME Snapshots, at \in Handling, status = "none",
         path = RulesPath \/ (path = ServedPath /\ LetThrough),
         ~Readable(File(path)), ~ReadsEmpty(File(path)), ReadUnreadable,
         scenario' = scenario, seen' = seen
  PROVE (Places /\ EndsJustified)'
<1> DEFINE f == File(path)
<1>1. /\ f \in States(RulesPath) \/ (f \in States(ServedPath) /\ LetThrough)
      /\ f \in FileType
  BY FileIsSeen
<1>2. request' = request /\ States(RulesPath)' = States(RulesPath) /\ States(ServedPath)' = States(ServedPath)
  BY DEF ReadUnreadable, Throw, Respond, States, RulesPath, ServedPath
<1>3. mode' = mode /\ mode \in {"sync", "async"}
  BY RequestHandlingAssumption DEF mode, Snapshots
<1>7. LetThrough' <=> LetThrough
  BY <1>2, <1>3 DEF LetThrough, ReadsEmpty, Says
<1>4. CASE mode = "sync"
  <2>1. OpenableDirectory(f)
    BY <1>4 DEF ReadsEmpty
  <2>2. at' = "respond" /\ status' = "500"
    BY <1>4 DEF ReadUnreadable, Throw, Respond
  <2> QED
    BY <1>1, <1>2, <1>3, <1>4, <1>7, <2>1, <2>2 DEF Places, EndsJustified, Justified, Handling
<1>5. CASE mode = "async" /\ OpenableDirectory(f)
  <2>1. at' = "stuck"
    BY <1>5 DEF ReadUnreadable
  <2> QED
    BY <1>1, <1>2, <1>3, <1>5, <2>1 DEF Places, EndsJustified, Handling
<1>6. CASE mode = "async" /\ ~OpenableDirectory(f)
  <2>1. at' = "closed" /\ status' = "none"
    BY <1>6 DEF ReadUnreadable
  <2>2. f.kind = "absent" \/ ~f.opens
    BY <1>1, <1>6 DEF OpenableDirectory, Readable, FileType
  <2> QED
    BY <1>1, <1>2, <1>3, <1>6, <2>1, <2>2 DEF Places, EndsJustified, Justified, Handling
<1> QED
  BY <1>3, <1>4, <1>5, <1>6

\* Every end the server gives a request has its moment.
LEMMA HandleKeepsEnds == EndsInv /\ Handle => (Places /\ EndsJustified)'
<1> SUFFICES ASSUME EndsInv, Handle PROVE (Places /\ EndsJustified)'
  OBVIOUS
<1>1. request' = request /\ scenario' = scenario /\ seen' = seen /\ fs' = fs
  BY DEF Handle, FilterAccess, OpenRules, ReadRules, ServeAccess, Stat, OpenContents, ReadContents,
         LastModified, Go, OpenFile, Throw, Respond, ReadUnreadable, fileVars
<1>2. /\ RulesPath' = RulesPath /\ ServedPath' = ServedPath /\ mode' = mode
      /\ \A p : States(p)' = States(p)
  BY <1>1 DEF RulesPath, ServedPath, States, mode
<1>3. \A f, verdict : Says(f, verdict)' <=> Says(f, verdict)
  BY <1>1 DEF Says
<1>4. Snapshots /\ at \in Handling /\ status = "none" /\ mode \in {"sync", "async"}
  <2>1. at \in Handling
    BY DEF Handle, FilterAccess, OpenRules, ReadRules, ServeAccess, Stat, OpenContents, ReadContents,
           LastModified, Handling
  <2> QED
    BY <2>1, RequestHandlingAssumption DEF EndsInv, DenialInv, Places, Snapshots, mode
<1>16. (LetThrough' <=> LetThrough) /\ (PassedAsReadable' <=> PassedAsReadable)
  BY <1>2, <1>3 DEF LetThrough, PassedAsReadable, ReadsEmpty
<1>17. at \in {"serve", "stat", "fetch", "read contents"} => LetThrough
  BY DEF EndsInv, Places
<1>5. ASSUME at' \in {"filter", "open rules", "read rules"} \/ (at' = "serve" /\ LetThrough), status' = status
      PROVE (Places /\ EndsJustified)'
  BY <1>4, <1>5, <1>16 DEF Places, EndsJustified, Handling
<1>6. CASE FilterAccess
  <2>1. File(RulesPath) \in States(RulesPath)
    BY <1>4, FileIsSeen
  <2>2. CASE RulesPath = <<>> \/ File(RulesPath).kind = "absent"
    <3>1. \E f \in States(RulesPath) : f.kind = "absent"
      BY <1>4, <2>1, <2>2, ScenarioFacts DEF States, Snapshots, Absent
    <3> QED
      BY <1>5, <1>6, <2>2, <3>1 DEF FilterAccess, Go, LetThrough
  <2>3. CASE ~(RulesPath = <<>> \/ File(RulesPath).kind = "absent")
    BY <1>5, <1>6, <2>3 DEF FilterAccess, Go
  <2> QED
    BY <2>2, <2>3
<1>7. CASE OpenRules
  <2>1. path = RulesPath
    BY <1>7 DEF EndsInv, DenialInv, RulesLookedAt, OpenRules
  <2>2. CASE Readable(File(path))
    BY <1>5, <1>7, <2>2 DEF OpenRules, OpenFile, ReadsEmpty
  <2>4. CASE ReadsEmpty(File(path))
    <3>1. LetThrough
      BY <1>4, <2>1, <2>4, FileIsSeen DEF LetThrough
    <3> QED
      BY <1>5, <1>7, <2>4, <3>1 DEF OpenRules, Go, ReadsEmpty
  <2>3. CASE ~Readable(File(path)) /\ ~ReadsEmpty(File(path))
    BY <1>1, <1>4, <1>7, <2>1, <2>3, UnreadableEnds DEF OpenRules
  <2> QED
    BY <2>2, <2>3, <2>4
<1>8. CASE ReadRules
  <2>1. path = RulesPath
    BY <1>8 DEF EndsInv, DenialInv, RulesLookedAt, ReadRules
  <2>2. PICK f \in States(path) : f.kind = "regular" /\ f.version = open.version
    BY <1>8 DEF EndsInv, DenialInv, RulesRead, ReadRules
  <2>3. f.version \in DOMAIN scenario.texts
    BY <1>4, <2>2, SeenHasText
  <2>4. PICK env \in scenario.envs :
          LET verdict == Verdict(scenario.texts[open.version], scenario.client, env) IN
            CASE verdict = "throws" -> Throw
              [] verdict = "deny" -> Respond("403")
              [] OTHER -> Go("serve", <<>>)
    BY <1>8 DEF ReadRules
  <2> DEFINE verdict == Verdict(scenario.texts[open.version], scenario.client, env)
  <2>5. Says(f, verdict)
    BY <2>2, <2>3 DEF Says
  <2>6. CASE verdict = "throws"
    <3>1. \/ mode = "sync" /\ at' = "respond" /\ status' = "500"
          \/ mode = "async" /\ at' = "closed" /\ status' = "none"
      BY <1>4, <2>4, <2>6 DEF Throw, Respond
    <3>2. Says(f, "throws")' /\ f \in States(RulesPath)'
      BY <1>2, <1>3, <2>1, <2>2, <2>5, <2>6
    <3> QED
      BY <1>2, <3>1, <3>2 DEF Places, EndsJustified, Justified, Handling
  <2>7. CASE verdict = "deny"
    <3>1. at' = "respond" /\ status' = "403"
      BY <2>4, <2>7 DEF Respond
    <3>2. Says(f, "deny")' /\ f \in States(RulesPath)'
      BY <1>2, <1>3, <2>1, <2>2, <2>5, <2>7
    <3> QED
      BY <3>1, <3>2 DEF Places, EndsJustified, Justified, Handling
  <2>8. CASE verdict \notin {"throws", "deny"}
    <3>1. verdict = "allow"
      BY <2>8 DEF Verdict
    <3>2. LetThrough
      BY <2>1, <2>2, <2>5, <3>1 DEF LetThrough
    <3> QED
      BY <1>5, <2>4, <2>8, <3>2 DEF Go
  <2> QED
    BY <2>6, <2>7, <2>8
<1>9. CASE ServeAccess
  <2>1. File(ServedPath) \in States(ServedPath)'
    BY <1>2, <1>4, FileIsSeen
  <2>2. CASE ServedPath = <<>> \/ File(ServedPath).kind = "absent"
    BY <1>2, <1>9, <1>16, <1>17, <2>1, <2>2 DEF ServeAccess, Respond, Places, EndsJustified, Justified,
           Handling
  <2>3. CASE ~(ServedPath = <<>> \/ File(ServedPath).kind = "absent")
    BY <1>2, <1>4, <1>9, <1>16, <1>17, <2>1, <2>3 DEF ServeAccess, Go, Places, EndsJustified, Handling
  <2> QED
    BY <2>2, <2>3
<1>10. CASE Stat
  <2>1. path = ServedPath /\ \E f \in States(path) : f.kind # "absent"
    BY <1>10 DEF EndsInv, Places, Stat
  <2>2. PICK readable \in IF File(path).kind = "absent" THEN BOOLEAN ELSE {File(path).world} :
          IF readable THEN Go("fetch", path) ELSE Respond("403")
    BY <1>10 DEF Stat
  <2>3. CASE readable
    <3>1. File(path).world \/ File(path).kind = "absent"
      BY <2>2, <2>3
    <3>2. PassedAsReadable
      BY <1>4, <2>1, <3>1, FileIsSeen DEF PassedAsReadable
    <3> QED
      BY <1>2, <1>4, <1>10, <1>16, <1>17, <2>1, <2>2, <2>3, <3>2 DEF Stat, Go, Places, EndsJustified, Handling
  <2>4. CASE ~readable
    <3>1. File(path) \in States(ServedPath)' /\ ~File(path).world
      BY <1>2, <1>4, <2>1, <2>2, <2>4, FileIsSeen
    <3>2. at' = "respond" /\ status' = "403"
      BY <2>2, <2>4 DEF Respond
    <3> QED
      BY <1>10, <1>16, <1>17, <3>1, <3>2 DEF Stat, Places, EndsJustified, Justified, Handling
  <2> QED
    BY <2>3, <2>4
<1>11. ASSUME NEW what, Fetched(what), path' = path, at \in {"fetch", "read contents"}
       PROVE (Places /\ EndsJustified)'
  <2>1. /\ path = ServedPath /\ \E f \in States(path) : f.kind # "absent"
        /\ PassedAsReadable
    BY <1>11 DEF EndsInv, Places
  <2>2. \/ at' = "respond" /\ status' = "200"
        \/ at' = "fetch" /\ status' = status
    BY <1>11 DEF Fetched
  <2> QED
    BY <1>2, <1>4, <1>11, <1>16, <1>17, <2>1, <2>2 DEF Places, EndsJustified, Justified, Handling
<1>12. ASSUME at \in {"fetch", "read contents"}, at' = "read contents", path' = path, status' = status
       PROVE (Places /\ EndsJustified)'
  BY <1>2, <1>4, <1>12, <1>16 DEF EndsInv, Places, EndsJustified, Handling
<1>13. CASE OpenContents
  <2>1. CASE Readable(File(path))
    BY <1>12, <1>13, <2>1 DEF OpenContents, OpenFile, ReadsEmpty
  <2>2. CASE ReadsEmpty(File(path))
    BY <1>11, <1>13, <2>2 DEF OpenContents, ReadsEmpty
  <2>3. CASE ~Readable(File(path)) /\ ~ReadsEmpty(File(path))
    <3>1. path = ServedPath /\ LetThrough
      BY <1>13 DEF EndsInv, Places, OpenContents
    <3> QED
      BY <1>1, <1>4, <1>13, <2>3, <3>1, UnreadableEnds DEF OpenContents
  <2> QED
    BY <2>1, <2>2, <2>3
<1>14. CASE ReadContents
  BY <1>11, <1>12, <1>14 DEF ReadContents
<1>15. CASE LastModified
  BY <1>11, <1>15 DEF LastModified
<1> QED
  BY <1>6, <1>7, <1>8, <1>9, <1>10, <1>13, <1>14, <1>15 DEF Handle

\* What explained an end still does, whatever others change later.
LEMMA OthersKeepEnds == EndsInv /\ Others => (Places /\ EndsJustified)'
<1> SUFFICES ASSUME EndsInv, Others PROVE (Places /\ EndsJustified)'
  OBVIOUS
<1>1. PICK p \in DOMAIN fs : Replace(p) \/ Rewrite(p) \/ Unlink(p) \/ Chmod(p)
  BY DEF Others
<1>2. PICK f : Proper(f) /\ Change(p, f)
  BY <1>1, ChangesAreSeen DEF EndsInv, DenialInv
<1>3. /\ at' = at /\ request' = request /\ path' = path /\ status' = status
      /\ RulesPath' = RulesPath /\ ServedPath' = ServedPath /\ mode' = mode
      /\ at \notin {"read", "closed", "stuck"}
      /\ \A q : States(q) \subseteq States(q)'
  BY <1>2 DEF Change, RulesPath, ServedPath, mode, States, EndsInv, DenialInv, Snapshots
<1>4. \A g, verdict : Says(g, verdict)' <=> Says(g, verdict)
  BY <1>2 DEF Change, Says
<1>6. /\ States(RulesPath) \subseteq States(RulesPath)'
      /\ States(ServedPath) \subseteq States(ServedPath)'
  BY <1>3
<1>7. (LetThrough => LetThrough') /\ (PassedAsReadable => PassedAsReadable')
  BY <1>3, <1>4, <1>6 DEF LetThrough, PassedAsReadable, ReadsEmpty
<1>5. Justified => Justified'
  BY <1>3, <1>4, <1>6, <1>7 DEF Justified
<1> QED
  BY <1>3, <1>5, <1>7 DEF EndsInv, Places, EndsJustified

\* The invariant is inductive.
LEMMA NextKeepsEnds == EndsInv /\ [Next]_vars => EndsInv'
<1> SUFFICES ASSUME EndsInv, [Next]_vars PROVE EndsInv'
  OBVIOUS
<1>1. DenialInv'
  BY NextKeepsDenial DEF EndsInv
<1>2. CASE Receive \/ WriteResponse
  <2>1. CASE Starts
    BY <1>1, <2>1 DEF Starts, EndsInv, Places, EndsJustified, Handling, NoRequest
  <2>2. CASE Closes
    <3>1. /\ request' = request /\ mode' = mode /\ status' = status
          /\ RulesPath' = RulesPath /\ ServedPath' = ServedPath /\ \A p : States(p)' = States(p)
          /\ \A f, verdict : Says(f, verdict)' <=> Says(f, verdict)
      BY <2>2 DEF Closes, RulesPath, ServedPath, mode, States, Says
    <3>2. Justified' <=> Justified
      BY <3>1 DEF Justified, LetThrough, PassedAsReadable, ReadsEmpty
    <3> QED
      BY <1>1, <2>2, <3>1, <3>2 DEF Closes, EndsInv, Places, EndsJustified, Handling
  <2> QED
    BY <1>2, <2>1, <2>2, ReadingBegins
<1>3. CASE ReceiveNothing \/ ReceiveFails
  BY <1>1, <1>3, ReadingEnds DEF EndsInv, DenialInv, ReadsNone, Places, EndsJustified, Handling
<1>4. CASE Handle
  BY <1>1, <1>4, HandleKeepsEnds DEF EndsInv
<1>5. CASE Others
  BY <1>1, <1>5, OthersKeepEnds DEF EndsInv
<1>6. CASE Stay \/ UNCHANGED vars
  <2>1. UNCHANGED vars
    BY <1>6 DEF Stay
  <2>2. /\ request' = request /\ mode' = mode /\ status' = status /\ at' = at /\ path' = path
        /\ RulesPath' = RulesPath /\ ServedPath' = ServedPath /\ \A p : States(p)' = States(p)
        /\ \A f, verdict : Says(f, verdict)' <=> Says(f, verdict)
    BY <2>1 DEF vars, RulesPath, ServedPath, mode, States, Says
  <2>3. (LetThrough' <=> LetThrough) /\ (PassedAsReadable' <=> PassedAsReadable)
    BY <2>2 DEF LetThrough, PassedAsReadable, ReadsEmpty
  <2>4. Justified' <=> Justified
    BY <2>2, <2>3 DEF Justified
  <2> QED
    BY <1>1, <2>2, <2>3, <2>4 DEF EndsInv, Places, EndsJustified
<1> QED
  BY <1>2, <1>3, <1>4, <1>5, <1>6 DEF Next

\* The invariant holds at first.
LEMMA EndsStart == Init => EndsInv
BY DenialStarts DEF Init, EndsInv, Places, EndsJustified, Handling

\* Every end of a request has a moment that explains it, whatever changed before and
\* after (request_handlers.cpp:11-31, async_request_handlers.cpp:17-44).
THEOREM EndsAreJustified == Spec => []EndsJustified
BY EndsStart, NextKeepsEnds, PTL DEF Spec, EndsInv

-----------------------------------------------------------------------------
(* The version served.                                                     *)

\* Somebody has written into a file in place.
InPlace ==
  \E f, g \in States(ServedPath) : f.kind = "regular" /\ f.inode = g.inode /\ f.version # g.version

\* The versions of a name only go up.
Newest == \A p \in DOMAIN fs : \A f \in seen[p] : f.version <= fs[p].version

\* What has been fetched at each place, and of which file.
Before == {"filter", "open rules", "read rules", "serve", "stat"}
Serving == at \in {"fetch", "read contents"} \/ (at = "respond" /\ status = "200")
Progress ==
  /\ at \in Before => fetched = {} /\ contents = <<>>
  /\ Serving => path = ServedPath /\ fetched \subseteq {"contents", "date"}
  /\ at = "fetch" /\ "contents" \notin fetched => contents = <<>>
  /\ at = "read contents" => "contents" \notin fetched
  /\ mode = "async" /\ at \in {"fetch", "read contents"} => "date" \notin fetched
  /\ at = "respond" /\ status = "200" => fetched = {"contents", "date"}

\* The chunks read so far are of the version that is open.
Chunks(f, n) == Readable(f) /\ contents = [k \in 1..n |-> f.version]
Reading ==
  at = "read contents" /\ ~InPlace =>
    \E f \in States(ServedPath), n \in Nat :
      n < FileChunks /\ Chunks(f, n) /\ open.inode = f.inode /\ open.version = f.version

\* What is complete stays what it was.
WholeFile ==
  \/ \E f \in States(ServedPath) : Chunks(f, FileChunks)
  \/ contents = <<>> /\ \E f \in States(ServedPath) : ReadsEmpty(f)
Dated ==
  \/ \E f \in States(ServedPath) : f.kind # "absent" /\ date = f.version
  \/ date = 0 /\ \E f \in States(ServedPath) : f.kind = "absent"
Ordered == mode = "async" /\ date # 0 => date >= contents[1]
Complete ==
  Serving /\ ~InPlace =>
    /\ "contents" \in fetched => WholeFile
    /\ "date" \in fetched => Dated
    /\ fetched = {"contents", "date"} => Ordered

VersionInv == EndsInv /\ Newest /\ Progress /\ Reading /\ Complete

-----------------------------------------------------------------------------
\* The invariant says what the property does.
LEMMA VersionInvSuffices == VersionInv => ServesOneVersion
<1> SUFFICES ASSUME VersionInv, at = "respond", status = "200", ~InPlace
             PROVE WholeFile /\ Dated /\ Ordered
  BY DEF ServesOneVersion, InPlace, WholeFile, Chunks, Dated, Ordered
<1> QED
  BY DEF VersionInv, Progress, Complete, Serving

\* The open file is the one that was there, and the latest.
LEMMA FileIsNewest ==
  ASSUME Snapshots, Newest, NEW p, NEW f \in States(p)
  PROVE f.version <= File(p).version \/ (p \notin DOMAIN fs /\ f = Absent)
BY DEF Snapshots, Newest, States, File

\* Nothing is served before the response begins, and nothing after it.
LEMMA OutsideServing ==
  ASSUME ~Serving', at' \in Before => (fetched' = {} /\ contents' = <<>>)
  PROVE (Progress /\ Reading /\ Complete)'
<1>1. at' \notin {"fetch", "read contents"} /\ ~(at' = "respond" /\ status' = "200")
  BY DEF Serving
<1> QED
  BY <1>1 DEF Progress, Reading, Complete, Serving

\* The versions only go up.
LEMMA NextKeepsNewest == Snapshots /\ Newest /\ [Next]_vars => Newest'
<1> SUFFICES ASSUME Snapshots, Newest, [Next]_vars PROVE Newest'
  OBVIOUS
<1>1. \A p \in DOMAIN fs : fs[p] \in FileType /\ \A f \in seen[p] : f \in FileType
  BY DEF Snapshots, Proper
<1>2. \A n \in Nat : n <= n /\ n <= n + 1
  OBVIOUS
<1>3. CASE Receive \/ ReceiveNothing \/ ReceiveFails \/ Handle \/ WriteResponse \/ Stay
  <2>1. fs' = fs /\ (seen' = seen \/ seen' = [p \in DOMAIN fs |-> {fs[p]}])
    BY <1>3, ServerKeepsFiles
  <2>2. CASE seen' = seen
    BY <2>1, <2>2 DEF Newest
  <2>3. CASE seen' = [p \in DOMAIN fs |-> {fs[p]}]
    <3>1. \A p \in DOMAIN fs : fs[p].version \in Nat
      BY <1>1 DEF FileType
    <3> QED
      BY <1>2, <2>1, <2>3, <3>1 DEF Newest
  <2> QED
    BY <2>1, <2>2, <2>3
<1>4. CASE Others
  <2>1. PICK p \in DOMAIN fs : Replace(p) \/ Rewrite(p) \/ Unlink(p) \/ Chmod(p)
    BY <1>4 DEF Others
  <2>2. PICK f : Change(p, f) /\ Proper(f) /\ fs[p].version <= f.version
    BY <2>1, ChangesAreSeen
  <2>3. fs' = [fs EXCEPT ![p] = f] /\ seen' = [seen EXCEPT ![p] = @ \cup {f}]
    BY <2>2 DEF Change
  <2>4. ASSUME NEW q \in DOMAIN fs, NEW g \in seen'[q] PROVE g.version <= fs'[q].version
    <3>1. CASE q # p
      BY <2>3, <2>4, <3>1 DEF Newest, Snapshots
    <3>2. CASE q = p /\ g = f
      <4>1. f.version \in Nat /\ fs'[q] = f
        BY <2>2, <2>3, <3>2 DEF Proper, FileType
      <4> QED
        BY <1>2, <3>2, <4>1
    <3>3. CASE q = p /\ g \in seen[p]
      <4>1. fs'[q] = f /\ g.version <= fs[p].version
        BY <2>3, <3>3 DEF Newest
      <4>2. g.version \in Nat /\ fs[p].version \in Nat /\ f.version \in Nat
        BY <1>1, <2>2, <3>3 DEF Proper, FileType
      <4> QED
        BY <2>2, <4>1, <4>2
    <3> QED
      BY <2>3, <2>4, <3>1, <3>2, <3>3 DEF Snapshots
  <2> QED
    BY <2>3, <2>4 DEF Newest
<1>5. CASE UNCHANGED vars
  BY <1>5 DEF vars, Newest
<1> QED
  BY <1>3, <1>4, <1>5 DEF Next

\* A state of a file lasts as long as the request.
LEMMA StatesGrow ==
  ASSUME scenario' = scenario, request' = request, \A p : States(p) \subseteq States(p)'
  PROVE /\ mode' = mode /\ ServedPath' = ServedPath
        /\ States(ServedPath) \subseteq States(ServedPath)'
        /\ \A f : ReadsEmpty(f)' <=> ReadsEmpty(f)
        /\ ~InPlace' => ~InPlace
<1>1. mode' = mode /\ ServedPath' = ServedPath /\ States(ServedPath) \subseteq States(ServedPath)'
  BY DEF mode, ServedPath
<1> QED
  BY <1>1 DEF ReadsEmpty, InPlace

\* What is complete stays complete while it is left alone.
LEMMA CompleteStays ==
  ASSUME scenario' = scenario, request' = request, \A p : States(p) \subseteq States(p)',
         contents' = contents, date' = date
  PROVE (WholeFile => WholeFile') /\ (Dated => Dated') /\ (Ordered => Ordered')
BY StatesGrow DEF WholeFile, Chunks, Dated, Ordered

\* Reading and waiting begin with nothing, and end with a response that is kept.
LEMMA ReadingFetchesNothing ==
  ASSUME Receive \/ WriteResponse
  PROVE ~Serving' /\ (at' \in Before => fetched' = {} /\ contents' = <<>>)
<1>1. ASSUME NEW frame, HandleFrame(frame)
      PROVE ~Serving' /\ (at' \in Before => fetched' = {} /\ contents' = <<>>)
  BY <1>1 DEF HandleFrame, StartFresh, Serving
<1>2. ASSUME NEW bytes, TakeFrame(bytes) \/ GoOnReading(bytes)
      PROVE ~Serving' /\ (at' \in Before => fetched' = {} /\ contents' = <<>>)
  BY <1>1, <1>2 DEF TakeFrame, GoOnReading, StartFresh, Serving
<1>3. CASE Receive
  <2>1. PICK piece : ReadUntil(piece)
    BY <1>3 DEF Receive
  <2> QED
    BY <1>1, <1>2, <2>1 DEF ReadUntil
<1>4. CASE WriteResponse
  BY <1>2, <1>4 DEF WriteResponse, Serving, Before
<1> QED
  BY <1>3, <1>4

\* A step that fetches nothing, or ends without a file.
LEMMA FilterKeepsVersion ==
  ASSUME VersionInv, FilterAccess \/ OpenRules \/ ReadRules \/ ServeAccess
  PROVE (Progress /\ Reading /\ Complete)'
<1>1. fetched = {} /\ contents = <<>>
  BY DEF VersionInv, Progress, Before, FilterAccess, OpenRules, ReadRules, ServeAccess
<1>2. fetched' = fetched /\ contents' = contents
  BY DEF FilterAccess, OpenRules, ReadRules, ServeAccess, Go, OpenFile, ReadUnreadable, Throw, Respond,
         fileVars
<1>3. \/ at' \in Before \/ at' \in {"closed", "stuck"}
      \/ at' = "respond" /\ status' # "200"
  BY DEF FilterAccess, OpenRules, ReadRules, ServeAccess, Go, OpenFile, ReadUnreadable, Throw, Respond,
         Before
<1> QED
  BY <1>1, <1>2, <1>3, OutsideServing DEF Serving, Before

\* After stat() nothing has been fetched yet.
LEMMA StatKeepsVersion ==
  ASSUME VersionInv, Stat
  PROVE (Progress /\ Reading /\ Complete)'
<1>1. fetched = {} /\ contents = <<>> /\ path = ServedPath
  BY DEF VersionInv, EndsInv, Places, Progress, Before, Stat
<1>2. fetched' = fetched /\ contents' = contents /\ ServedPath' = ServedPath
  BY DEF Stat, Go, Respond, fileVars, ServedPath
<1>3. (at' = "fetch" /\ path' = path) \/ (at' = "respond" /\ status' = "403")
  BY DEF Stat, Go, Respond
<1>4. CASE at' = "fetch" /\ path' = path
  BY <1>1, <1>2, <1>4 DEF Progress, Reading, Complete, Serving, Before
<1>5. CASE at' = "respond" /\ status' = "403"
  BY <1>5, OutsideServing DEF Serving, Before
<1> QED
  BY <1>3, <1>4, <1>5

\* Fetching the last of the two ends the request.
LEMMA FetchedAll ==
  ASSUME NEW what \in {"contents", "date"}, Fetched(what), fetched \subseteq {"contents", "date"}
  PROVE /\ fetched' = fetched \cup {what} /\ fetched' \subseteq {"contents", "date"}
        /\ \/ fetched' = {"contents", "date"} /\ at' = "respond" /\ status' = "200"
           \/ fetched' = {what} /\ at' = "fetch"
<1>1. fetched' = fetched \cup {what}
  BY DEF Fetched
<1>2. CASE fetched' = {"contents", "date"}
  BY <1>1, <1>2 DEF Fetched
<1>3. CASE fetched' # {"contents", "date"}
  BY <1>1, <1>3 DEF Fetched
<1> QED
  BY <1>2, <1>3

\* The contents begin with a file that is open, empty, or not to be read.
LEMMA OpenKeepsVersion ==
  ASSUME VersionInv, OpenContents
  PROVE (Progress /\ Reading /\ Complete)'
<1>1. /\ scenario' = scenario /\ request' = request /\ seen' = seen /\ fs' = fs
      /\ date' = date /\ contents' = contents
  BY DEF OpenContents, OpenFile, ReadUnreadable, Throw, Respond, fileVars
<1>2. \A p : States(p)' = States(p)
  BY <1>1 DEF States
<1>3. /\ path = ServedPath /\ contents = <<>> /\ "contents" \notin fetched
      /\ fetched \subseteq {"contents", "date"} /\ at = "fetch"
      /\ mode = "async" => "date" \notin fetched
  BY DEF VersionInv, Progress, Serving, OpenContents
<1>4. /\ ServedPath' = ServedPath /\ mode' = mode /\ (~InPlace' => ~InPlace)
      /\ (Dated => Dated') /\ \A f : ReadsEmpty(f)' <=> ReadsEmpty(f)
  BY <1>1, <1>2, StatesGrow, CompleteStays
<1>5. ~InPlace' /\ "date" \in fetched => Dated'
  BY <1>3, <1>4 DEF VersionInv, Complete, Serving
<1>6. File(path) \in States(ServedPath)
  BY <1>3, FileIsSeen DEF VersionInv, EndsInv, DenialInv
<1>7. CASE Readable(File(path))
  <2>1. OpenFile("read contents")
    BY <1>7 DEF OpenContents, ReadsEmpty
  <2>2. PICK f : f = File(path)
    OBVIOUS
  <2>3. /\ at' = "read contents" /\ path' = path /\ fetched' = fetched
        /\ open'.inode = f.inode /\ open'.version = f.version
    BY <2>1, <2>2 DEF OpenFile
  <2>4. f \in States(ServedPath)'
    BY <1>2, <1>3, <1>4, <2>2, FileIsSeen DEF VersionInv, EndsInv, DenialInv
  <2>5. Chunks(f, 0)'
    <3>1. <<>> = [k \in 1..0 |-> f.version]
      OBVIOUS
    <3> QED
      BY <1>1, <1>3, <1>7, <2>2, <3>1 DEF Chunks, Readable
  <2>6. Reading'
    <3>1. 0 \in Nat /\ 0 < FileChunks
      BY RequestHandlingAssumption
    <3> QED
      BY <2>3, <2>4, <2>5, <3>1 DEF Reading
  <2> QED
    BY <1>1, <1>3, <1>4, <1>5, <2>3, <2>6 DEF Progress, Complete, Serving, Before
<1>8. CASE ReadsEmpty(File(path))
  <2>1. Fetched("contents") /\ path' = path /\ mode = "sync"
    BY <1>8 DEF OpenContents, ReadsEmpty
  <2>2. /\ fetched' = fetched \cup {"contents"} /\ fetched' \subseteq {"contents", "date"}
        /\ \/ fetched' = {"contents", "date"} /\ at' = "respond" /\ status' = "200"
           \/ fetched' = {"contents"} /\ at' = "fetch"
    BY <1>3, <2>1, FetchedAll
  <2>3. WholeFile' /\ Ordered'
    BY <1>1, <1>2, <1>3, <1>4, <1>6, <1>8, <2>1 DEF WholeFile, Ordered
  <2>4. Progress'
    BY <1>3, <1>4, <2>1, <2>2 DEF Progress, Serving, Before
  <2>5. Reading'
    BY <2>2 DEF Reading
  <2> QED
    BY <1>3, <1>5, <2>2, <2>3, <2>4, <2>5 DEF Complete
<1>9. CASE ~Readable(File(path)) /\ ~ReadsEmpty(File(path))
  <2>1. ReadUnreadable
    BY <1>9 DEF OpenContents
  <2>2. at' \in {"closed", "stuck"} \/ (at' = "respond" /\ status' = "500")
    BY <2>1 DEF ReadUnreadable, Throw, Respond
  <2> QED
    BY <2>2, OutsideServing DEF Serving, Before
<1> QED
  BY <1>7, <1>8, <1>9

\* One more of the same.
LEMMA AppendToConstant ==
  ASSUME NEW n \in Nat, NEW version, NEW chunks, chunks = [k \in 1..n |-> version]
  PROVE /\ Append(chunks, version) = [k \in 1..(n + 1) |-> version]
        /\ Len(Append(chunks, version)) = n + 1
OBVIOUS

\* Each chunk is of the version that is open.
LEMMA ReadKeepsVersion ==
  ASSUME VersionInv, ReadContents
  PROVE (Progress /\ Reading /\ Complete)'
<1>1. /\ scenario' = scenario /\ request' = request /\ seen' = seen /\ date' = date
      /\ path' = path /\ open' = open /\ contents' = Append(contents, open.version)
  BY DEF ReadContents
<1>2. \A p : States(p)' = States(p)
  BY <1>1 DEF States
<1>3. /\ path = ServedPath /\ "contents" \notin fetched /\ fetched \subseteq {"contents", "date"}
      /\ at = "read contents" /\ (mode = "async" => "date" \notin fetched)
  BY DEF VersionInv, Progress, Serving, ReadContents
<1>4. /\ ServedPath' = ServedPath /\ mode' = mode /\ (~InPlace' => ~InPlace)
  BY <1>1, <1>2, StatesGrow
<1>5. ~InPlace' /\ "date" \in fetched => Dated'
  BY <1>1, <1>2, <1>3, <1>4 DEF VersionInv, Complete, Serving, Dated
<1>6. ASSUME ~InPlace'
      PROVE \E f \in States(ServedPath)', n \in Nat :
              /\ n < FileChunks /\ Chunks(f, n + 1)' /\ Len(contents') = n + 1
              /\ open'.inode = f.inode /\ open'.version = f.version
  <2>1. PICK f \in States(ServedPath), n \in Nat :
          n < FileChunks /\ Chunks(f, n) /\ open.inode = f.inode /\ open.version = f.version
    BY <1>3, <1>4, <1>6 DEF VersionInv, Reading
  <2>2. contents' = [k \in 1..(n + 1) |-> f.version] /\ Len(contents') = n + 1
    <3>1. contents = [k \in 1..n |-> f.version] /\ open.version = f.version
      BY <2>1 DEF Chunks
    <3> QED
      BY <1>1, <3>1, AppendToConstant
  <2> QED
    BY <1>1, <1>2, <1>4, <2>1, <2>2 DEF Chunks, Readable
<1>7. CASE Len(contents') = FileChunks
  <2>1. /\ fetched' = fetched \cup {"contents"} /\ fetched' \subseteq {"contents", "date"}
        /\ \/ fetched' = {"contents", "date"} /\ at' = "respond" /\ status' = "200"
           \/ fetched' = {"contents"} /\ at' = "fetch"
    BY <1>3, <1>7, FetchedAll DEF ReadContents
  <2>2. ~InPlace' => WholeFile'
    <3> SUFFICES ASSUME ~InPlace' PROVE \E f \in States(ServedPath)' : Chunks(f, FileChunks)'
      BY DEF WholeFile
    <3>1. PICK f \in States(ServedPath)', n \in Nat : Chunks(f, n + 1)' /\ Len(contents') = n + 1
      BY <1>6
    <3> QED
      BY <1>7, <3>1
  <2>3. fetched' = {"contents", "date"} => Ordered'
    <3>1. fetched' = {"contents", "date"} => "date" \in fetched
      BY <2>1
    <3> QED
      BY <1>3, <1>4, <3>1 DEF Ordered
  <2>4. Progress'
    BY <1>1, <1>3, <1>4, <2>1 DEF Progress, Serving, Before
  <2>5. Reading'
    BY <2>1 DEF Reading
  <2> QED
    BY <1>5, <2>1, <2>2, <2>3, <2>4, <2>5 DEF Complete
<1>8. CASE Len(contents') # FileChunks
  <2>1. at' = at /\ fetched' = fetched
    BY <1>8 DEF ReadContents
  <2>2. Progress'
    BY <1>1, <1>3, <1>4, <2>1 DEF Progress, Serving, Before
  <2>3. Reading'
    <3> SUFFICES ASSUME ~InPlace'
                 PROVE \E f \in States(ServedPath)', n \in Nat :
                         /\ n < FileChunks /\ Chunks(f, n)'
                         /\ open'.inode = f.inode /\ open'.version = f.version
      BY DEF Reading
    <3>1. PICK f \in States(ServedPath)', n \in Nat :
            /\ n < FileChunks /\ Chunks(f, n + 1)' /\ Len(contents') = n + 1
            /\ open'.inode = f.inode /\ open'.version = f.version
      BY <1>6
    <3>2. n + 1 \in Nat /\ n + 1 < FileChunks
      BY <1>8, <3>1, RequestHandlingAssumption
    <3> QED
      BY <3>1, <3>2
  <2>4. Complete'
    BY <1>3, <1>5, <2>1 DEF Complete
  <2> QED
    BY <2>2, <2>3, <2>4
<1> QED
  BY <1>7, <1>8

\* The date is that of the file as it is now, which is no older than any state of it.
LEMMA DateKeepsVersion ==
  ASSUME VersionInv, LastModified
  PROVE (Progress /\ Reading /\ Complete)'
<1>1. /\ scenario' = scenario /\ request' = request /\ seen' = seen /\ contents' = contents
      /\ path' = path /\ Fetched("date") /\ at = "fetch"
      /\ date' = IF File(path).kind = "absent" THEN 0 ELSE File(path).version
  BY DEF LastModified
<1>2. \A p : States(p)' = States(p)
  BY <1>1 DEF States
<1>3. /\ path = ServedPath /\ fetched \subseteq {"contents", "date"}
      /\ "contents" \notin fetched => contents = <<>>
      /\ mode = "async" => "contents" \in fetched
  BY DEF VersionInv, Progress, Serving, LastModified
<1>4. /\ ServedPath' = ServedPath /\ mode' = mode /\ (~InPlace' => ~InPlace)
      /\ \A f : ReadsEmpty(f)' <=> ReadsEmpty(f)
  BY <1>1, <1>2, StatesGrow
<1>5. /\ fetched' = fetched \cup {"date"} /\ fetched' \subseteq {"contents", "date"}
      /\ \/ fetched' = {"contents", "date"} /\ at' = "respond" /\ status' = "200"
         \/ fetched' = {"date"} /\ at' = "fetch"
  BY <1>1, <1>3, FetchedAll
<1>6. Dated'
  <2>1. File(path) \in States(ServedPath)'
    BY <1>2, <1>3, <1>4, FileIsSeen DEF VersionInv, EndsInv, DenialInv
  <2> QED
    BY <1>1, <2>1 DEF Dated
<1>7. ~InPlace' /\ "contents" \in fetched => WholeFile /\ WholeFile'
  BY <1>1, <1>2, <1>3, <1>4 DEF VersionInv, Complete, Serving, WholeFile, Chunks
<1>8. ~InPlace' => Ordered'
  <2> SUFFICES ASSUME ~InPlace', mode = "async", date' # 0
               PROVE date' >= contents'[1]
    BY <1>4 DEF Ordered
  <2>1. PICK f \in States(ServedPath) : Chunks(f, FileChunks)
    BY <1>3, <1>7 DEF WholeFile, ReadsEmpty
  <2>2. 1 \in 1..FileChunks
    BY RequestHandlingAssumption
  <2>3. contents[1] = f.version
    BY <2>1, <2>2 DEF Chunks
  <2>4. f # Absent
    BY <2>1 DEF Chunks, Readable, Absent
  <2>5. f.version <= File(path).version
    BY <1>3, <2>4, FileIsNewest DEF VersionInv, EndsInv, DenialInv
  <2>6. f.version \in Nat /\ File(path).version \in Nat
    <3>1. f \in FileType
      BY <2>4 DEF States, VersionInv, EndsInv, DenialInv, Snapshots, Proper
    <3>2. File(path) \in FileType
      BY FileIsSeen DEF VersionInv, EndsInv, DenialInv
    <3> QED
      BY <3>1, <3>2 DEF FileType
  <2> QED
    BY <1>1, <2>3, <2>5, <2>6
<1>9. Progress'
  <2>1. path' = ServedPath' /\ ("contents" \notin fetched' => contents' = <<>>)
    BY <1>1, <1>3, <1>4, <1>5
  <2>2. at' = "fetch" /\ mode = "async" => FALSE
    BY <1>3, <1>5
  <2> QED
    BY <1>4, <1>5, <2>1, <2>2 DEF Progress, Serving, Before
<1>10. Reading'
  BY <1>5 DEF Reading
<1> QED
  BY <1>5, <1>6, <1>7, <1>8, <1>9, <1>10 DEF Complete

\* Others write into a file in place, or leave the open one as it is.
LEMMA OthersKeepVersion ==
  ASSUME VersionInv, Others
  PROVE (Progress /\ Reading /\ Complete)'
<1>1. PICK p \in DOMAIN fs : Replace(p) \/ Rewrite(p) \/ Unlink(p) \/ Chmod(p)
  BY DEF Others
<1>2. PICK f : Proper(f) /\ fs[p].version <= f.version /\ Change(p, f)
  BY <1>1, ChangesAreSeen DEF VersionInv, EndsInv, DenialInv
<1>3. /\ scenario' = scenario /\ at' = at /\ request' = request /\ path' = path /\ status' = status
      /\ contents' = contents /\ fetched' = fetched /\ date' = date
      /\ \A q : States(q) \subseteq States(q)'
  BY <1>2 DEF Change, States, VersionInv, EndsInv, DenialInv, Snapshots
<1>4. /\ ServedPath' = ServedPath /\ mode' = mode /\ (~InPlace' => ~InPlace)
      /\ (WholeFile => WholeFile') /\ (Dated => Dated') /\ (Ordered => Ordered')
  BY <1>3, StatesGrow, CompleteStays
<1>5. (Serving' <=> Serving) /\ Progress' /\ Complete'
  BY <1>3, <1>4 DEF VersionInv, Progress, Complete, Serving
<1>6. Reading'
  <2> SUFFICES ASSUME at = "read contents", ~InPlace'
               PROVE Reading'
    BY <1>3 DEF Reading
  <2>1. PICK g \in States(ServedPath), n \in Nat :
          n < FileChunks /\ Chunks(g, n) /\ open.inode = g.inode /\ open.version = g.version
    BY <1>4 DEF VersionInv, Reading
  <2>2. open' = open
    <3> SUFFICES ASSUME open' # open PROVE FALSE
      OBVIOUS
    <3>1. Rewrite(p)
      BY <1>1 DEF Replace, Unlink, Chmod
    <3>2. p = path /\ open.inode = fs[p].inode /\ fs[p].kind = "regular"
      BY <3>1 DEF Rewrite
    <3>3. fs'[p] = [fs[p] EXCEPT !.version = fs[p].version + 1]
      BY <3>1 DEF Rewrite, Change, VersionInv, EndsInv, DenialInv, Snapshots
    <3>4. fs[p] \in FileType
      BY DEF VersionInv, EndsInv, DenialInv, Snapshots, Proper
    <3>5. /\ fs'[p].inode = fs[p].inode /\ fs'[p].kind = "regular"
          /\ fs'[p].version # fs[p].version
      <4>1. fs[p].version \in Nat
        BY <3>4 DEF FileType
      <4>2. fs[p].version + 1 # fs[p].version
        BY <4>1, NextVersion
      <4> QED
        BY <3>2, <3>3, <3>4, <4>2 DEF FileType
    <3>6. fs[p] \in States(ServedPath)' /\ fs'[p] \in States(ServedPath)'
      <4>1. p = ServedPath
        BY <3>2 DEF VersionInv, Progress, Serving
      <4>2. fs[p] \in States(p)' /\ fs'[p] \in States(p)'
        BY <1>2 DEF Change, States, VersionInv, EndsInv, DenialInv, Snapshots
      <4> QED
        BY <1>4, <4>1, <4>2
    <3> QED
      BY <3>2, <3>5, <3>6 DEF InPlace
  <2> QED
    BY <1>3, <1>4, <2>1, <2>2 DEF Reading, Chunks, Readable
<1> QED
  BY <1>5, <1>6

\* The invariant is inductive.
LEMMA NextKeepsVersion == VersionInv /\ [Next]_vars => VersionInv'
<1> SUFFICES ASSUME VersionInv, [Next]_vars PROVE VersionInv'
  OBVIOUS
<1>1. EndsInv' /\ Newest'
  BY NextKeepsEnds, NextKeepsNewest DEF VersionInv, EndsInv, DenialInv
<1>2. CASE Receive \/ WriteResponse
  BY <1>1, <1>2, ReadingFetchesNothing, OutsideServing DEF VersionInv
<1>3. CASE ReceiveNothing \/ ReceiveFails
  <2>1. at' = "closed" \/ (at' = "respond" /\ status' = "500")
    BY <1>3, ReadingEnds
  <2> QED
    BY <1>1, <2>1, OutsideServing DEF VersionInv, Serving, Before
<1>4. CASE Handle
  BY <1>1, <1>4, FilterKeepsVersion, StatKeepsVersion, OpenKeepsVersion, ReadKeepsVersion,
     DateKeepsVersion DEF Handle, VersionInv
<1>5. CASE Others
  BY <1>1, <1>5, OthersKeepVersion DEF VersionInv
<1>6. CASE Stay \/ UNCHANGED vars
  <2>1. UNCHANGED vars
    BY <1>6 DEF Stay
  <2>2. \A p : States(p)' = States(p)
    BY <2>1 DEF vars, States
  <2>3. /\ mode' = mode /\ ServedPath' = ServedPath /\ (Serving' <=> Serving)
        /\ (~InPlace' => ~InPlace) /\ (WholeFile => WholeFile') /\ (Dated => Dated') /\ (Ordered => Ordered')
    BY <2>1, <2>2, StatesGrow, CompleteStays DEF vars, fileVars, Serving
  <2>4. Progress'
    BY <2>1, <2>3 DEF vars, fileVars, VersionInv, Progress
  <2>5. Reading'
    BY <2>1, <2>2, <2>3 DEF vars, fileVars, VersionInv, Reading, Chunks, Readable
  <2>6. Complete'
    BY <2>1, <2>3 DEF vars, fileVars, VersionInv, Complete
  <2> QED
    BY <1>1, <2>4, <2>5, <2>6 DEF VersionInv
<1> QED
  BY <1>2, <1>3, <1>4, <1>5, <1>6 DEF Next

\* The invariant holds at first.
LEMMA VersionStarts == Init => VersionInv
<1> SUFFICES ASSUME Init PROVE VersionInv
  OBVIOUS
<1>1. EndsInv
  BY EndsStart
<1>2. Newest
  <2>1. \A p \in DOMAIN fs : fs[p].version \in Nat
    BY <1>1 DEF EndsInv, DenialInv, Snapshots, Proper, FileType
  <2> QED
    BY <2>1, NextVersion DEF Init, Newest
<1> QED
  BY <1>1, <1>2 DEF Init, VersionInv, Progress, Reading, Complete, Serving, Before

\* A response has the contents of one version, whole, unless somebody writes into the
\* file in place, and the asynchronous server dates it no earlier
\* (file_repository.cpp:26-35, async_file_repository.cpp:103-112).
THEOREM OneVersionServed == Spec => []ServesOneVersion
BY VersionStarts, NextKeepsVersion, VersionInvSuffices, PTL DEF Spec

-----------------------------------------------------------------------------
(* The types.                                                              *)

\* What the invariants above do not say of the types already.
TypesInv ==
  /\ received \in 0..Len(scenario.sent) /\ changes \in 0..scenario.maxChanges
  /\ at \in Handling \cup {"read", "respond", "closed", "stuck"}
  /\ status \in {"none", "200", "400", "403", "404", "500"}
  /\ open \in [inode : Nat, version : 0..Len(scenario.texts)]
  /\ contents \in Seq(Nat) /\ Len(contents) <= FileChunks
  /\ at = "read contents" => Len(contents) < FileChunks
  /\ fetched \subseteq {"contents", "date"} /\ date \in Nat

\* A file that is there, and one that is not, have a version with a text or none.
LEMMA FileTyped ==
  ASSUME Snapshots, NEW p
  PROVE  /\ File(p) \in FileType /\ File(p).inode \in Nat /\ File(p).version \in Nat
         /\ File(p).version \in 0..Len(scenario.texts)
<1>1. Len(scenario.texts) \in Nat
    BY ScenarioFacts DEF Snapshots
<1>2. CASE p \in DOMAIN fs
  <2>1. fs[p] \in FileType /\ fs[p].version <= Len(scenario.texts)
        BY <1>2 DEF Snapshots, Proper
  <2>2. QED
        BY <1>1, <1>2, <2>1 DEF File, FileType
<1>3. CASE p \notin DOMAIN fs
    BY <1>1, <1>3 DEF File, Absent, FileType
<1>4. QED
    BY <1>2, <1>3

\* The bytes, the changes and the open file are left alone, and nothing is fetched.
LEMMA BeginsTyped ==
  ASSUME Snapshots, TypesInv, Receive \/ WriteResponse
  PROVE  TypesInv'
<1>1. /\ 0 \in Nat /\ 0 <= FileChunks /\ 0 < FileChunks /\ Len(scenario.texts) \in Nat
      /\ Len(scenario.sent) \in Nat
  <2>1. scenario.sent \in Seq(Range(scenario.sent))
        BY RequestHandlingAssumption DEF Snapshots
  <2>2. QED
        BY <2>1, ScenarioFacts, RequestHandlingAssumption DEF Snapshots
<1>2. <<>> \in Seq(Nat) /\ Len(<<>>) = 0
    OBVIOUS
<1>3. ASSUME StartFresh, at' \in {"read", "filter", "respond"}, status' \in {"none", "400"},
             scenario' = scenario, changes' = changes, received' \in 0..Len(scenario.sent)
      PROVE  TypesInv'
  <2>1. /\ open' \in [inode : Nat, version : 0..Len(scenario'.texts)]
        /\ contents' \in Seq(Nat) /\ Len(contents') <= FileChunks
        /\ fetched' \subseteq {"contents", "date"} /\ date' \in Nat
        BY <1>1, <1>2, <1>3 DEF StartFresh, Closed
  <2>2. QED
        BY <1>3, <2>1 DEF TypesInv, Handling
<1>4. ASSUME NEW frame, HandleFrame(frame)
      PROVE  StartFresh /\ at' \in {"read", "filter", "respond"} /\ status' \in {"none", "400"}
    BY <1>4 DEF HandleFrame
<1>5. ASSUME NEW bytes, TakeFrame(bytes) \/ GoOnReading(bytes)
      PROVE  StartFresh /\ at' \in {"read", "filter", "respond"} /\ status' \in {"none", "400"}
    BY <1>4, <1>5 DEF TakeFrame, GoOnReading
<1>6. CASE Receive
  <2>1. PICK end \in (received + 1)..Len(scenario.sent) :
          received' = end /\ \E piece : ReadUntil(piece)
        BY <1>6 DEF Receive
  <2>2. received' \in 0..Len(scenario.sent)
    <3>1. PICK L \in Nat : L = Len(scenario.sent)
          BY <1>1
    <3>2. PICK had \in 0..L : had = received
          BY <3>1 DEF TypesInv
    <3>3. end \in (had + 1)..L
          BY <2>1, <3>1, <3>2
    <3>4. QED
          BY <2>1, <3>1, <3>2, <3>3
  <2>3. StartFresh /\ at' \in {"read", "filter", "respond"} /\ status' \in {"none", "400"}
        BY <1>4, <1>5, <2>1 DEF ReadUntil
  <2>4. QED
        BY <1>3, <1>6, <2>2, <2>3 DEF Receive
<1>7. CASE WriteResponse
  <2>1. CASE LastResponse
        BY <1>7, <2>1 DEF WriteResponse, TypesInv, connVars, fileVars
  <2>2. CASE ~LastResponse
        BY <1>3, <1>5, <1>7, <2>2 DEF WriteResponse, TypesInv
  <2>3. QED
        BY <2>1, <2>2
<1>8. QED
    BY <1>6, <1>7

\* A step between the reading of a request and its answer.
LEMMA HandleTyped ==
  ASSUME VersionInv, TypesInv, Handle
  PROVE  TypesInv'
<1>1. Snapshots
    BY DEF VersionInv, EndsInv, DenialInv
<1>2. scenario' = scenario /\ received' = received /\ changes' = changes
    BY DEF Handle, FilterAccess, OpenRules, ReadRules, ServeAccess, Stat, OpenContents,
       ReadContents, LastModified, connVars
<1>3. 0 \in Nat /\ 0 < FileChunks /\ FileChunks \in Nat /\ Len(<<>>) = 0
    BY RequestHandlingAssumption
<1>4. ASSUME UNCHANGED <<open, contents, date>>, fetched' \subseteq {"contents", "date"},
             at' \in (Handling \ {"read contents"}) \cup {"respond", "closed", "stuck"},
             status' \in {status, "200", "403", "404", "500"}
      PROVE  TypesInv'
    BY <1>2, <1>4 DEF TypesInv, Handling
<1>5. ASSUME NEW to, OpenFile(to), to = "read rules" \/ (to = "read contents" /\ contents = <<>>)
      PROVE  TypesInv'
    BY <1>1, <1>2, <1>3, <1>5, FileTyped DEF OpenFile, TypesInv, Handling
<1>6. CASE FilterAccess \/ ServeAccess \/ Stat
    BY <1>4, <1>6 DEF FilterAccess, ServeAccess, Stat, Go, Respond, fileVars, TypesInv, Handling
<1>7. CASE ReadUnreadable \/ Throw
    BY <1>4, <1>7 DEF ReadUnreadable, Throw, Respond, fileVars, TypesInv, Handling
<1>8. CASE OpenRules
    BY <1>4, <1>5, <1>7, <1>8 DEF OpenRules, Go, fileVars, TypesInv, Handling
<1>9. CASE ReadRules
    BY <1>4, <1>7, <1>9 DEF ReadRules, Go, Respond, fileVars, TypesInv, Handling
<1>10. ASSUME NEW what \in {"contents", "date"}, Fetched(what)
       PROVE  /\ fetched' \subseteq {"contents", "date"} /\ at' \in {"fetch", "respond"}
              /\ status' \in {status, "200"}
    BY <1>10 DEF Fetched, TypesInv
<1>11. CASE OpenContents
  <2>1. contents = <<>>
        BY <1>11 DEF OpenContents, VersionInv, Progress
  <2>2. CASE Readable(File(path))
        BY <1>5, <1>11, <2>1, <2>2 DEF OpenContents, ReadsEmpty
  <2>3. CASE ReadsEmpty(File(path)) /\ ~Readable(File(path))
        BY <1>4, <1>10, <1>11, <2>3 DEF OpenContents, Handling
  <2>4. CASE ~ReadsEmpty(File(path)) /\ ~Readable(File(path))
        BY <1>7, <1>11, <2>4 DEF OpenContents
  <2>5. QED
        BY <2>2, <2>3, <2>4
<1>12. CASE ReadContents
  <2>1. PICK n \in Nat, version \in Nat :
          n = Len(contents) /\ version = open.version /\ n < FileChunks
    <3>1. contents \in Seq(Nat) /\ open \in [inode : Nat, version : 0..Len(scenario.texts)]
          BY DEF TypesInv
    <3>2. Len(contents) \in Nat /\ open.version \in Nat
          BY <1>1, <3>1, ScenarioFacts DEF Snapshots
    <3>3. Len(contents) < FileChunks
          BY <1>12 DEF ReadContents, TypesInv
    <3>4. QED
          BY <3>2, <3>3
  <2>2. contents' = Append(contents, version) /\ contents \in Seq(Nat)
        BY <1>12, <2>1 DEF ReadContents, TypesInv
  <2>3. contents' \in Seq(Nat) /\ Len(contents') = n + 1 /\ n + 1 <= FileChunks
        BY <1>3, <2>1, <2>2
  <2>4. CASE Len(contents') = FileChunks
        BY <1>2, <1>10, <1>12, <2>3, <2>4 DEF ReadContents, TypesInv, Handling
  <2>5. CASE Len(contents') # FileChunks
    <3>1. Len(contents') < FileChunks
          BY <1>3, <2>3, <2>5
    <3>2. QED
          BY <1>2, <1>12, <2>3, <2>5, <3>1 DEF ReadContents, TypesInv
  <2>6. QED
        BY <2>4, <2>5
<1>13. CASE LastModified
  <2>1. date' \in Nat /\ UNCHANGED <<open, contents>>
        BY <1>1, <1>3, <1>13, FileTyped DEF LastModified
  <2>2. QED
        BY <1>2, <1>10, <1>13, <2>1 DEF LastModified, TypesInv, Handling
<1>14. QED
    BY <1>6, <1>8, <1>9, <1>11, <1>12, <1>13 DEF Handle

\* A change by others.
LEMMA OthersTyped ==
  ASSUME Snapshots, TypesInv, Others
  PROVE  TypesInv'
<1>1. PICK p, f :
        /\ p \in DOMAIN fs /\ Change(p, f)
        /\ open' = open \/ (open' = [open EXCEPT !.version = f.version] /\ f.version \in Nat)
  <2>1. PICK p \in DOMAIN fs : Replace(p) \/ Rewrite(p) \/ Unlink(p) \/ Chmod(p)
        BY DEF Others
  <2>2. fs[p].version \in Nat /\ fs[p] \in FileType
        BY DEF Snapshots, Proper, FileType
  <2>3. CASE Rewrite(p)
    <3>1. PICK f : f = [fs[p] EXCEPT !.version = fs[p].version + 1]
          OBVIOUS
    <3>2. f.version = fs[p].version + 1 /\ f.version \in Nat
          BY <2>2, <3>1 DEF FileType
    <3>3. QED
          BY <2>3, <3>1, <3>2 DEF Rewrite
  <2>4. CASE Replace(p) \/ Unlink(p) \/ Chmod(p)
        BY <2>4 DEF Replace, Unlink, Chmod
  <2>5. QED
        BY <2>1, <2>3, <2>4
<1>2. /\ Len(scenario.texts) \in Nat /\ scenario.maxChanges \in Nat
    BY ScenarioFacts, RequestHandlingAssumption DEF Snapshots
<1>3. changes' \in 0..scenario.maxChanges /\ scenario' = scenario
  <2>1. PICK most \in Nat : most = scenario.maxChanges
        BY <1>2
  <2>2. PICK n \in 0..most : n = changes
        BY <2>1 DEF TypesInv
  <2>3. n < most /\ changes' = n + 1 /\ scenario' = scenario
        BY <1>1, <2>1, <2>2 DEF Change
  <2>4. QED
        BY <2>1, <2>2, <2>3
<1>4. open' \in [inode : Nat, version : 0..Len(scenario.texts)]
  <2>1. f.version <= Len(scenario.texts)
        BY <1>1 DEF Change
  <2>2. f.version \in Nat => f.version \in 0..Len(scenario.texts)
        BY <1>2, <2>1
  <2>3. QED
        BY <1>1, <2>2 DEF TypesInv
<1>5. QED
    BY <1>1, <1>3, <1>4 DEF Change, TypesInv, connVars

\* Every step keeps the types.
LEMMA NextTyped == VersionInv /\ TypesInv /\ [Next]_vars => TypesInv'
<1> SUFFICES ASSUME VersionInv, TypesInv, [Next]_vars PROVE TypesInv'
    OBVIOUS
<1>1. Snapshots
    BY DEF VersionInv, EndsInv, DenialInv
<1>2. CASE Receive \/ WriteResponse
    BY <1>1, <1>2, BeginsTyped
<1>3. CASE ReceiveNothing \/ ReceiveFails
    BY <1>3, ReadingEnds DEF connVars, fileVars, TypesInv
<1>4. CASE Handle
    BY <1>4, HandleTyped
<1>5. CASE Others
    BY <1>1, <1>5, OthersTyped
<1>6. CASE Stay \/ UNCHANGED vars
    BY <1>6 DEF Stay, vars, connVars, fileVars, TypesInv
<1>7. QED
    BY <1>2, <1>3, <1>4, <1>5, <1>6 DEF Next

\* The invariant holds at first.
LEMMA TypesStart == Init => TypesInv
<1> SUFFICES ASSUME Init PROVE TypesInv
    OBVIOUS
<1>1. Snapshots
    BY EndsStart DEF EndsInv, DenialInv
<1>2. scenario.sent \in Seq(Range(scenario.sent)) /\ scenario.maxChanges \in Nat
    BY <1>1, RequestHandlingAssumption DEF Snapshots
<1>3. Len(scenario.sent) \in Nat /\ Len(scenario.texts) \in Nat /\ <<>> \in Seq(Nat) /\ Len(<<>>) = 0
    BY <1>1, <1>2, ScenarioFacts DEF Snapshots
<1>4. QED
    BY <1>2, <1>3, RequestHandlingAssumption DEF Init, TypesInv, Closed, Handling

\* The state keeps its type, however the file system changes: whatever is opened or
\* written into has a version with a text, and no more is read of a file than it has
\* (file_repository.cpp:26-35, async_file_repository.cpp:40-60).
THEOREM TypesHold == Spec => []TypeOK
<1>1. VersionInv /\ TypesInv => TypeOK
  <2> SUFFICES ASSUME VersionInv, TypesInv PROVE TypeOK
      OBVIOUS
  <2>1. Snapshots
        BY DEF VersionInv, EndsInv, DenialInv
  <2>2. QED
        BY <2>1 DEF TypeOK, TypesInv, Snapshots, Proper
<1>2. QED
    BY <1>1, VersionStarts, TypesStart, NextKeepsVersion, NextTyped, PTL DEF Spec

-----------------------------------------------------------------------------
(* Texts with one place to cut.                                            *)

\* parts are what is before and behind the only place of c, if there is just one.
InTwo(parts, s, c) ==
  /\ Len(parts) = 2 <=> Cardinality(Marks(s, c)) = 1
  /\ Len(parts) = 2 =>
       \E p \in 1..Len(s) : /\ Marks(s, c) = {p}
                            /\ parts[1] = SubSeq(s, 1, p - 1) /\ parts[2] = SubSeq(s, p + 1, Len(s))

\* A text falls into two at the only place of a symbol, and into two nowhere else.
LEMMA SplitInTwo ==
  ASSUME NEW S, NEW s \in Seq(S), NEW c
  PROVE  InTwo(Split(s, <<c>>), s, c)
<1>1. PICK parts : parts = Split(s, <<c>>)
    OBVIOUS
<1>2. parts \in Seq(Seq(S))
  <2>1. <<c>> \in Seq({c}) /\ Len(s) \in Nat
        OBVIOUS
  <2>2. QED
        BY <1>1, <2>1, SplitNTyped DEF Split
<1>3. PICK n \in Nat : n = Len(parts)
    BY <1>2
<1>4. PICK f : CutInto(s, c, f, parts)
    BY <1>1, SplitMarks
<1>5. PICK L \in Nat : L = Len(s)
    OBVIOUS
<1>6. Cardinality(Bounds(s, c)) = n + 1
  <2>1. Ascending(f, Bounds(s, c)) /\ Len(f) = n + 1
        BY <1>3, <1>4 DEF CutInto
  <2>2. QED
        BY <2>1, NthOfAscending
<1>7. PICK M : M = Marks(s, c)
    OBVIOUS
<1>8. M \subseteq 1..L /\ IsFiniteSet(M)
  <2>1. M \subseteq 1..L
        BY <1>5, <1>7 DEF Marks
  <2>2. IsFiniteSet(1..L)
        BY FS_Interval
  <2>3. QED
        BY <2>1, <2>2, FS_Subset
<1>9. PICK m \in Nat : m = Cardinality(M)
    BY <1>8, FS_CardinalityType
<1>10. n = m + 1
  <2>1. 0 \notin M /\ L + 1 \notin M \cup {0}
        BY <1>8
  <2>2. IsFiniteSet(M \cup {0}) /\ Cardinality(M \cup {0}) = m + 1
        BY <1>8, <1>9, <2>1, FS_AddElement
  <2>3. Cardinality((M \cup {0}) \cup {L + 1}) = (m + 1) + 1
        BY <2>1, <2>2, FS_AddElement
  <2>4. Bounds(s, c) = (M \cup {0}) \cup {L + 1}
        BY <1>5, <1>7 DEF Bounds
  <2>5. QED
        BY <1>6, <2>3, <2>4
<1>11. ASSUME n = 2
       PROVE  \E p \in 1..L : /\ M = {p} /\ parts[1] = SubSeq(s, 1, p - 1)
                              /\ parts[2] = SubSeq(s, p + 1, L)
  <2>1. CutsAtEnds(s, c, f, n)
        BY <1>3, <1>4, CutEnds
  <2>2. PICK two \in Nat : two = 2 /\ two = n
        BY <1>11
  <2>3. f[1] = 0 /\ f[3] = L + 1 /\ \A p \in 1..L : s[p] = c <=> \E j \in two..two : f[j] = p
    <3>1. two + 1 = 3
          BY <2>2
    <3>2. QED
          BY <1>5, <2>1, <2>2, <3>1 DEF CutsAtEnds
  <2>4. \A p \in 1..L : s[p] = c <=> f[2] = p
    <3>1. \A j : j \in two..two <=> j = 2
          BY <2>2
    <3>2. QED
          BY <2>3, <3>1
  <2>5. PICK p \in 1..L : f[2] = p
    <3>1. f[2] \in Nat /\ f[1] < f[2] /\ f[2] < f[3]
      <4>1. 1 \in 1..(two + 1) /\ 2 \in 1..(two + 1) /\ 3 \in 1..(two + 1)
            BY <2>2
      <4>2. \A i, j \in 1..(two + 1) : i < j => f[i] < f[j]
            BY <2>1, <2>2 DEF CutsAtEnds
      <4>3. \A j \in 1..(two + 1) : f[j] \in Nat
            BY <2>1, <2>2 DEF CutsAtEnds
      <4>4. QED
            BY <4>1, <4>2, <4>3
    <3>2. QED
          BY <2>3, <3>1
  <2>6. M = {p}
        BY <1>5, <1>7, <2>4, <2>5 DEF Marks
  <2>7. parts[1] = SubSeq(s, f[1] + 1, f[2] - 1) /\ parts[2] = SubSeq(s, f[2] + 1, f[3] - 1)
    <3>1. 1 \in 1..n /\ 2 \in 1..n /\ 1 + 1 = 2 /\ 2 + 1 = 3
          BY <1>11
    <3>2. \A j \in 1..n : parts[j] = SubSeq(s, f[j] + 1, f[j + 1] - 1)
          BY <1>3, <1>4 DEF CutInto
    <3>3. parts[1] = SubSeq(s, f[1] + 1, f[1 + 1] - 1) /\ parts[2] = SubSeq(s, f[2] + 1, f[2 + 1] - 1)
          BY <3>1, <3>2
    <3>4. QED
          BY <3>1, <3>3
  <2>8. 0 + 1 = 1 /\ (L + 1) - 1 = L
        OBVIOUS
  <2>9. QED
        BY <2>3, <2>5, <2>6, <2>7, <2>8
<1>12. n = 2 <=> m = 1
    BY <1>10
<1>13. QED
    BY <1>1, <1>3, <1>5, <1>7, <1>9, <1>11, <1>12 DEF InTwo

\* The number of a set that has no other.
LEMMA NthOfOne == ASSUME NEW p \in Nat PROVE Nth({p}, 1) = p
<1>1. {y \in {p} : y <= p} = {p}
    OBVIOUS
<1>2. Cardinality({p}) = 1
    BY FS_Singleton
<1>3. QED
    BY <1>1, <1>2 DEF Nth

-----------------------------------------------------------------------------
(* Hosts.                                                                  *)

\* The mask of a length that is one of a prefix.
LEMMA MaskIs ==
  ASSUME NEW length \in 0..AddressBits, NEW env
  PROVE  MakeMask(length, env) = 1..length
<1>1. AddressBits \in Nat
    BY HtAccessAssumption
<1>2. QED
    BY <1>1 DEF MakeMask

\* A block that is one matches the addresses with its bits.
BitsOf(prefix, length) == {a \in Address : \A bit \in 1..length : bit \in a <=> bit \in prefix}

\* A block has the bits its prefix has, and no more; it matches the addresses with them.
LEMMA BlockIs ==
  ASSUME NEW prefix \in Address, NEW length \in 0..AddressBits, NEW env
  PROVE  /\ IsCidrBlock(prefix, length, env) <=> \A bit \in prefix : bit <= length
         /\ IsCidrBlock(prefix, length, env) =>
              \A a \in Address : Matches(Block(prefix, length), a, env) <=> a \in BitsOf(prefix, length)
<1>1. MakeMask(length, env) = 1..length
    BY MaskIs
<1>2. AddressBits \in Nat /\ \A a \in Address : a \subseteq 1..AddressBits
    BY HtAccessAssumption DEF Address
<1>3. IsCidrBlock(prefix, length, env) <=> prefix \subseteq 1..length
    BY <1>1 DEF IsCidrBlock
<1>4. prefix \subseteq 1..length <=> \A bit \in prefix : bit <= length
    BY <1>2
<1>5. ASSUME prefix \subseteq 1..length, NEW a \in Address
      PROVE  Matches(Block(prefix, length), a, env) <=> a \in BitsOf(prefix, length)
  <2>1. Matches(Block(prefix, length), a, env) <=> prefix = a \cap (1..length)
        BY <1>1 DEF Matches, Block
  <2>2. prefix = a \cap (1..length) <=> \A bit \in 1..length : bit \in a <=> bit \in prefix
        BY <1>5
  <2>3. QED
        BY <2>1, <2>2 DEF BitsOf
<1>6. QED
    BY <1>3, <1>4, <1>5

\* The blocks mean these addresses, as far as one address can tell.
Means(blocks, addresses, address, env) ==
  /\ blocks \in Seq([prefix : Address, length : Int])
  /\ blocks = <<>> <=> addresses = {}
  /\ (\E j \in 1..Len(blocks) : Matches(blocks[j], address, env)) <=> address \in addresses

\* The blocks of addresses that a lookup found mean these.
LEMMA FoundMeans ==
  ASSUME NEW ips \in Seq(Address), NEW address \in Address, NEW env
  PROVE  Means([k \in DOMAIN ips |-> Block(ips[k], AddressBits)], Range(ips), address, env)
<1>1. PICK n \in Nat : n = Len(ips) /\ DOMAIN ips = 1..n
    OBVIOUS
<1>2. AddressBits \in 0..AddressBits /\ AddressBits \in Int
    BY HtAccessAssumption
<1>3. PICK blocks : blocks = [k \in 1..n |-> Block(ips[k], AddressBits)]
    OBVIOUS
<1>4. \A k \in 1..n : ips[k] \in Address
    BY <1>1
<1>5. blocks \in Seq([prefix : Address, length : Int]) /\ Len(blocks) = n
  <2>1. \A k \in 1..n : Block(ips[k], AddressBits) \in [prefix : Address, length : Int]
        BY <1>2, <1>4 DEF Block
  <2>2. QED
        BY <1>3, <2>1
<1>6. blocks = <<>> <=> Range(ips) = {}
  <2>1. blocks = <<>> <=> n = 0
        BY <1>5, EmptySeq
  <2>2. Range(ips) = {ips[k] : k \in 1..n}
        BY <1>1 DEF Range
  <2>3. n # 0 => 1 \in 1..n
        OBVIOUS
  <2>4. n = 0 => 1..n = {}
        OBVIOUS
  <2>5. QED
        BY <2>1, <2>2, <2>3, <2>4
<1>7. ASSUME NEW k \in 1..n PROVE Matches(blocks[k], address, env) <=> ips[k] = address
  <2>1. MakeMask(AddressBits, env) = 1..AddressBits
        BY <1>2, MaskIs
  <2>2. address \cap (1..AddressBits) = address
        BY DEF Address
  <2>3. blocks[k].prefix = ips[k] /\ blocks[k].length = AddressBits
        BY <1>3 DEF Block
  <2>4. QED
        BY <2>1, <2>2, <2>3 DEF Matches
<1>8. (\E j \in 1..n : Matches(blocks[j], address, env)) <=> address \in Range(ips)
    BY <1>1, <1>7 DEF Range
<1>9. QED
    BY <1>1, <1>3, <1>5, <1>6, <1>8 DEF Means

\* What a lookup gives, and that it gives nothing for a name with a slash.
LEMMA LookupIs ==
  ASSUME NEW S, "NUL" \notin S, NEW host \in Seq(S), NEW env, IsEnv(env)
  PROVE  /\ Lookup(host, env) \in Seq(Address)
         /\ "/" \in Range(host) => Lookup(host, env) = <<>>
<1>5. CString(host) = host
    BY CStringIs
<1>1. CASE host \in DOMAIN IpOf
  <2>1. PICK ip \in Address : ip = IpOf[host]
        BY <1>1, HtAccessAssumption
  <2>2. <<ip>> \in Seq(Address)
        OBVIOUS
  <2>3. Lookup(host, env) = <<ip>>
        BY <1>1, <1>5, <2>1 DEF Lookup
  <2>4. "/" \notin Range(host)
        BY <1>1, HtAccessAssumption DEF NoSlashIn
  <2>5. QED
        BY <2>2, <2>3, <2>4
<1>2. CASE host \notin DOMAIN IpOf /\ host \in DOMAIN env.dns
  <2>1. Lookup(host, env) = env.dns[host]
        BY <1>2, <1>5 DEF Lookup
  <2>2. env.dns[host] \in Seq(Address) /\ "/" \notin Range(host)
        BY <1>2 DEF IsEnv, NoSlashIn
  <2>3. QED
        BY <2>1, <2>2
<1>3. CASE host \notin DOMAIN IpOf /\ host \notin DOMAIN env.dns
  <2>1. Lookup(host, env) = <<>>
        BY <1>3, <1>5 DEF Lookup
  <2>2. QED
        BY <2>1, EmptySeq
<1>4. QED
    BY <1>1, <1>2, <1>3

\* A host means the same addresses to the program and to the reference.
LEMMA HostMeans ==
  ASSUME NEW S, "NUL" \notin S, NEW host \in Seq(S), NEW env, IsEnv(env), LengthsInRange(host),
         NEW address \in Address
  PROVE  Means(Blocks(host, env), HostAddresses(host, env), address, env)
<1>1. PICK L \in Nat : L = Len(host) /\ DOMAIN host = 1..L
    OBVIOUS
<1>2. PICK parts : parts = Split(host, Slash)
    OBVIOUS
<1>3. PICK M : M = Marks(host, "/")
    OBVIOUS
<1>4. M = {k \in DOMAIN host : host[k] = "/"}
    BY <1>1, <1>3 DEF Marks
<1>5. /\ Len(parts) = 2 <=> Cardinality(M) = 1
      /\ Len(parts) = 2 => \E p \in 1..L : /\ M = {p} /\ parts[1] = SubSeq(host, 1, p - 1)
                                           /\ parts[2] = SubSeq(host, p + 1, L)
  <2>1. PICK c : c = "/"
        OBVIOUS
  <2>2. InTwo(Split(host, <<c>>), host, c)
        BY SplitInTwo
  <2>3. Split(host, <<c>>) = parts
        BY <1>2, <2>1 DEF Slash
  <2>4. QED
        BY ONLY <1>1, <1>3, <2>1, <2>2, <2>3 DEF InTwo
<1>6. PICK ips \in Seq(Address) : ips = Lookup(host, env)
    BY LookupIs
<1>7. PICK found : found = [k \in DOMAIN ips |-> Block(ips[k], AddressBits)]
    OBVIOUS
<1>8. Means(found, Range(ips), address, env)
    BY <1>7, FoundMeans
<1>12. /\ CidrError(parts, env) = "none" =>
            Blocks(host, env) = <<Block(IpOf[CString(parts[1])], LengthOf[parts[2]])>>
       /\ CidrError(parts, env) = "invalid_argument" => Blocks(host, env) = <<>>
       /\ CidrError(parts, env) = "runtime_error" => Blocks(host, env) = found
    BY <1>2, <1>6, <1>7, Zenon DEF Blocks
<1>9. CASE Len(parts) # 2
  <2>1. Blocks(host, env) = found
    <3>1. CidrError(parts, env) = "runtime_error"
          BY <1>9 DEF CidrError
    <3>2. QED
          BY <1>12, <3>1
  <2>2. HostAddresses(host, env) = Range(ips)
        BY <1>4, <1>5, <1>6, <1>9 DEF HostAddresses
  <2>3. QED
        BY <1>8, <2>1, <2>2
<1>10. CASE Len(parts) = 2
  <2>1. PICK p \in 1..L : /\ M = {p} /\ parts[1] = SubSeq(host, 1, p - 1)
                          /\ parts[2] = SubSeq(host, p + 1, L)
        BY <1>5, <1>10
  <2>2. Nth(M, 1) = p /\ Cardinality(M) = 1
        BY <1>5, <1>10, <2>1, NthOfOne
  <2>3. PICK first, second : first = SubSeq(host, 1, p - 1) /\ second = SubSeq(host, p + 1, L)
        OBVIOUS
  <2>11. CString(first) = first
    <3>1. Within(host, 0, p - 1)
          BY <1>1 DEF Within
    <3>2. Slice(host, 0, p - 1) \in Seq(S)
          BY <3>1, SliceIs
    <3>3. first \in Seq(S)
          BY <2>3, <3>2 DEF Slice
    <3>4. QED
          BY <3>3, CStringIs
  <2>4. host[p] = "/"
        BY <1>4, <2>1
  <2>5. ips = <<>>
    <3>1. "/" \in Range(host)
          BY <1>1, <2>4 DEF Range
    <3>2. QED
          BY <1>6, <3>1, LookupIs
  <2>6. HostAddresses(host, env) =
          IF /\ first \in DOMAIN IpOf /\ second \in DOMAIN LengthOf
             /\ \A bit \in IpOf[first] : bit <= LengthOf[second]
          THEN BitsOf(IpOf[first], LengthOf[second]) ELSE Range(ips)
        BY <1>1, <1>4, <1>6, <2>2, <2>3 DEF HostAddresses, BitsOf
  <2>7. CASE first \notin DOMAIN IpOf
    <3>1. Blocks(host, env) = found
      <4>1. CidrError(parts, env) = "runtime_error"
            BY <1>10, <2>1, <2>3, <2>7, <2>11 DEF CidrError
      <4>2. QED
            BY <1>12, <4>1
    <3>2. QED
          BY <1>8, <2>6, <2>7, <3>1
  <2>8. CASE first \in DOMAIN IpOf /\ second \notin DOMAIN LengthOf
    <3>1. Blocks(host, env) = <<>>
      <4>1. CidrError(parts, env) = "invalid_argument"
            BY <1>10, <2>1, <2>3, <2>8, <2>11 DEF CidrError
      <4>2. QED
            BY <1>12, <4>1
    <3>2. found = <<>>
          BY <1>7, <2>5
    <3>3. QED
          BY <1>8, <2>6, <2>8, <3>1, <3>2
  <2>9. CASE first \in DOMAIN IpOf /\ second \in DOMAIN LengthOf
    <3>1. PICK prefix \in Address : prefix = IpOf[first]
          BY <2>9, HtAccessAssumption
    <3>2. PICK length \in 0..AddressBits : length = LengthOf[second]
      <4>1. p \in DOMAIN host /\ L \in p..Len(host)
            BY <1>1
      <4>2. SubSeq(host, p + 1, L) \in DOMAIN LengthOf =>
              LengthOf[SubSeq(host, p + 1, L)] \in 0..AddressBits
            BY <2>4, <4>1 DEF LengthsInRange
      <4>3. QED
            BY <2>3, <2>9, <4>2
    <3>3. /\ IsCidrBlock(prefix, length, env) <=> \A bit \in prefix : bit <= length
          /\ IsCidrBlock(prefix, length, env) =>
               (Matches(Block(prefix, length), address, env) <=> address \in BitsOf(prefix, length))
          BY BlockIs
    <3>4. CASE ~IsCidrBlock(prefix, length, env)
      <4>1. Blocks(host, env) = found
        <5>1. CidrError(parts, env) = "runtime_error"
              BY <1>10, <2>1, <2>3, <2>9, <2>11, <3>1, <3>2, <3>4 DEF CidrError
        <5>2. QED
              BY <1>12, <5>1
      <4>2. QED
            BY <1>8, <2>6, <3>1, <3>2, <3>3, <3>4, <4>1
    <3>5. CASE IsCidrBlock(prefix, length, env)
      <4>1. PICK block \in [prefix : Address, length : Int] : block = Block(prefix, length)
        <5>1. length \in Int
              BY HtAccessAssumption
        <5>2. QED
              BY <5>1 DEF Block
      <4>2. Blocks(host, env) = <<block>>
        <5>1. CidrError(parts, env) = "none"
              BY <1>10, <2>1, <2>3, <2>9, <2>11, <3>1, <3>2, <3>5 DEF CidrError
        <5>2. QED
              BY <1>12, <2>1, <2>3, <2>11, <3>1, <3>2, <4>1, <5>1
      <4>3. HostAddresses(host, env) = BitsOf(prefix, length)
            BY <2>6, <2>9, <3>1, <3>2, <3>3, <3>5
      <4>4. prefix \in BitsOf(prefix, length)
            BY DEF BitsOf
      <4>5. <<block>> \in Seq([prefix : Address, length : Int]) /\ <<block>> # <<>>
            OBVIOUS
      <4>6. (\E j \in 1..Len(<<block>>) : Matches(<<block>>[j], address, env))
              <=> Matches(block, address, env)
        <5>1. Len(<<block>>) = 1 /\ <<block>>[1] = block /\ \A j \in 1..1 : j = 1
              OBVIOUS
        <5>2. QED
              BY <5>1
      <4>7. QED
            BY <3>3, <3>5, <4>1, <4>2, <4>3, <4>4, <4>5, <4>6 DEF Means
    <3>6. QED
          BY <3>4, <3>5
  <2>10. QED
        BY <2>7, <2>8, <2>9
<1>11. QED
    BY <1>9, <1>10

-----------------------------------------------------------------------------
(* The first of many that is in a set.                                     *)

NoHit(q, F) == \A j \in 1..Len(q) : q[j] \notin F
FirstAt(q, F, j) == j \in 1..Len(q) /\ q[j] \in F /\ \A i \in 1..(j - 1) : q[i] \notin F

\* The first one of a sequence that has one.
LEMMA FirstExists ==
  ASSUME NEW W, NEW q \in Seq(W), NEW F, ~NoHit(q, F)
  PROVE  \E j \in 1..Len(q) : FirstAt(q, F, j)
<1>1. PICK n \in Nat : n = Len(q)
    OBVIOUS
<1>2. PICK I : I = {j \in 1..n : q[j] \in F}
    OBVIOUS
<1>3. I # {} /\ I \in SUBSET Nat
    BY <1>1, <1>2 DEF NoHit
<1>4. PICK j \in I : \A i \in I : j <= i
    BY <1>3, LeastElement
<1>5. j \in 1..n /\ q[j] \in F
    BY <1>2, <1>4
<1>6. ASSUME NEW i \in 1..(j - 1) PROVE q[i] \notin F
  <2>1. i \in 1..n /\ ~(j <= i)
        BY <1>5
  <2>2. QED
        BY <1>2, <1>4, <2>1
<1>7. QED
    BY <1>1, <1>5, <1>6 DEF FirstAt

\* The one found in the second of two sequences.
Later(all, b, F) ==
  \E j \in 1..Len(all), i \in 1..Len(b) : FirstAt(all, F, j) /\ b[i] \in F /\ all[j] = b[i]

TwoParts(all, a, b, F) ==
  /\ NoHit(all, F) <=> NoHit(a, F) /\ NoHit(b, F)
  /\ \A j \in 1..Len(a) : FirstAt(a, F, j) => FirstAt(all, F, j) /\ all[j] = a[j]
  /\ NoHit(a, F) /\ ~NoHit(b, F) => Later(all, b, F)

\* Of two sequences, the first one decides if it has a hit.
LEMMA FirstOfTwo ==
  ASSUME NEW W, NEW a \in Seq(W), NEW b \in Seq(W), NEW all, all = a \o b, NEW F
  PROVE  TwoParts(all, a, b, F)
<1>1. PICK n \in Nat : n = Len(a)
    OBVIOUS
<1>2. PICK m \in Nat : m = Len(b)
    OBVIOUS
<1>3. /\ Len(all) = n + m
      /\ \A i \in 1..n : all[i] = a[i]
      /\ \A i \in 1..m : all[n + i] = b[i]
    BY <1>1, <1>2, ConcatElements
<1>4. ASSUME NEW i \in 1..(n + m), i \notin 1..n PROVE i - n \in 1..m /\ n + (i - n) = i
    BY <1>4
<1>5. NoHit(all, F) <=> NoHit(a, F) /\ NoHit(b, F)
  <2>1. ASSUME NoHit(a, F), NoHit(b, F), NEW i \in 1..(n + m) PROVE all[i] \notin F
    <3>1. CASE i \in 1..n
          BY <1>1, <1>3, <2>1, <3>1 DEF NoHit
    <3>2. CASE i \notin 1..n
      <4>1. PICK k \in 1..m : n + k = i
            BY <1>4, <3>2
      <4>2. QED
            BY <1>2, <1>3, <2>1, <4>1 DEF NoHit
    <3>3. QED
          BY <3>1, <3>2
  <2>2. ASSUME NoHit(all, F), NEW i \in 1..n PROVE a[i] \notin F
    <3>1. i \in 1..(n + m)
          OBVIOUS
    <3>2. QED
          BY <1>3, <2>2, <3>1 DEF NoHit
  <2>3. ASSUME NoHit(all, F), NEW i \in 1..m PROVE b[i] \notin F
    <3>1. n + i \in 1..(n + m)
          OBVIOUS
    <3>2. QED
          BY <1>3, <2>3, <3>1 DEF NoHit
  <2>4. QED
        BY <1>1, <1>2, <1>3, <2>1, <2>2, <2>3 DEF NoHit
<1>6. ASSUME NEW j \in 1..n, FirstAt(a, F, j) PROVE FirstAt(all, F, j) /\ all[j] = a[j]
  <2>1. \A i \in 1..(j - 1) : i \in 1..n
        OBVIOUS
  <2>2. j \in 1..(n + m)
        OBVIOUS
  <2>3. QED
        BY <1>3, <1>6, <2>1, <2>2 DEF FirstAt
<1>7. ASSUME NoHit(a, F), ~NoHit(b, F) PROVE Later(all, b, F)
  <2>1. PICK i \in 1..m : FirstAt(b, F, i)
        BY <1>2, <1>7, FirstExists
  <2>2. PICK j \in 1..(n + m) : j = n + i
        OBVIOUS
  <2>3. b[i] \in F /\ all[j] = b[i] /\ \A k \in 1..(i - 1) : b[k] \notin F
        BY <1>3, <2>1, <2>2 DEF FirstAt
  <2>4. ASSUME NEW k \in 1..(j - 1) PROVE all[k] \notin F
    <3>1. CASE k \in 1..n
          BY <1>1, <1>3, <1>7, <3>1 DEF NoHit
    <3>2. CASE k \notin 1..n
      <4>1. PICK l \in 1..m : n + l = k
        <5>1. k \in 1..(n + m)
              BY <2>2
        <5>2. QED
              BY <1>4, <3>2, <5>1
      <4>2. l \in 1..(i - 1) /\ all[k] = b[l]
            BY <1>3, <2>2, <4>1
      <4>3. QED
            BY <2>3, <4>2
    <3>3. QED
          BY <3>1, <3>2
  <2>5. FirstAt(all, F, j)
        BY <1>3, <2>3, <2>4 DEF FirstAt
  <2>6. QED
        BY <1>2, <1>3, <2>3, <2>5 DEF Later
<1>8. QED
    BY <1>1, <1>5, <1>6, <1>7 DEF TwoParts

\* The first hit of all is in the first sequence that has one.
Decided(all, F, j, seqs, k, i) ==
  /\ FirstAt(all, F, j) /\ \A l \in 1..(k - 1) : NoHit(seqs[l], F)
  /\ i \in 1..Len(seqs[k]) /\ seqs[k][i] \in F /\ all[j] = seqs[k][i]
Decides(all, seqs, m, F) ==
  \/ NoHit(all, F) /\ \A k \in 1..m : NoHit(seqs[k], F)
  \/ \E k \in 1..m, j, i \in Nat : Decided(all, F, j, seqs, k, i)

\* One sequence more.
LEMMA DecidesMore ==
  ASSUME NEW W, NEW a \in Seq(W), NEW b \in Seq(W), NEW all, all = a \o b, NEW F, NEW seqs,
         NEW m \in Nat, Decides(a, seqs, m, F), b = seqs[m + 1]
  PROVE  Decides(all, seqs, m + 1, F)
<1>1. /\ NoHit(all, F) <=> NoHit(a, F) /\ NoHit(b, F)
      /\ \A j \in 1..Len(a) : FirstAt(a, F, j) => FirstAt(all, F, j) /\ all[j] = a[j]
      /\ NoHit(a, F) /\ ~NoHit(b, F) => Later(all, b, F)
  <2>1. TwoParts(all, a, b, F)
        BY FirstOfTwo
  <2>2. QED
        BY <2>1 DEF TwoParts
<1>2. PICK next \in Nat : next = m + 1 /\ next \in 1..next
    OBVIOUS
<1>3. \A k \in 1..next : k \in 1..m \/ k = next
    BY <1>2
<1>4. CASE NoHit(a, F) /\ \A k \in 1..m : NoHit(seqs[k], F)
  <2>1. CASE NoHit(b, F)
        BY <1>1, <1>2, <1>3, <1>4, <2>1 DEF Decides
  <2>2. CASE ~NoHit(b, F)
    <3>1. PICK j \in 1..Len(all), i \in 1..Len(b) :
            FirstAt(all, F, j) /\ b[i] \in F /\ all[j] = b[i]
          BY <1>1, <1>4, <2>2 DEF Later
    <3>2. \A l \in 1..(next - 1) : NoHit(seqs[l], F)
      <4>1. next - 1 = m
            BY <1>2
      <4>2. QED
            BY <1>4, <4>1
    <3>3. Decided(all, F, j, seqs, next, i)
          BY <1>2, <3>1, <3>2 DEF Decided
    <3>4. i \in Nat /\ j \in Nat
          OBVIOUS
    <3>5. QED
          BY <1>2, <3>3, <3>4 DEF Decides
  <2>3. QED
        BY <2>1, <2>2
<1>5. ASSUME NEW k \in 1..m, NEW j \in Nat, NEW i \in Nat, Decided(a, F, j, seqs, k, i)
      PROVE  Decides(all, seqs, m + 1, F)
  <2>1. FirstAt(a, F, j) /\ j \in 1..Len(a)
        BY <1>5 DEF Decided, FirstAt
  <2>2. Decided(all, F, j, seqs, k, i)
        BY <1>1, <1>5, <2>1 DEF Decided
  <2>3. k \in 1..(m + 1)
        OBVIOUS
  <2>4. QED
        BY <2>2, <2>3 DEF Decides
<1>6. QED
    BY <1>4, <1>5 DEF Decides

\* So with many: the first one that has a hit decides.
LEMMA FlattenDecides ==
  ASSUME NEW W, NEW seqs \in Seq(Seq(W)), NEW F
  PROVE  FlattenSeq(seqs) \in Seq(W) /\ Decides(FlattenSeq(seqs), seqs, Len(seqs), F)
<1>1. PICK n \in Nat : n = Len(seqs)
    OBVIOUS
<1>2. FlattenSeq(seqs) \in Seq(W)
    BY FlattenSeqType
<1>3. CASE n = 0
  <2>1. FlattenSeq(seqs) = seqs
        BY <1>1, <1>3 DEF FlattenSeq
  <2>2. NoHit(seqs, F)
        BY <1>1, <1>3 DEF NoHit
  <2>3. QED
        BY <1>1, <1>2, <1>3, <2>1, <2>2 DEF Decides
<1>4. CASE n # 0
  <2>1. PICK f : f = Flattened(seqs, n)
        OBVIOUS
  <2>2. \A i \in 1..n : f[i] = IF i = 1 THEN seqs[i] ELSE f[i - 1] \o seqs[i]
        BY <2>1, FlattenExists, FlattenElement
  <2> DEFINE T == {m \in Nat : m # 0 /\ m <= n => f[m] \in Seq(W) /\ Decides(f[m], seqs, m, F)}
  <2>3. 0 \in T
        OBVIOUS
  <2>4. ASSUME NEW m \in Nat, m \in T PROVE m + 1 \in T
    <3> SUFFICES ASSUME m + 1 <= n
                 PROVE  f[m + 1] \in Seq(W) /\ Decides(f[m + 1], seqs, m + 1, F)
        OBVIOUS
    <3>1. PICK k \in 1..n : k = m + 1
          OBVIOUS
    <3>2. PICK b \in Seq(W) : b = seqs[k]
          BY <1>1, ElementOfSeq
    <3>3. f[k] = IF k = 1 THEN seqs[k] ELSE f[k - 1] \o seqs[k]
          BY <2>2
    <3>4. CASE m = 0
      <4>1. PICK none \in Seq(W) : none = <<>>
            BY EmptySeq
      <4>2. f[k] = b /\ b = none \o b
            BY <3>1, <3>2, <3>3, <3>4, <4>1, ConcatEmptySeq
      <4>3. Decides(none, seqs, m, F)
        <5>1. NoHit(none, F)
              BY <4>1 DEF NoHit
        <5>2. 1..m = {}
              BY <3>4
        <5>3. QED
              BY <5>1, <5>2 DEF Decides
      <4>4. b = seqs[m + 1]
            BY <3>1, <3>2
      <4>5. Decides(b, seqs, m + 1, F)
            BY <4>2, <4>3, <4>4, DecidesMore
      <4>6. QED
            BY <3>1, <4>2, <4>5
    <3>5. CASE m # 0
      <4>1. PICK a \in Seq(W) : a = f[m] /\ Decides(a, seqs, m, F)
            BY <2>4, <3>5
      <4>2. f[k] = a \o b
        <5>1. k # 1 /\ k - 1 = m
              BY <3>1, <3>5
        <5>2. QED
              BY <3>2, <3>3, <4>1, <5>1
      <4>3. b = seqs[m + 1]
            BY <3>1, <3>2
      <4>4. PICK all \in Seq(W) : all = a \o b
            BY ConcatProperties
      <4>5. Decides(all, seqs, m + 1, F)
            BY <4>1, <4>3, <4>4, DecidesMore
      <4>6. QED
            BY <3>1, <4>2, <4>4, <4>5
    <3>6. QED
          BY <3>4, <3>5
  <2>5. n \in T
    <3> HIDE DEF T
    <3>1. QED
          BY <2>3, <2>4, NatSetInduction
  <2>6. Decides(f[n], seqs, n, F)
        BY <1>4, <2>5
  <2>7. FlattenSeq(seqs) = f[n]
        BY <1>1, <1>4, <2>1, FlattenSeqIs
  <2>8. QED
        BY <1>1, <1>2, <2>6, <2>7
<1>5. QED
    BY <1>3, <1>4

-----------------------------------------------------------------------------
(* Lines of rules.                                                         *)

\* The lengths in a part of a text are among those in the text.
LEMMA LengthsInPart ==
  ASSUME NEW S, NEW s \in Seq(S), NEW a \in Nat, NEW b \in Nat, Within(s, a, b),
         NEW t \in Seq(S), Taken(t, s, a, b), LengthsInRange(s)
  PROVE  LengthsInRange(t)
<1>1. PICK L \in Nat : L = Len(s) /\ b <= L /\ a <= b
    BY DEF Within
<1>2. PICK m \in Nat : m = b - a /\ Len(t) = m /\ \A i \in 1..m : t[i] = s[a + i]
  <2>1. b - a \in Nat
        BY <1>1
  <2>2. QED
        BY <2>1 DEF Taken
<1>3. ASSUME NEW k \in 1..m, NEW end \in k..m
      PROVE  LET number == SubSeq(t, k + 1, end)
             IN t[k] = "/" /\ number \in DOMAIN LengthOf => LengthOf[number] \in 0..AddressBits
  <2>1. PICK c \in Nat, d \in Nat : c = a + k /\ d = a + end
        OBVIOUS
  <2>2. k \in Nat /\ end \in Nat /\ c \in 1..L /\ d \in c..L
        BY <1>1, <1>2, <2>1
  <2>3. Within(t, k, end) /\ Within(s, c, d)
        BY <1>1, <1>2, <2>1, <2>2 DEF Within
  <2>4. Same(t, k, end, s, c, d)
    <3>1. end - k = d - c
          BY <2>1, <2>2
    <3>2. ASSUME NEW i \in 1..(end - k) PROVE t[k + i] = s[c + i]
      <4>1. k + i \in 1..m /\ a + (k + i) = c + i
            BY <2>1, <2>2
      <4>2. t[k + i] = s[a + (k + i)]
            BY <1>2, <4>1
      <4>3. QED
            BY <4>1, <4>2
    <3>3. QED
          BY <3>1, <3>2 DEF Same
  <2>5. Slice(t, k, end) = Slice(s, c, d)
        BY <2>2, <2>3, <2>4, SlicesAgree
  <2>6. t[k] = s[c]
        BY <1>2, <2>1
  <2>7. c \in DOMAIN s /\ d \in c..Len(s)
        BY <1>1, <2>2
  <2>8. s[c] = "/" /\ SubSeq(s, c + 1, d) \in DOMAIN LengthOf =>
          LengthOf[SubSeq(s, c + 1, d)] \in 0..AddressBits
        BY <2>7 DEF LengthsInRange
  <2>9. QED
        BY <2>5, <2>6, <2>8 DEF Slice
<1>4. DOMAIN t = 1..m
    BY <1>2
<1>5. QED
    BY <1>2, <1>3, <1>4 DEF LengthsInRange

\* The rules of a line, and the reference, for any symbol instead of " from ".
RuleWords == {"allow", "deny"}
RulesBy(line, env, c) ==
  LET components == Split(line, <<c>>)
  IN IF Len(components) # 2 \/ components[1] \notin {<<"allow">>, <<"deny">>} THEN <<>>
     ELSE LET blocks == Blocks(components[2], env)
          IN [k \in DOMAIN blocks |-> HtAccessRule(blocks[k], components[1] = <<"allow">>)]
IsRuleBy(line, env, c) ==
  /\ Len(line) >= 2 /\ line[1] \in {"allow", "deny"}
  /\ \A k \in DOMAIN line : line[k] = c <=> k = 2
  /\ HostAddresses(SubSeq(line, 3, Len(line)), env) # {}

\* What they mean for one address.
RuleType == [pattern : [prefix : Address, length : Int], allow : BOOLEAN]
Speaks(line, address, env) == address \in HostAddresses(SubSeq(line, 3, Len(line)), env)
Hits(address, env) == {rule \in RuleType : Matches(rule.pattern, address, env)}
LineMeans(rules, line, address, env) ==
  /\ line[1] \in RuleWords /\ \A i \in 1..Len(rules) : rules[i].allow <=> line[1] = "allow"
  /\ (\E i \in 1..Len(rules) : rules[i] \in Hits(address, env)) <=> Speaks(line, address, env)
LineGives(rules, line, address, env, isRule) ==
  /\ rules \in Seq(RuleType)
  /\ rules = <<>> <=> ~isRule
  /\ isRule => LineMeans(rules, line, address, env)

\* The word in front of the first place of a symbol.
LEMMA WordIs ==
  ASSUME NEW S, NEW line \in Seq(S), NEW p \in 1..Len(line), NEW x
  PROVE  SubSeq(line, 1, p - 1) = <<x>> <=> p = 2 /\ line[1] = x
<1>1. PICK L \in Nat : L = Len(line)
    OBVIOUS
<1>2. PICK b \in Nat : b = p - 1
  <2>1. p - 1 \in Nat
        OBVIOUS
  <2>2. QED
        BY <2>1
<1>3. PICK zero \in Nat : zero = 0
    OBVIOUS
<1>4. Within(line, zero, b)
    BY <1>1, <1>2, <1>3 DEF Within
<1>5. PICK word \in Seq(S) : Taken(word, line, zero, b)
    BY <1>4, TakenIs
<1>6. word = SubSeq(line, 1, p - 1) /\ Len(word) = b /\ \A i \in 1..b : word[i] = line[i]
  <2>1. b - zero = b /\ zero + 1 = 1
        BY <1>3
  <2>2. \A i \in 1..b : zero + i = i
        BY <1>3
  <2>3. QED
        BY <1>2, <1>5, <2>1, <2>2 DEF Taken
<1>7. PICK one : one = <<x>>
    OBVIOUS
<1>8. one \in Seq({x}) /\ Len(one) = 1 /\ one[1] = x
    BY <1>7
<1>9. ASSUME word = one PROVE b = 1 /\ line[1] = x
  <2>1. b = 1
        BY <1>6, <1>8, <1>9
  <2>2. QED
        BY <1>6, <1>8, <1>9, <2>1
<1>10. ASSUME b = 1, line[1] = x PROVE word = one
  <2>1. \A i \in 1..1 : word[i] = one[i]
    <3>1. \A i \in 1..1 : i = 1
          OBVIOUS
    <3>2. word[1] = line[1]
          BY <1>6, <1>10
    <3>3. QED
          BY <1>8, <1>10, <3>1, <3>2
  <2>2. Len(word) = 1 /\ Len(one) = 1
        BY <1>6, <1>8, <1>10
  <2>3. word \in Seq(S \cup {x}) /\ one \in Seq(S \cup {x})
        BY <1>7
  <2>4. QED
        BY <2>1, <2>2, <2>3, SeqEqual
<1>11. b = 1 <=> p = 2
    BY <1>2
<1>12. QED
    BY <1>6, <1>7, <1>9, <1>10, <1>11

\* The rules of a host's blocks.
Speaking(rules, addresses, allow, address, env) ==
  /\ rules \in Seq(RuleType)
  /\ rules = <<>> <=> addresses = {}
  /\ \A i \in 1..Len(rules) : rules[i].allow = allow
  /\ (\E i \in 1..Len(rules) : rules[i] \in Hits(address, env)) <=> address \in addresses

\* Each block makes one rule, and the rules speak of the addresses of the blocks.
LEMMA RulesMean ==
  ASSUME NEW blocks, NEW addresses, NEW address \in Address, NEW env,
         Means(blocks, addresses, address, env), NEW allow \in BOOLEAN,
         NEW rules, rules = [k \in DOMAIN blocks |-> HtAccessRule(blocks[k], allow)]
  PROVE  Speaking(rules, addresses, allow, address, env)
<1>1. PICK n \in Nat : n = Len(blocks) /\ DOMAIN blocks = 1..n
    BY DEF Means
<1>2. ASSUME NEW k \in 1..n
      PROVE  /\ rules[k] \in RuleType /\ rules[k].allow = allow
             /\ rules[k] \in Hits(address, env) <=> Matches(blocks[k], address, env)
  <2>1. blocks[k] \in [prefix : Address, length : Int]
    <3>1. PICK T : T = [prefix : Address, length : Int]
          OBVIOUS
    <3>2. blocks \in Seq(T)
          BY <3>1 DEF Means
    <3>3. blocks[k] \in T
          BY <1>1, <3>2, ElementOfSeq
    <3>4. QED
          BY <3>1, <3>3
  <2>2. rules[k] = [pattern |-> blocks[k], allow |-> allow]
        BY <1>1 DEF HtAccessRule
  <2>3. rules[k] \in RuleType /\ rules[k].allow = allow /\ rules[k].pattern = blocks[k]
        BY <2>1, <2>2 DEF RuleType
  <2>4. QED
        BY <2>3 DEF Hits
<1>3. rules \in Seq(RuleType) /\ Len(rules) = n
  <2>1. rules \in [1..n -> RuleType]
        BY <1>1, <1>2
  <2>2. QED
        BY <2>1
<1>4. rules = <<>> <=> blocks = <<>>
  <2>1. blocks \in Seq([prefix : Address, length : Int])
        BY DEF Means
  <2>2. rules = <<>> <=> n = 0
        BY <1>3, EmptySeq
  <2>3. blocks = <<>> <=> n = 0
        BY <1>1, <2>1, EmptySeq
  <2>4. QED
        BY <2>2, <2>3
<1>5. (\E i \in 1..n : rules[i] \in Hits(address, env)) <=> address \in addresses
    BY <1>1, <1>2 DEF Means
<1>6. blocks = <<>> <=> addresses = {}
    BY DEF Means
<1>7. QED
    BY <1>2, <1>3, <1>4, <1>5, <1>6 DEF Speaking

\* The rules of a line are those that the reference reads there.
LEMMA LineBy ==
  ASSUME NEW S, "NUL" \notin S, NEW line \in Seq(S), NEW env, IsEnv(env), LengthsInRange(line),
         NEW address \in Address, NEW c
  PROVE  LineGives(RulesBy(line, env, c), line, address, env, IsRuleBy(line, env, c))
<1>1. PICK L \in Nat : L = Len(line) /\ DOMAIN line = 1..L
    OBVIOUS
<1>2. PICK parts : parts = Split(line, <<c>>)
    OBVIOUS
<1>3. PICK M : M = Marks(line, c)
    OBVIOUS
<1>4. M = {k \in 1..L : line[k] = c}
    BY <1>1, <1>3 DEF Marks
<1>5. /\ Len(parts) = 2 <=> Cardinality(M) = 1
      /\ Len(parts) = 2 => \E p \in 1..L : /\ M = {p} /\ parts[1] = SubSeq(line, 1, p - 1)
                                           /\ parts[2] = SubSeq(line, p + 1, L)
  <2>1. InTwo(Split(line, <<c>>), line, c)
        BY SplitInTwo
  <2>2. QED
        BY ONLY <1>1, <1>2, <1>3, <2>1 DEF InTwo
<1>6. PICK host : host = SubSeq(line, 3, Len(line))
    OBVIOUS
<1>7. IsRuleBy(line, env, c) => M = {2} /\ line[1] \in RuleWords /\ L >= 2
  <2>1. ASSUME IsRuleBy(line, env, c) PROVE M = {2} /\ line[1] \in RuleWords /\ L >= 2
    <3>1. L >= 2 /\ line[1] \in {"allow", "deny"} /\ \A k \in 1..L : line[k] = c <=> k = 2
          BY <1>1, <2>1 DEF IsRuleBy
    <3>2. 2 \in 1..L
          BY <3>1
    <3>3. QED
          BY <1>4, <3>1, <3>2 DEF RuleWords
  <2>2. QED
        BY <2>1
<1>8. ASSUME RulesBy(line, env, c) = <<>>, ~IsRuleBy(line, env, c)
      PROVE  LineGives(RulesBy(line, env, c), line, address, env, IsRuleBy(line, env, c))
  <2>1. RulesBy(line, env, c) \in Seq(RuleType)
        BY <1>8, EmptySeq
  <2>2. QED
        BY <1>8, <2>1 DEF LineGives
<1>9. CASE Len(parts) # 2
  <2>1. RulesBy(line, env, c) = <<>>
        BY <1>2, <1>9 DEF RulesBy
  <2>2. ~IsRuleBy(line, env, c)
    <3>1. Cardinality({2}) = 1
          BY FS_Singleton
    <3>2. QED
          BY <1>5, <1>7, <1>9, <3>1
  <2>3. QED
        BY <1>8, <2>1, <2>2
<1>10. CASE Len(parts) = 2
  <2>1. PICK p \in 1..L : /\ M = {p} /\ parts[1] = SubSeq(line, 1, p - 1)
                          /\ parts[2] = SubSeq(line, p + 1, L)
        BY <1>5, <1>10
  <2>2. /\ parts[1] = <<"allow">> <=> p = 2 /\ line[1] = "allow"
        /\ parts[1] = <<"deny">> <=> p = 2 /\ line[1] = "deny"
    <3>1. p \in 1..Len(line)
          BY <1>1
    <3>2. \A x : SubSeq(line, 1, p - 1) = <<x>> <=> p = 2 /\ line[1] = x
          BY <3>1, WordIs
    <3>3. QED
          BY <2>1, <3>2
  <2>3. CASE ~(p = 2 /\ line[1] \in RuleWords)
    <3>1. RulesBy(line, env, c) = <<>>
      <4>1. parts[1] \notin {<<"allow">>, <<"deny">>}
            BY <2>2, <2>3 DEF RuleWords
      <4>2. QED
            BY <1>2, <4>1 DEF RulesBy
    <3>2. ~IsRuleBy(line, env, c)
      <4>1. M = {2} => p = 2
            BY <2>1
      <4>2. QED
            BY <1>7, <2>3, <4>1
    <3>3. QED
          BY <1>8, <3>1, <3>2
  <2>4. CASE p = 2 /\ line[1] \in RuleWords
    <3>1. PICK allow \in BOOLEAN : allow = (line[1] = "allow")
          OBVIOUS
    <3>2. PICK blocks : blocks = Blocks(host, env)
          OBVIOUS
    <3>3. PICK rules : rules = [k \in DOMAIN blocks |-> HtAccessRule(blocks[k], allow)]
          OBVIOUS
    <3>4. parts[2] = host
          BY <1>1, <1>6, <2>1, <2>4
    <3>5. RulesBy(line, env, c) = rules
      <4>1. parts[1] \in {<<"allow">>, <<"deny">>} /\ (parts[1] = <<"allow">>) = allow
            BY <2>2, <2>4, <3>1 DEF RuleWords
      <4>2. QED
            BY <1>2, <1>10, <3>2, <3>3, <3>4, <4>1 DEF RulesBy
    <3>6. IsRuleBy(line, env, c) <=> HostAddresses(host, env) # {}
      <4>1. \A k \in 1..L : line[k] = c <=> k = 2
            BY <1>4, <2>1, <2>4
      <4>2. L >= 2
            BY <2>4
      <4>3. QED
            BY <1>1, <1>6, <2>4, <4>1, <4>2 DEF IsRuleBy, RuleWords
    <3>7. host \in Seq(S) /\ LengthsInRange(host)
      <4>1. PICK two \in Nat : two = 2
            OBVIOUS
      <4>2. Within(line, two, L)
            BY <1>1, <2>4, <4>1 DEF Within
      <4>3. PICK t \in Seq(S) : Taken(t, line, two, L)
            BY <4>2, TakenIs
      <4>4. LengthsInRange(t)
            BY <4>2, <4>3, LengthsInPart
      <4>5. t = host
            BY <1>1, <1>6, <4>1, <4>3 DEF Taken
      <4>6. QED
            BY <4>4, <4>5
    <3>8. Means(blocks, HostAddresses(host, env), address, env)
          BY <3>2, <3>7, HostMeans
    <3>9. /\ rules \in Seq(RuleType)
          /\ rules = <<>> <=> HostAddresses(host, env) = {}
          /\ \A i \in 1..Len(rules) : rules[i].allow = allow
          /\ (\E i \in 1..Len(rules) : rules[i] \in Hits(address, env))
               <=> address \in HostAddresses(host, env)
      <4>1. Speaking(rules, HostAddresses(host, env), allow, address, env)
            BY <3>3, <3>8, RulesMean
      <4>2. QED
            BY <4>1 DEF Speaking
    <3>10. LineMeans(rules, line, address, env)
          BY <1>6, <2>4, <3>1, <3>9 DEF LineMeans, Speaks
    <3>11. QED
          BY <3>5, <3>6, <3>9, <3>10 DEF LineGives
  <2>5. QED
        BY <2>3, <2>4
<1>11. QED
    BY <1>9, <1>10

\* Of which " from " is an instance.
LEMMA LineIs ==
  ASSUME NEW S, "NUL" \notin S, NEW line \in Seq(S), NEW env, IsEnv(env), LengthsInRange(line),
         NEW address \in Address
  PROVE  LineGives(LineRules(line, env), line, address, env, IsRule(line, env))
<1>1. PICK c : c = " from "
    OBVIOUS
<1>2. LineGives(RulesBy(line, env, c), line, address, env, IsRuleBy(line, env, c))
    BY LineBy
<1>3. LineRules(line, env) = RulesBy(line, env, " from ")
    BY Zenon DEF LineRules, RulesBy
<1>4. IsRule(line, env) <=> IsRuleBy(line, env, " from ")
    BY Zenon DEF IsRule, IsRuleBy
<1>5. LineGives(LineRules(line, env), line, address, env, IsRuleBy(line, env, c))
    BY <1>1, <1>2, <1>3, Zenon
<1>6. QED
    BY <1>1, <1>4, <1>5, Zenon DEF LineGives

-----------------------------------------------------------------------------
(* Texts of rules.                                                         *)

\* The lines of a text are texts whose lengths are among those in the text.
LEMMA LinesInRange ==
  ASSUME NEW S, NEW text \in Seq(S), LengthsInRange(text), NEW c
  PROVE  /\ Split(text, <<c>>) \in Seq(Seq(S))
         /\ \A k \in 1..Len(Split(text, <<c>>)) : LengthsInRange(Split(text, <<c>>)[k])
<1>1. PICK lines : lines = Split(text, <<c>>)
    OBVIOUS
<1>2. lines \in Seq(Seq(S))
  <2>1. <<c>> \in Seq({c}) /\ Len(text) \in Nat
        OBVIOUS
  <2>2. QED
        BY <1>1, <2>1, SplitNTyped DEF Split
<1>3. PICK n \in Nat : n = Len(lines)
    BY <1>2
<1>4. PICK f : CutInto(text, c, f, lines)
    BY <1>1, SplitMarks
<1>5. CutsAtEnds(text, c, f, n)
    BY <1>3, <1>4, CutEnds
<1>6. PICK L \in Nat : L = Len(text)
    OBVIOUS
<1>7. ASSUME NEW k \in 1..n PROVE LengthsInRange(lines[k])
  <2>1. PICK next \in 1..(n + 1) : next = k + 1 /\ k < next /\ next <= n + 1
        OBVIOUS
  <2>2. f[k] \in Nat /\ f[next] \in Nat /\ f[k] < f[next] /\ f[next] <= L + 1
    <3>1. \A j \in 1..(n + 1) : f[j] \in Nat
          BY <1>5 DEF CutsAtEnds
    <3>2. \A i, j \in 1..(n + 1) : i < j => f[i] < f[j]
          BY <1>5 DEF CutsAtEnds
    <3>3. f[n + 1] = L + 1
          BY <1>5, <1>6 DEF CutsAtEnds
    <3>4. k \in 1..(n + 1) /\ n + 1 \in 1..(n + 1)
          OBVIOUS
    <3>5. CASE next = n + 1
          BY <2>1, <3>1, <3>2, <3>3, <3>4, <3>5
    <3>6. CASE next # n + 1
      <4>1. next < n + 1
            BY <2>1, <3>6
      <4>2. f[next] < f[n + 1] /\ f[k] < f[next]
            BY <2>1, <3>2, <3>4, <4>1
      <4>3. QED
            BY <3>1, <3>3, <3>4, <4>2
    <3>7. QED
          BY <3>5, <3>6
  <2>3. PICK a \in Nat : a = f[k]
        BY <2>2
  <2>4. PICK b \in Nat : b = f[next] - 1
    <3>1. f[next] - 1 \in Nat
          BY <2>2
    <3>2. QED
          BY <3>1
  <2>5. Within(text, a, b)
        BY <1>6, <2>2, <2>3, <2>4 DEF Within
  <2>6. PICK t \in Seq(S) : Taken(t, text, a, b)
        BY <2>5, TakenIs
  <2>7. lines[k] = SubSeq(text, f[k] + 1, f[next] - 1)
        BY <1>3, <1>4, <2>1 DEF CutInto
  <2>8. t = lines[k]
        BY <2>3, <2>4, <2>6, <2>7 DEF Taken
  <2>9. LengthsInRange(t)
        BY <2>5, <2>6, LengthsInPart
  <2>10. QED
        BY <2>8, <2>9
<1>8. QED
    BY <1>1, <1>2, <1>3, <1>7

\* What rules allow is decided by the first one that matches.
LEMMA AllowsIs ==
  ASSUME NEW rules \in Seq(RuleType), NEW address, NEW env
  PROVE  /\ NoHit(rules, Hits(address, env)) => Allows(rules, address, env)
         /\ \A j : FirstAt(rules, Hits(address, env), j) =>
                     (Allows(rules, address, env) <=> rules[j].allow)
<1>1. PICK n \in Nat : n = Len(rules)
    OBVIOUS
<1>2. PICK H : H = Hits(address, env)
    OBVIOUS
<1>3. PICK I \in SUBSET (1..n) : I = {i \in 1..n : Matches(rules[i].pattern, address, env)}
    OBVIOUS
<1>4. ASSUME NEW i \in 1..n PROVE rules[i] \in H <=> i \in I
  <2>1. rules[i] \in RuleType
        BY <1>1, ElementOfSeq
  <2>2. QED
        BY <1>2, <1>3, <2>1 DEF Hits
<1>5. PICK first : first = IF I # {} THEN Min(I) ELSE 0
    OBVIOUS
<1>6. Allows(rules, address, env) <=> first = 0 \/ rules[first].allow
    BY <1>1, <1>3, <1>5 DEF Allows, SelectInSeq
<1>7. \/ first = 0 /\ I = {}
      \/ first \in I /\ first \in 1..n /\ \A i \in 1..(first - 1) : i \notin I
    BY <1>5, FirstIndex
<1>8. ASSUME NoHit(rules, H) PROVE Allows(rules, address, env)
  <2>1. I = {}
        BY <1>1, <1>4, <1>8 DEF NoHit
  <2>2. QED
        BY <1>6, <1>7, <2>1
<1>9. ASSUME NEW j, FirstAt(rules, H, j)
      PROVE  Allows(rules, address, env) <=> rules[j].allow
  <2>1. j \in 1..n /\ j \in I /\ \A i \in 1..(j - 1) : i \notin I
    <3>1. j \in 1..n /\ rules[j] \in H /\ \A i \in 1..(j - 1) : rules[i] \notin H
          BY <1>1, <1>9 DEF FirstAt
    <3>2. \A i \in 1..(j - 1) : i \in 1..n
          BY <3>1
    <3>3. QED
          BY <1>4, <3>1, <3>2
  <2>2. first \in I /\ first \in 1..n /\ \A i \in 1..(first - 1) : i \notin I
        BY <1>7, <2>1
  <2>3. first = j
    <3>1. ~(first < j) /\ ~(j < first)
          BY <2>1, <2>2
    <3>2. QED
          BY <2>1, <2>2, <3>1
  <2>4. first # 0
        BY <2>2
  <2>5. QED
        BY <1>6, <2>3, <2>4
<1>10. QED
    BY <1>2, <1>8, <1>9

\* The rules of all lines, and the reference, for any symbol instead of the line's end.
RulesOf(line, env) == IF line = <<>> THEN <<>> ELSE LineRules(line, env)
RulesOfAll(lines, env) == [k \in DOMAIN lines |-> RulesOf(lines[k], env)]
Throwing(lines, env) == \E k \in DOMAIN lines : lines[k] # <<>> /\ RulesOf(lines[k], env) = <<>>
VerdictOf(lines, address, env) ==
  IF Throwing(lines, env) THEN "throws"
  ELSE IF Allows(FlattenSeq(RulesOfAll(lines, env)), address, env) THEN "allow" ELSE "deny"
Applying(lines, address, env) ==
  {k \in DOMAIN lines : lines[k] # <<>> /\ Speaks(lines[k], address, env)}
ReferenceOf(lines, address, env) ==
  IF \E k \in DOMAIN lines : lines[k] # <<>> /\ ~IsRule(lines[k], env) THEN "throws"
  ELSE IF Applying(lines, address, env) = {} THEN "allow"
  ELSE lines[Min(Applying(lines, address, env))][1]

\* Read line by line, rules mean what the reference says.
LEMMA LinesAgree ==
  ASSUME NEW S, "NUL" \notin S, NEW lines \in Seq(Seq(S)), NEW env, IsEnv(env), NEW address \in Address,
         \A k \in 1..Len(lines) : LengthsInRange(lines[k])
  PROVE  VerdictOf(lines, address, env) = ReferenceOf(lines, address, env)
<1>1. PICK n \in Nat : n = Len(lines) /\ DOMAIN lines = 1..n
    OBVIOUS
<1>2. PICK H : H = Hits(address, env)
    OBVIOUS
<1>3. PICK rules : rules = RulesOfAll(lines, env)
    OBVIOUS
<1>4. ASSUME NEW k \in 1..n, lines[k] # <<>>
      PROVE  LineGives(rules[k], lines[k], address, env, IsRule(lines[k], env))
  <2>1. PICK line \in Seq(S) : line = lines[k]
        BY <1>1, ElementOfSeq
  <2>2. LengthsInRange(line)
        BY <1>1, <2>1
  <2>3. LineGives(LineRules(line, env), line, address, env, IsRule(line, env))
        BY <2>2, LineIs
  <2>4. rules[k] = LineRules(line, env)
        BY <1>1, <1>3, <1>4, <2>1 DEF RulesOfAll, RulesOf
  <2>5. QED
        BY <2>1, <2>3, <2>4
<1>5. ASSUME NEW k \in 1..n, lines[k] = <<>> PROVE rules[k] = <<>>
    BY <1>1, <1>3, <1>5 DEF RulesOfAll, RulesOf
<1>6. \A k \in 1..n : rules[k] \in Seq(RuleType)
  <2>1. ASSUME NEW k \in 1..n PROVE rules[k] \in Seq(RuleType)
    <3>1. CASE lines[k] = <<>>
          BY <1>5, <3>1, EmptySeq
    <3>2. CASE lines[k] # <<>>
          BY <1>4, <3>2 DEF LineGives
    <3>3. QED
          BY <3>1, <3>2
  <2>2. QED
        BY <2>1
<1>7. rules \in Seq(Seq(RuleType)) /\ Len(rules) = n
  <2>1. rules \in [1..n -> Seq(RuleType)]
    <3>1. rules = [k \in 1..n |-> RulesOf(lines[k], env)]
          BY <1>1, <1>3 DEF RulesOfAll
    <3>2. QED
          BY <1>6, <3>1
  <2>2. QED
        BY <2>1
<1>8. PICK all \in Seq(RuleType) : all = FlattenSeq(rules) /\ Decides(all, rules, n, H)
    BY <1>7, FlattenDecides
<1>9. Throwing(lines, env) <=> \E k \in 1..n : lines[k] # <<>> /\ ~IsRule(lines[k], env)
  <2>1. \A k \in 1..n : rules[k] = RulesOf(lines[k], env)
        BY <1>1, <1>3 DEF RulesOfAll
  <2>2. \A k \in 1..n : lines[k] # <<>> => (rules[k] = <<>> <=> ~IsRule(lines[k], env))
        BY <1>4 DEF LineGives
  <2>3. QED
        BY <1>1, <2>1, <2>2 DEF Throwing
<1>10. CASE \E k \in 1..n : lines[k] # <<>> /\ ~IsRule(lines[k], env)
    BY <1>1, <1>9, <1>10 DEF VerdictOf, ReferenceOf
<1>11. CASE \A k \in 1..n : lines[k] # <<>> => IsRule(lines[k], env)
  <2>1. PICK A : A = Applying(lines, address, env)
        OBVIOUS
  <2>2. VerdictOf(lines, address, env) = IF Allows(all, address, env) THEN "allow" ELSE "deny"
        BY <1>3, <1>8, <1>9, <1>11 DEF VerdictOf
  <2>3. ReferenceOf(lines, address, env) = IF A = {} THEN "allow" ELSE lines[Min(A)][1]
        BY <1>1, <1>11, <2>1 DEF ReferenceOf
  <2>4. \A k \in 1..n : lines[k] # <<>> => LineMeans(rules[k], lines[k], address, env)
        BY <1>4, <1>11 DEF LineGives
  <2>5. ASSUME NEW k \in 1..n PROVE NoHit(rules[k], H) <=> k \notin A
    <3>1. k \in A <=> lines[k] # <<>> /\ Speaks(lines[k], address, env)
          BY <1>1, <2>1 DEF Applying
    <3>2. CASE lines[k] = <<>>
      <4>1. NoHit(rules[k], H)
            BY <1>5, <3>2 DEF NoHit
      <4>2. QED
            BY <3>1, <3>2, <4>1
    <3>3. CASE lines[k] # <<>>
      <4>1. (\E i \in 1..Len(rules[k]) : rules[k][i] \in H) <=> Speaks(lines[k], address, env)
            BY <1>2, <2>4, <3>3 DEF LineMeans
      <4>2. QED
            BY <3>1, <3>3, <4>1 DEF NoHit
    <3>4. QED
          BY <3>2, <3>3
  <2>6. A \subseteq 1..n
        BY <1>1, <2>1 DEF Applying
  <2>7. CASE NoHit(all, H) /\ \A k \in 1..n : NoHit(rules[k], H)
    <3>1. A = {}
          BY <2>5, <2>6, <2>7
    <3>2. Allows(all, address, env)
          BY <1>2, <2>7, AllowsIs
    <3>3. QED
          BY <2>2, <2>3, <3>1, <3>2
  <2>8. ASSUME NEW k \in 1..n, NEW j \in Nat, NEW i \in Nat, Decided(all, H, j, rules, k, i)
        PROVE  VerdictOf(lines, address, env) = ReferenceOf(lines, address, env)
    <3>1. /\ FirstAt(all, H, j) /\ \A l \in 1..(k - 1) : NoHit(rules[l], H)
          /\ i \in 1..Len(rules[k]) /\ rules[k][i] \in H /\ all[j] = rules[k][i]
          BY <2>8 DEF Decided
    <3>2. k \in A
          BY <2>5, <3>1 DEF NoHit
    <3>3. \A l \in A : k <= l
      <4>1. ASSUME NEW l \in A, ~(k <= l) PROVE FALSE
        <5>1. l \in 1..n
              BY <2>6
        <5>2. l \in 1..(k - 1)
              BY <4>1, <5>1
        <5>3. NoHit(rules[l], H)
              BY <3>1, <5>2
        <5>4. QED
              BY <2>5, <5>1, <5>3
      <4>2. QED
            BY <4>1
    <3>4. Min(A) = k
      <4>1. A \in SUBSET Nat /\ A # {}
            BY <2>6, <3>2
      <4>2. Min(A) \in A /\ \A m \in A : Min(A) <= m
            BY <4>1, MinIsLeast
      <4>3. Min(A) <= k /\ k <= Min(A) /\ Min(A) \in Nat
            BY <3>2, <3>3, <4>1, <4>2
      <4>4. QED
            BY <4>3
    <3>5. LineMeans(rules[k], lines[k], address, env)
      <4>1. lines[k] # <<>>
            BY <2>1, <3>2 DEF Applying
      <4>2. QED
            BY <2>4, <4>1
    <3>6. (all[j].allow <=> lines[k][1] = "allow") /\ lines[k][1] \in {"allow", "deny"}
          BY <3>1, <3>5 DEF LineMeans, RuleWords
    <3>7. Allows(all, address, env) <=> all[j].allow
          BY <1>2, <3>1, AllowsIs
    <3>8. ReferenceOf(lines, address, env) = lines[k][1]
          BY <2>3, <3>2, <3>4
    <3>9. QED
          BY <2>2, <3>6, <3>7, <3>8
  <2>9. QED
        BY <1>8, <2>7, <2>8 DEF Decides
<1>12. QED
    BY <1>10, <1>11

\* A text of rules means what it says.
LEMMA VerdictIs ==
  ASSUME NEW S, "NUL" \notin S, NEW text \in Seq(S), LengthsInRange(text), NEW env, IsEnv(env),
         NEW address \in Address
  PROVE  Verdict(text, address, env) = ReferenceVerdict(text, address, env)
<1>1. PICK c : c = "\n"
    OBVIOUS
<1>2. PICK lines : lines = Split(text, <<c>>)
    OBVIOUS
<1>3. lines \in Seq(Seq(S)) /\ \A k \in 1..Len(lines) : LengthsInRange(lines[k])
    BY <1>2, LinesInRange
<1>4. VerdictOf(lines, address, env) = ReferenceOf(lines, address, env)
    BY <1>3, LinesAgree
<1>5. Split(text, <<c>>) = Pieces(text, c)
    BY SplitIsPieces
<1>6. lines = Split(text, <<"\n">>) /\ lines = Pieces(text, "\n")
    BY <1>1, <1>2, <1>5, Zenon
<1>7. Verdict(text, address, env) = VerdictOf(lines, address, env)
    BY <1>6, Zenon DEF Verdict, VerdictOf, ParseRules, RulesOf, RulesOfAll, Throwing
<1>8. ReferenceVerdict(text, address, env) = ReferenceOf(lines, address, env)
    BY <1>6, Zenon DEF ReferenceVerdict, ReferenceOf, Applying, Speaks
<1>9. QED
    BY <1>4, <1>7, <1>8

\* The rules being read have a text.
LEMMA RulesHaveText ==
  ASSUME DenialInv, at = "read rules"
  PROVE  open.version \in DOMAIN scenario.texts
<1>1. PICK f \in States(path) : f.kind = "regular" /\ f.version = open.version
    BY DEF DenialInv, RulesRead
<1>2. f.version \in DOMAIN scenario.texts
    BY <1>1, SeenHasText DEF DenialInv
<1>3. QED
    BY <1>1, <1>2

\* Whatever the rules say at the moment they are read, what becomes of the request is
\* what they mean: the first line that speaks of the client decides, and a line that
\* means nothing throws, for every text without a NUL, address and result of a lookup and any
\* lengths of blocks in range (htaccess.cpp:84-144).
THEOREM VerdictsMeanTheText == Spec => []VerdictsAsWritten
<1>1. DenialInv => VerdictsAsWritten
  <2> SUFFICES ASSUME DenialInv, at = "read rules" PROVE VerdictsAsWritten
      BY DEF VerdictsAsWritten
  <2>1. PICK text : text = scenario.texts[open.version]
        OBVIOUS
  <2>2. text \in Seq(Range(text)) /\ scenario.client \in Address /\ \A env \in scenario.envs : IsEnv(env)
    <3>1. scenario \in Scenarios
          BY DEF DenialInv, Snapshots
    <3>2. text \in Range(scenario.texts)
          BY <2>1, RulesHaveText DEF Range
    <3>3. QED
          BY <3>1, <3>2, RequestHandlingAssumption
  <2>3. ASSUME LengthsInRange(text), "NUL" \notin Range(text), NEW env \in scenario.envs
        PROVE  Verdict(text, scenario.client, env) = ReferenceVerdict(text, scenario.client, env)
    <3>1. PICK S : text \in Seq(S) /\ "NUL" \notin S
          BY <2>2, <2>3
    <3>2. PICK address \in Address : address = scenario.client
          BY <2>2
    <3>3. IsEnv(env)
          BY <2>2
    <3>4. Verdict(text, address, env) = ReferenceVerdict(text, address, env)
          BY <2>3, <3>1, <3>3, VerdictIs
    <3>5. QED
          BY <3>2, <3>4
  <2>4. QED
        BY <2>1, <2>3 DEF VerdictsAsWritten
<1>2. QED
    BY <1>1, DenialStarts, NextKeepsDenial, PTL DEF Spec
=============================================================================
