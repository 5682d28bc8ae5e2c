--------------------------- MODULE RequestTextProofs ---------------------------
(***************************************************************************)
(* How the bytes of a connection become frames, requests and the paths of  *)
(* files, for any scenarios: however recv() cuts the stream, no byte is    *)
(* lost, doubled or moved, a frame is refused exactly if the reference     *)
(* refuses it, and whatever path it holds means what its reference says.   *)
(***************************************************************************)
EXTENDS RequestHandling, StringLemmas

-----------------------------------------------------------------------------
(* The invariant.                                                          *)

Symbol == Range(scenario.sent) \cup Range(CRLFCRLF) \cup {"NUL"}

\* What has been received, and what has become of it.
Stream == Slice(scenario.sent, 0, received)
Account == Whole(frames, CRLFCRLF, buffer)

CutInv ==
  /\ scenario \in Scenarios /\ received \in 0..Len(scenario.sent)
  /\ buffer \in Seq(Symbol) /\ frames \in Seq(Seq(Symbol))
  /\ at = "read" => ~Has(buffer, CRLFCRLF)
  /\ Unaltered => Account = Stream /\ AllCut(frames, CRLFCRLF)

\* What is sent, and the delimiter, consist of symbols.
LEMMA SentTyped ==
  ASSUME scenario \in Scenarios
  PROVE  /\ scenario.sent \in Seq(Symbol) /\ CRLFCRLF \in Seq(Symbol) /\ <<"NUL">> \in Seq(Symbol)
         /\ mode \in {"sync", "async"}
<1>1. scenario.sent \in Seq(Range(scenario.sent)) /\ scenario.mode \in {"sync", "async"}
    BY RequestHandlingAssumption
<1>2. scenario.sent \in Seq(Symbol)
    BY <1>1, SeqMonotonic DEF Symbol
<1>3. CRLFCRLF \in Seq({"\r", "\n"})
    BY DEF CRLFCRLF, CRLF
<1>4. CRLFCRLF \in Seq(Range(CRLFCRLF))
  <2>1. DOMAIN CRLFCRLF = 1..Len(CRLFCRLF) /\ Len(CRLFCRLF) \in Nat
        BY <1>3, LenProperties
  <2>2. CRLFCRLF \in [1..Len(CRLFCRLF) -> Range(CRLFCRLF)]
        BY <1>3, <2>1, LenProperties DEF Range
  <2>3. QED
        BY <2>1, <2>2, SeqDef
<1>5. CRLFCRLF \in Seq(Symbol)
    BY <1>4, SeqMonotonic DEF Symbol
<1>6. <<"NUL">> \in Seq(Symbol)
    BY DEF Symbol
<1>7. QED
    BY <1>1, <1>2, <1>5, <1>6 DEF mode

\* A piece is made of symbols, and is all that was received if nothing is lost.
LEMMA PieceIs ==
  ASSUME scenario \in Scenarios, NEW bytes \in Seq(Symbol)
  PROVE  /\ Piece(bytes) \in Seq(Symbol)
         /\ (mode = "async" \/ \A k \in 1..Len(bytes) : bytes[k] # "NUL") => Piece(bytes) = bytes
<1>1. <<"NUL">> \in Seq(Symbol) /\ mode \in {"sync", "async"}
    BY SentTyped
<1>2. PICK end : end = Find(bytes, <<"NUL">>, 0)
    OBVIOUS
<1>3. end \in Nat /\ end <= Len(bytes)
  <2>1. CASE Occurs(bytes, <<"NUL">>, end)
    <3>1. PICK L \in Nat : L = Len(bytes)
          OBVIOUS
    <3>2. Len(<<"NUL">>) = 1
          OBVIOUS
    <3>3. end \in 0..(L - 1)
          BY <2>1, <3>1, <3>2 DEF Occurs
    <3>4. QED
          BY <3>1, <3>3
  <2>2. CASE end = Len(bytes)
        BY <2>2
  <2>3. QED
        BY <1>1, <1>2, <2>1, <2>2, FindIs
<1>4. Within(bytes, 0, end)
    BY <1>3 DEF Within
<1>5. Slice(bytes, 0, end) \in Seq(Symbol)
    BY <1>4, SliceIs
<1>6. Slice(bytes, 0, end) = SubSeq(bytes, 1, end)
    BY DEF Slice
<1>7. mode = "sync" => Piece(bytes) = Slice(bytes, 0, end)
    BY <1>2, <1>6 DEF Piece
<1>8. mode = "async" => Piece(bytes) = bytes
    BY DEF Piece
<1>9. (\A k \in 1..Len(bytes) : bytes[k] # "NUL") => end = Len(bytes)
    BY <1>1, <1>2, NoNul
<1>10. Slice(bytes, 0, Len(bytes)) = bytes
    BY SliceAll
<1>11. QED
    BY <1>1, <1>5, <1>7, <1>8, <1>9, <1>10

\* A frame is taken out of bytes, which hold one.
LEMMA TakesFrame ==
  ASSUME scenario \in Scenarios, frames \in Seq(Seq(Symbol)), NEW bytes \in Seq(Symbol),
         Has(bytes, CRLFCRLF), TakeFrame(bytes)
  PROVE  /\ buffer' \in Seq(Symbol) /\ frames' \in Seq(Seq(Symbol)) /\ at' # "read"
         /\ AllCut(frames, CRLFCRLF) =>
              /\ AllCut(frames', CRLFCRLF)
              /\ Whole(frames', CRLFCRLF, buffer')
                   = Whole(frames, CRLFCRLF, bytes)
<1>1. PICK sep \in Seq(Symbol) : sep = CRLFCRLF
    BY SentTyped
<1>2. PICK end : end = Find(bytes, sep, 0)
    OBVIOUS
<1>3. PICK frame : frame = Popped(bytes, end)
    OBVIOUS
<1>4. /\ buffer' = Remaining(bytes, end, Len(sep)) /\ frames' = Append(frames, frame)
      /\ at' # "read"
    BY <1>1, <1>2, <1>3 DEF TakeFrame, HandleFrame
<1>5. Occurs(bytes, sep, end)
    BY <1>1, <1>2, CutAtFirst
<1>6. frame \in Seq(Symbol) /\ buffer' \in Seq(Symbol)
    BY <1>3, <1>4, <1>5, CutIs
<1>7. frames' \in Seq(Seq(Symbol))
    BY <1>4, <1>6
<1>8. ASSUME AllCut(frames, sep)
      PROVE  /\ AllCut(frames', sep)
             /\ Whole(frames', sep, buffer') = Whole(frames, sep, bytes)
  <2>1. PICK rest : rest = Remaining(bytes, end, Len(sep))
        OBVIOUS
  <2>2. AllCut(frames, sep) /\ Has(bytes, sep)
        BY <1>1, <1>8
  <2>3. /\ AllCut(Append(frames, frame), sep)
        /\ Whole(Append(frames, frame), sep, rest)
             = Whole(frames, sep, bytes)
    <3>1. PICK cuts \in Seq(Seq(Symbol)) : cuts = frames
          OBVIOUS
    <3>2. PICK more : more = Append(cuts, frame)
          OBVIOUS
    <3>3. AllCut(more, sep) /\ Whole(more, sep, rest) = Whole(cuts, sep, bytes)
      <4>1. PICK S : S = Symbol
            OBVIOUS
      <4>2. /\ cuts \in Seq(Seq(S)) /\ sep \in Seq(S) /\ bytes \in Seq(S)
            /\ AllCut(cuts, sep) /\ CutOff(bytes, sep, cuts, more, rest)
            BY <1>2, <1>3, <2>1, <2>2, <3>1, <3>2, <4>1 DEF CutOff
      <4>3. QED
            BY ONLY <4>2, CutNext
    <3>4. QED
          BY <3>1, <3>2, <3>3
  <2>4. QED
        BY <1>4, <2>1, <2>3
<1>9. QED
    BY <1>1, <1>4, <1>6, <1>7, <1>8

\* read() has returned a piece.
LEMMA ReceiveCuts == CutInv /\ Receive => CutInv'
<1> SUFFICES ASSUME CutInv, Receive PROVE CutInv'
    OBVIOUS
<1>1. PICK sent : sent = scenario.sent
    OBVIOUS
<1>2. sent \in Seq(Symbol) /\ CRLFCRLF \in Seq(Symbol) /\ mode \in {"sync", "async"}
    BY <1>1, SentTyped DEF CutInv
<1>3. PICK L \in Nat : L = Len(sent)
    BY <1>2
<1>4. PICK had \in 0..L : had = received
    BY <1>1, <1>3 DEF CutInv
<1>5. PICK end \in (had + 1)..L :
        received' = end /\ ReadUntil(Piece(SubSeq(sent, had + 1, end)))
    BY <1>1, <1>3, <1>4 DEF Receive
<1>6. scenario' = scenario /\ scenario' \in Scenarios /\ received' \in 0..Len(scenario'.sent)
    BY <1>1, <1>3, <1>4, <1>5 DEF CutInv, Receive
<1>7. PICK arrived : arrived = Slice(sent, had, end)
    OBVIOUS
<1>8. Within(sent, 0, had) /\ Within(sent, had, end) /\ Within(sent, 0, end)
    BY <1>3, <1>4, <1>5 DEF Within
<1>9. arrived \in Seq(Symbol)
    BY <1>2, <1>7, <1>8, SliceIs
<1>10. PICK piece \in Seq(Symbol) : piece = Piece(arrived)
    BY <1>9, PieceIs DEF CutInv
<1>11. ReadUntil(piece)
    BY <1>5, <1>7, <1>10 DEF Slice
<1>12. PICK bytes \in Seq(Symbol) : bytes = buffer \o piece
    BY <1>10, ConcatProperties DEF CutInv
<1>13. Unaltered' => Unaltered /\ piece = arrived
  <2>1. ASSUME mode = "sync", Unaltered' PROVE Unaltered /\ piece = arrived
    <3>1. PICK all : all = SubSeq(sent, 1, end)
          OBVIOUS
    <3>2. all = Slice(sent, 0, end)
          BY <3>1 DEF Slice
    <3>3. all \in Seq(Symbol)
          BY <1>2, <1>8, <3>2, SliceIs
    <3>4. Len(all) = end - 0
          BY <1>2, <1>8, <3>2, SliceIs
    <3>5. "NUL" \notin Range(all)
          BY <1>1, <1>5, <1>6, <2>1, <3>1 DEF Unaltered, mode
    <3>6. \A k \in 1..end : all[k] # "NUL"
          BY <3>3, <3>4, <3>5, LenProperties DEF Range
    <3>7. \A k \in 1..(end - 0) : Slice(sent, 0, end)[k] = sent[0 + k]
          BY <1>2, <1>4, <1>5, <1>8, SliceElement
    <3>8. \A k \in 1..end : sent[k] # "NUL"
          BY <3>2, <3>6, <3>7
    <3>9. \A k \in 1..(end - had) : arrived[k] = sent[had + k]
          BY <1>2, <1>4, <1>5, <1>7, <1>8, SliceElement
    <3>10. Len(arrived) = end - had
          BY <1>2, <1>7, <1>8, SliceIs
    <3>11. \A k \in 1..(end - had) : had + k \in 1..end
          BY <1>4, <1>5
    <3>12. \A k \in 1..Len(arrived) : arrived[k] # "NUL"
          BY <3>8, <3>9, <3>10, <3>11
    <3>13. piece = arrived
          BY <1>9, <1>10, <3>12, PieceIs DEF CutInv
    <3>14. "NUL" \notin Range(SubSeq(sent, 1, had))
      <4>1. PICK first : first = Slice(sent, 0, had)
            OBVIOUS
      <4>2. first \in Seq(Symbol)
            BY <1>2, <1>8, <4>1, SliceIs
      <4>3. Len(first) = had - 0
            BY <1>2, <1>8, <4>1, SliceIs
      <4>n. PICK to \in Nat : to = had
            BY <1>3, <1>4
      <4>w. Within(sent, 0, to) /\ 0 \in Nat
            BY <1>8, <4>n
      <4>4. \A k \in 1..(to - 0) : Slice(sent, 0, to)[k] = sent[0 + k]
            BY <1>2, <4>w, SliceElement
      <4>5. \A k \in 1..had : first[k] # "NUL"
            BY <1>4, <1>5, <3>8, <4>n, <4>1, <4>4
      <4>6. "NUL" \notin Range(first)
            BY <1>4, <4>2, <4>3, <4>5, LenProperties DEF Range
      <4>7. QED
            BY <4>1, <4>6 DEF Slice
    <3>15. QED
          BY <1>1, <1>4, <3>13, <3>14 DEF Unaltered
  <2>2. ASSUME mode = "async" PROVE Unaltered /\ piece = arrived
        BY <1>9, <1>10, <2>2, PieceIs DEF Unaltered, CutInv
  <2>3. QED
        BY <1>2, <2>1, <2>2
<1>14. Unaltered' =>
         /\ AllCut(frames, CRLFCRLF)
         /\ Whole(frames, CRLFCRLF, bytes) = Slice(sent, 0, end)
  <2> SUFFICES ASSUME Unaltered'
               PROVE  /\ AllCut(frames, CRLFCRLF)
                      /\ Whole(frames, CRLFCRLF, bytes) = Slice(sent, 0, end)
      OBVIOUS
  <2>1. Account = Slice(sent, 0, had) /\ AllCut(frames, CRLFCRLF)
        BY <1>1, <1>4, <1>13 DEF CutInv, Stream
  <2>2. PICK done \in Seq(Symbol) : done = FlattenSeq(Delimited(frames, CRLFCRLF))
        BY <1>2, DelimitedType DEF CutInv
  <2>3. (done \o buffer) \o piece = done \o (buffer \o piece)
        BY <1>10, <2>2, ConcatAssociative, SMTT(60) DEF CutInv
  <2>4. Slice(sent, 0, had) \o Slice(sent, had, end) = Slice(sent, 0, end)
        BY <1>2, <1>8, SlicesJoin
  <2>5. done \o buffer = Slice(sent, 0, had) /\ piece = Slice(sent, had, end)
        BY <1>7, <1>13, <2>1, <2>2 DEF Account, Whole
  <2>6. QED
        BY <1>12, <2>1, <2>2, <2>3, <2>4, <2>5 DEF Whole
<1>15. /\ buffer' \in Seq(Symbol) /\ frames' \in Seq(Seq(Symbol))
       /\ at' = "read" => ~Has(buffer', CRLFCRLF)
       /\ Unaltered' => Account' = Slice(sent, 0, end) /\ AllCut(frames', CRLFCRLF)
  <2>1. CASE Has(bytes, CRLFCRLF)
    <3>1. TakeFrame(bytes)
          BY <1>11, <1>12, <2>1 DEF ReadUntil
    <3>2. QED
          BY <1>14, <2>1, <3>1, TakesFrame DEF CutInv, Account
  <2>2. CASE ~Has(bytes, CRLFCRLF) /\ ~(mode = "sync" /\ piece = <<>>)
    <3>1. GoOnReading(bytes)
          BY <1>11, <1>12, <2>2 DEF ReadUntil
    <3>2. buffer' = bytes /\ frames' = frames
          BY <3>1 DEF GoOnReading
    <3>3. QED
          BY <1>12, <1>14, <2>2, <3>2 DEF CutInv, Account
  <2>3. CASE ~Has(bytes, CRLFCRLF) /\ mode = "sync" /\ piece = <<>>
    <3>1. buffer' = <<>> /\ HandleFrame(bytes)
          BY <1>11, <1>12, <2>3 DEF ReadUntil
    <3>2. frames' = Append(frames, bytes) /\ at' # "read"
          BY <3>1 DEF HandleFrame
    <3>3. Len(arrived) = end - had /\ end - had > 0
      <4>1. Len(arrived) = end - had
            BY <1>2, <1>7, <1>8, SliceIs
      <4>2. QED
            BY <1>4, <1>5, <4>1
    <3>4. ~Unaltered'
      <4>1. Len(piece) = 0
            BY <2>3
      <4>2. QED
            BY <1>13, <3>3, <4>1
    <3>5. QED
          BY <3>1, <3>2, <3>4 DEF CutInv
  <2>4. QED
        BY <2>1, <2>2, <2>3
<1>16. Symbol' = Symbol /\ Stream' = Slice(sent, 0, end)
    BY <1>1, <1>5, <1>6 DEF Symbol, Stream
<1>17. QED
    BY <1>6, <1>15, <1>16 DEF CutInv

\* A response has been written.
LEMMA WriteCuts == CutInv /\ WriteResponse => CutInv'
<1> SUFFICES ASSUME CutInv, WriteResponse PROVE CutInv'
    OBVIOUS
<1>1. scenario' = scenario /\ received' = received
    BY DEF WriteResponse, connVars
<1>2. /\ Symbol' = Symbol /\ Stream' = Stream /\ Unaltered' = Unaltered
    BY <1>1 DEF Symbol, Stream, Unaltered, mode
<1>3. /\ buffer' \in Seq(Symbol) /\ frames' \in Seq(Seq(Symbol))
      /\ at' = "read" => ~Has(buffer', CRLFCRLF)
      /\ Unaltered => Account' = Stream /\ AllCut(frames', CRLFCRLF)
  <2>1. CASE LastResponse
        BY <2>1 DEF WriteResponse, connVars, CutInv, Account
  <2>2. CASE ~LastResponse /\ Has(buffer, CRLFCRLF)
    <3>1. TakeFrame(buffer)
          BY <2>2 DEF WriteResponse
    <3>2. QED
          BY <2>2, <3>1, TakesFrame DEF CutInv, Account
  <2>3. CASE ~LastResponse /\ ~Has(buffer, CRLFCRLF)
        BY <2>3 DEF WriteResponse, GoOnReading, CutInv, Account
  <2>4. QED
        BY <2>1, <2>2, <2>3
<1>4. QED
    BY <1>1, <1>2, <1>3 DEF CutInv

\* Every step keeps the account of the bytes.
LEMMA NextCuts == CutInv /\ [Next]_vars => CutInv'
<1> SUFFICES ASSUME CutInv, [Next]_vars PROVE CutInv'
    OBVIOUS
<1>1. CASE Receive
    BY <1>1, ReceiveCuts
<1>2. CASE WriteResponse
    BY <1>2, WriteCuts
<1>3. ASSUME UNCHANGED <<scenario, received, buffer, frames>>, at' = "read" => at = "read"
      PROVE  CutInv'
    BY <1>3 DEF CutInv, Symbol, Stream, Account, Unaltered, mode
<1>4. CASE ReceiveNothing \/ ReceiveFails \/ Others \/ Stay \/ UNCHANGED vars
    BY <1>3, <1>4 DEF ReceiveNothing, ReceiveFails, Throw, Respond, Others, Replace, Rewrite, Unlink, Chmod,
       Change, Stay, vars, connVars
<1>5. CASE Handle
  <2>1. UNCHANGED <<scenario, received, buffer, frames>>
        BY <1>5 DEF Handle, FilterAccess, OpenRules, ReadRules, ServeAccess, Stat, OpenContents,
           ReadContents, LastModified, connVars
  <2>2. at' # "read"
        BY <1>5 DEF Handle, FilterAccess, OpenRules, ReadRules, ServeAccess, Stat, OpenContents,
           ReadContents, LastModified, Go, Respond, Throw, ReadUnreadable, OpenFile, Fetched
  <2>3. QED
        BY <1>3, <2>1, <2>2
<1>6. QED
    BY <1>1, <1>2, <1>4, <1>5 DEF Next

\* Nothing has been received at first.
LEMMA CutStarts == Init => CutInv
<1> SUFFICES ASSUME Init PROVE CutInv
    OBVIOUS
<1>1. scenario \in Scenarios /\ received = 0 /\ buffer = <<>> /\ frames = <<>>
    BY DEF Init
<1>2. PICK sent \in Seq(Symbol) : sent = scenario.sent
    BY <1>1, SentTyped
<1>3. PICK sep \in Seq(Symbol) : sep = CRLFCRLF
    BY <1>1, SentTyped
<1>4. ~Has(buffer, sep)
  <2>1. sep # <<>>
        BY <1>3 DEF CRLFCRLF, CRLF
  <2>2. PICK n \in Nat : n = Len(sep) /\ n # 0
        BY <2>1, EmptySeq
  <2>3. Len(buffer) = 0
        BY <1>1
  <2>4. 0..(0 - n) = {}
        BY <2>2
  <2>5. QED
        BY <2>2, <2>3, <2>4 DEF Has
<1>5. Within(sent, 0, 0)
    BY DEF Within
<1>6. Stream = <<>>
  <2>1. Slice(sent, 0, 0) \in Seq(Symbol) /\ Len(Slice(sent, 0, 0)) = 0 - 0
        BY <1>5, SliceIs
  <2>2. Slice(sent, 0, 0) = <<>>
        BY <2>1, EmptySeq
  <2>3. QED
        BY <1>1, <1>2, <2>2 DEF Stream
<1>7. Account = <<>>
  <2>f. PICK cuts \in Seq(Seq(Symbol)) : cuts = frames /\ cuts = <<>> /\ Len(cuts) = 0
    <3>1. <<>> \in Seq(Seq(Symbol))
          BY EmptySeq
    <3>2. QED
          BY <1>1, <3>1
  <2>d. PICK d \in Seq(Seq(Symbol)) : d = Delimited(cuts, sep)
        BY DelimitedType
  <2>l. Len(d) = Len(cuts)
        BY <2>d, DelimitedType
  <2>1. d = Delimited(frames, CRLFCRLF) /\ Len(d) = 0
        BY <1>3, <2>f, <2>d, <2>l
  <2>2. d = <<>>
        BY <2>1, EmptySeq
  <2>3. FlattenSeq(d) = d
        BY <2>1 DEF FlattenSeq
  <2>4. QED
        BY <1>1, <2>1, <2>2, <2>3 DEF Account, Whole
<1>8. AllCut(frames, CRLFCRLF)
    BY <1>1 DEF AllCut
<1>9. QED
    BY <1>1, <1>2, <1>3, <1>4, <1>6, <1>7, <1>8 DEF CutInv

\* However recv() cuts what the client sends, the frames with their delimiters and
\* the buffer are what has been received, a frame ends at the first delimiter, and
\* the server waits for more only while the buffer holds none, in both servers and
\* for any bytes (connection.h:66-71, async_connection.h:43-58).
THEOREM FramesAreCut == Spec => []FramesCut
<1>1. CutInv => FramesCut
  <2> SUFFICES ASSUME CutInv PROVE FramesCut
      OBVIOUS
  <2>1. Delimited(frames, CRLFCRLF) = [k \in DOMAIN frames |-> frames[k] \o CRLFCRLF]
        BY DEF Delimited
  <2>2. Stream = SubSeq(scenario.sent, 1, received)
        BY DEF Stream, Slice
  <2>3. QED
        BY <2>1, <2>2 DEF CutInv, FramesCut, Account, Whole, AllCut
<1>2. QED
    BY <1>1, CutStarts, NextCuts, PTL DEF Spec

-----------------------------------------------------------------------------
(* The path of a request, and the files that are looked at.                *)

\* The path comes from the stream; the file is the one it names, or the rules
\* beside that, which is the one that is read.
PathInv ==
  /\ request.uri \in Seq(Symbol)
  /\ path \in {<<>>, RulesPath, ServedPath}
  /\ at \in {"open rules", "read rules"} => path = RulesPath

\* Another request, or none, is at a place where no file has been looked at.
LEMMA FrameNamesPath ==
  ASSUME NEW frame, HandleFrame(frame), frames \in Seq(Seq(Symbol)), frames' \in Seq(Seq(Symbol))
  PROVE  /\ request'.uri \in Seq(Symbol)
         /\ path' = <<>> /\ at' \in {"filter", "respond"}
<1>1. /\ frames' = Append(frames, frame) /\ path' = <<>>
      /\ \/ request' = ParseRequest(frame)[1] /\ ParseRequest(frame) # <<>> /\ at' = "filter"
         \/ request' = NoRequest /\ at' = "respond"
    BY DEF HandleFrame, StartFresh
<1>2. frame \in Seq(Symbol)
  <2>1. PICK cuts \in Seq(Seq(Symbol)) : cuts = frames'
        OBVIOUS
  <2>2. PICK n \in Nat : n = Len(frames)
        OBVIOUS
  <2>3. Len(cuts) = n + 1 /\ cuts[n + 1] = frame
        BY <1>1, <2>1, <2>2
  <2>4. n + 1 \in 1..Len(cuts)
        BY <2>3
  <2>5. cuts[n + 1] \in Seq(Symbol)
        BY <2>4
  <2>6. QED
        BY <2>3, <2>5
<1>3. CASE request' = ParseRequest(frame)[1] /\ ParseRequest(frame) # <<>>
    BY <1>1, <1>2, <1>3, ParsedTyped
<1>4. CASE request' = NoRequest
  <2>1. NoRequest.uri = <<>>
        BY DEF NoRequest, HttpRequest
  <2>2. QED
        BY <1>1, <1>4, <2>1
<1>5. QED
    BY <1>1, <1>3, <1>4

\* Reading on is at a place without a file too.
LEMMA ReadingNamesNone ==
  ASSUME NEW bytes, GoOnReading(bytes)
  PROVE  request'.uri \in Seq(Symbol) /\ path' = <<>> /\ at' = "read"
<1>1. NoRequest.uri = <<>>
    BY DEF NoRequest, HttpRequest
<1>2. QED
    BY <1>1 DEF GoOnReading, StartFresh

\* Every step keeps the invariant.
LEMMA NextKeepsPath == CutInv /\ CutInv' /\ PathInv /\ [Next]_vars => PathInv'
<1> SUFFICES ASSUME CutInv, CutInv', PathInv, [Next]_vars PROVE PathInv'
    OBVIOUS
<1>1. Symbol' = Symbol /\ frames \in Seq(Seq(Symbol)) /\ frames' \in Seq(Seq(Symbol))
  <2>1. scenario' = scenario
        BY DEF Next, Receive, ReceiveNothing, ReceiveFails, Handle, WriteResponse, Others, Replace, Rewrite,
           Unlink, Chmod, Change, Stay, FilterAccess, OpenRules, ReadRules, ServeAccess, Stat, OpenContents, ReadContents,
           LastModified, vars
  <2>2. Symbol' = Symbol
        BY <2>1 DEF Symbol
  <2>3. QED
        BY <2>2 DEF CutInv
<1>2. ASSUME request'.uri \in Seq(Symbol), path' = <<>>, at' \in {"filter", "respond", "read"}
      PROVE  PathInv'
    BY <1>1, <1>2 DEF PathInv
<1>3. ASSUME request' = request, path' = path, at' \in {"open rules", "read rules"} => path = RulesPath
      PROVE  PathInv'
    BY <1>1, <1>3 DEF PathInv, RulesPath, ServedPath
<1>4. CASE Receive
  <2>1. PICK bytes : HandleFrame(bytes) \/ GoOnReading(bytes)
        BY <1>4 DEF Receive, ReadUntil, TakeFrame
  <2>2. QED
        BY <1>1, <1>2, <2>1, FrameNamesPath, ReadingNamesNone
<1>5. CASE WriteResponse
  <2>1. CASE LastResponse
        BY <1>3, <1>5, <2>1 DEF WriteResponse
  <2>2. CASE ~LastResponse
    <3>1. PICK bytes : HandleFrame(bytes) \/ GoOnReading(bytes)
          BY <1>5, <2>2 DEF WriteResponse, TakeFrame
    <3>2. QED
          BY <1>1, <1>2, <3>1, FrameNamesPath, ReadingNamesNone
  <2>3. QED
        BY <2>1, <2>2
<1>6. CASE ReceiveNothing \/ ReceiveFails \/ Others \/ Stay \/ UNCHANGED vars
  <2>1. request' = request /\ path' = path /\ at' \in {at, "closed", "respond"}
        BY <1>6 DEF ReceiveNothing, ReceiveFails, Throw, Respond, Others, Replace, Rewrite, Unlink, Chmod,
           Change, Stay, vars
  <2>2. QED
        BY <1>3, <2>1 DEF PathInv
<1>7. CASE Handle
  <2>1. CASE FilterAccess
    <3>1. /\ request' = request
          /\ \/ path' = <<>> /\ at' = "serve"
             \/ path' = RulesPath /\ at' = "open rules"
          BY <2>1 DEF FilterAccess, Go
    <3>2. RulesPath' = RulesPath /\ ServedPath' = ServedPath
          BY <3>1 DEF RulesPath, ServedPath
    <3>3. QED
          BY <1>1, <3>1, <3>2 DEF PathInv
  <2>2. CASE ServeAccess
    <3>1. /\ request' = request
          /\ \/ path' = path /\ at' = "respond"
             \/ path' = ServedPath /\ at' = "stat"
          BY <2>2 DEF ServeAccess, Go, Respond
    <3>2. RulesPath' = RulesPath /\ ServedPath' = ServedPath
          BY <3>1 DEF RulesPath, ServedPath
    <3>3. QED
          BY <1>1, <3>1, <3>2 DEF PathInv
  <2>3. CASE OpenRules
    <3>1. at = "open rules" /\ path = RulesPath
          BY <2>3 DEF OpenRules, PathInv
    <3>2. CASE Readable(File(path))
      <4>1. OpenFile("read rules")
            BY <2>3, <3>2 DEF OpenRules, ReadsEmpty
      <4>2. request' = request /\ path' = path
            BY <4>1 DEF OpenFile
      <4>3. QED
            BY <1>3, <3>1, <4>2
    <3>3. CASE ~Readable(File(path)) /\ ReadsEmpty(File(path))
      <4>1. request' = request /\ path' = <<>> /\ at' = "serve"
            BY <2>3, <3>3 DEF OpenRules, Go
      <4>2. QED
            BY <1>1, <4>1 DEF PathInv
    <3>4. CASE ~Readable(File(path)) /\ ~ReadsEmpty(File(path))
      <4>1. request' = request /\ path' = path /\ at' \in {"respond", "stuck", "closed"}
            BY <2>3, <3>4 DEF OpenRules, ReadUnreadable, Throw, Respond
      <4>2. QED
            BY <1>3, <4>1
    <3>5. QED
          BY <3>2, <3>3, <3>4
  <2>4. CASE ReadRules
    <3>1. /\ request' = request
          /\ \/ path' = path /\ at' \in {"respond", "closed"}
             \/ path' = <<>> /\ at' = "serve"
          BY <2>4 DEF ReadRules, Throw, Respond, Go
    <3>2. QED
          BY <1>1, <1>3, <3>1 DEF PathInv
  <2>5. CASE Stat \/ OpenContents \/ ReadContents \/ LastModified
    <3>1. /\ request' = request /\ path' = path
          /\ at' \in {"fetch", "respond", "read contents", "closed", "stuck"}
          BY <2>5 DEF Stat, OpenContents, ReadContents, LastModified, Go, Respond, OpenFile, Fetched,
             ReadUnreadable, Throw
    <3>2. QED
          BY <1>3, <3>1
  <2>6. QED
        BY <1>7, <2>1, <2>2, <2>3, <2>4, <2>5 DEF Handle
<1>8. QED
    BY <1>4, <1>5, <1>6, <1>7 DEF Next

\* It holds when the connection starts.
LEMMA PathStarts == Init => PathInv
<1>1. NoRequest.uri = <<>>
    BY DEF NoRequest, HttpRequest
<1>2. <<>> \in Seq(Symbol)
    OBVIOUS
<1>3. QED
    BY <1>1, <1>2 DEF Init, PathInv

\* So it always holds.
LEMMA PathInvariance == Spec => []PathInv
BY CutStarts, NextCuts, PathStarts, NextKeepsPath, PTL DEF Spec

\* A path means what its reference says, for every path a stream can hold: ".." takes
\* back the nearest name before it, and a path that leaves the document root anywhere
\* on its way is refused (util.cpp:88-114).
THEOREM PathsAreResolved == Spec => []PathsResolved
<1>1. PathInv => PathsResolved
  <2>1. PathInv => Refers(request.uri)
        BY PathRefers DEF PathInv
  <2>2. QED
        BY <2>1 DEF Refers, PathsResolved
<1>2. QED
    BY <1>1, PathInvariance, PTL

-----------------------------------------------------------------------------
(* The files that are looked at.                                           *)

\* What holds of a path that is looked at, by the way it was made.
Touches(s, p, rules) ==
  LET touched == Components(p) IN
    /\ ~LeavesRoot(s) /\ Down(touched)
    /\ rules => touched = RulesBeside(Resolved(s))

\* A path that is looked at is made of the names that the request's path resolves to.
LEMMA LookedAtTouches ==
  ASSUME NEW S, {"/", ".htaccess", "index", ".html"} \subseteq S, NEW s \in Seq(S)
  PROVE  LET canonical == CanonicalizePath(s)
             rules == HtaccessPath(canonical)
             served == IF canonical = Slash THEN IndexPath ELSE canonical
         IN /\ rules \in Seq(S) /\ (rules # <<>> => Touches(s, rules, TRUE))
            /\ served \in Seq(S) /\ (served # <<>> => Touches(s, served, FALSE))
<1>1. Refers(s)
    BY PathRefers
<1>2. CASE LeavesRoot(s)
  <2>1. CanonicalizePath(s) = <<>>
        BY <1>1, <1>2 DEF Refers
  <2>2. HtaccessPath(<<>>) = <<>>
    <3>1. PICK none \in Seq(S) : none = <<>>
          BY EmptySeq
    <3>2. NoSlash(none)
          BY <3>1 DEF NoSlash
    <3>3. Split(none, Slash) = <<none>>
          BY <3>2, SplitIsComponents, ComponentsOfPart
    <3>4. Len(<<none>>) < 2
          OBVIOUS
    <3>5. QED
          BY <3>1, <3>3, <3>4 DEF HtaccessPath
  <2>3. <<>> # Slash
        BY DEF Slash
  <2>4. QED
        BY <2>1, <2>2, <2>3, EmptySeq
<1>3. CASE ~LeavesRoot(s)
  <2>1. PICK names \in Seq(Seq(S)) : names = Resolved(s)
        BY <1>3, PathRefers
  <2>2. CanonicalizePath(s) = Rooted(names)
        BY <1>1, <1>3, <2>1 DEF Refers, Rooted
  <2>3. ASSUME NEW j \in 1..Len(names) PROVE IsName(names[j]) /\ NoSlash(names[j])
    <3>1. /\ IsName(Resolved(s)[j])
          /\ \E k \in 1..Len(Components(s)) : Resolved(s)[j] = Components(s)[k]
          BY <1>3, <2>1, PathRefers
    <3>2. \A k \in 1..Len(Components(s)) : NoSlash(Components(s)[k])
          BY ComponentsTyped
    <3>3. QED
          BY <2>1, <3>1, <3>2
  <2>4. Plain(names)
        BY <2>3 DEF Plain
  <2>5. PICK V : V = Seq(S)
        OBVIOUS
  <2>6. <<>> \in V /\ <<".htaccess">> \in V /\ names \in Seq(V)
    <3>1. <<".htaccess">> \in Seq(S)
          OBVIOUS
    <3>2. QED
          BY <2>5, <3>1, EmptySeq
  <2>7. Touches(s, HtaccessPath(Rooted(names)), TRUE)
    <3>1. Components(HtaccessPath(Rooted(names))) = RulesBeside(names)
          BY <2>4, RulesComponents
    <3>2. Down(RulesBeside(names))
          BY <2>3, <2>6, RulesLeadDown
    <3>3. QED
          BY <1>3, <2>1, <3>1, <3>2 DEF Touches
  <2>11. HtaccessPath(Rooted(names)) \in Seq(S) /\ Rooted(names) \in Seq(S)
        BY <2>4, RulesComponents, CanonicalComponents
  <2>8. CASE Rooted(names) = Slash
    <3>1. PICK index \in Seq(S) : index = <<"index", ".html">>
      <4>1. <<"index", ".html">> \in Seq(S)
            OBVIOUS
      <4>2. QED
            BY <4>1
    <3>2. NoSlash(index)
      <4>1. Len(index) = 2 /\ index[1] = "index" /\ index[2] = ".html"
            BY <3>1
      <4>2. \A i \in 1..2 : i = 1 \/ i = 2
            OBVIOUS
      <4>3. QED
            BY <4>1, <4>2 DEF NoSlash
    <3>3. Components(Slash \o index) = <<<<>>>> \o Components(index)
          BY RootedComponents
    <3>4. Components(index) = <<index>>
          BY <3>2, ComponentsOfPart
    <3>11. IndexPath \in Seq(S)
          BY DEF IndexPath
    <3>5. IndexPath = Slash \o index
      <4>1. PICK slash \in Seq(S) : slash = <<"/">>
        <5>1. <<"/">> \in Seq(S)
              OBVIOUS
        <5>2. QED
              BY <5>1
      <4>2. PICK all \in Seq(S) : all = slash \o index
            BY ConcatProperties
      <4>3. /\ Len(all) = Len(slash) + Len(index)
            /\ \A i \in 1..Len(slash) : all[i] = slash[i]
            /\ \A i \in 1..Len(index) : all[Len(slash) + i] = index[i]
            BY <4>2, ConcatElements
      <4>4. /\ Len(slash) = 1 /\ slash[1] = "/"
            /\ Len(index) = 2 /\ index[1] = "index" /\ index[2] = ".html"
            BY <3>1, <4>1
      <4>5. Len(all) = 3 /\ all[1] = "/" /\ all[2] = "index" /\ all[3] = ".html"
        <5>1. all[1 + 1] = index[1] /\ all[1 + 2] = index[2] /\ all[1] = slash[1]
              BY <4>3, <4>4
        <5>2. QED
              BY <4>3, <4>4, <5>1
      <4>6. all = <<"/", "index", ".html">>
            BY <4>5
      <4>7. QED
            BY <4>1, <4>2, <4>6 DEF IndexPath, Slash
    <3>6. PICK only \in Seq(V) : only = <<index>>
      <4>1. <<index>> \in Seq(Seq(S))
            OBVIOUS
      <4>2. QED
            BY <2>5, <4>1
    <3>7. \A j \in 1..Len(only) : IsName(only[j])
      <4>1. Len(only) = 1 /\ only[1] = index
            BY <3>6
      <4>2. IsName(index)
            BY <3>1 DEF IsName, Here, Up
      <4>3. QED
            BY <4>1, <4>2
    <3>8. Down(<<<<>>>> \o only)
          BY <2>6, <3>7, NamesLeadDown
    <3>9. Touches(s, IndexPath, FALSE)
          BY <1>3, <3>3, <3>4, <3>5, <3>6, <3>8 DEF Touches
    <3>10. QED
          BY <2>2, <2>7, <2>8, <2>11, <3>9, <3>11
  <2>9. CASE Rooted(names) # Slash
    <3>1. names # <<>>
      <4>1. SUFFICES ASSUME names = <<>> PROVE FALSE
            OBVIOUS
      <4>2. PICK slash \in Seq(S) : slash = Slash
        <5>1. Slash \in Seq(S)
              BY DEF Slash
        <5>2. QED
              BY <5>1
      <4>3. slash \o <<>> = slash
            BY ConcatEmptySeq
      <4>4. Join(Slash, names) = <<>>
            BY <4>1 DEF Join
      <4>5. QED
            BY <2>9, <4>2, <4>3, <4>4 DEF Rooted
    <3>2. Components(Rooted(names)) = <<<<>>>> \o names
          BY <2>4, <3>1, CanonicalComponents
    <3>3. Down(<<<<>>>> \o names)
          BY <2>3, <2>6, NamesLeadDown
    <3>4. Touches(s, Rooted(names), FALSE)
          BY <1>3, <3>2, <3>3 DEF Touches
    <3>5. QED
          BY <2>2, <2>7, <2>9, <2>11, <3>4
  <2>10. QED
        BY <2>8, <2>9
<1>4. QED
    BY <1>2, <1>3

-----------------------------------------------------------------------------
(* NULs.  The synchronous read() ends a piece at the first one, so that no frame    *)
(* holds one and no path of a file is cut by c_str().                               *)

KeptSymbol == IF mode = "sync" THEN Symbol \ {"NUL"} ELSE Symbol

KeptInv ==
  /\ scenario \in Scenarios
  /\ buffer \in Seq(KeptSymbol) /\ request.uri \in Seq(KeptSymbol)

\* A piece is made of what is kept.
LEMMA PieceKept ==
  ASSUME scenario \in Scenarios, NEW bytes \in Seq(Symbol)
  PROVE  Piece(bytes) \in Seq(KeptSymbol)
<1>1. mode \in {"sync", "async"}
    BY SentTyped
<1>2. CASE mode = "async"
    BY <1>2 DEF Piece, KeptSymbol
<1>3. CASE mode = "sync"
  <2>1. PICK end : end = Find(bytes, <<"NUL">>, 0)
        OBVIOUS
  <2>2. PICK L \in Nat : L = Len(bytes)
        OBVIOUS
  <2>3. end \in 0..L /\ \A k \in 1..end : bytes[k] # "NUL"
    <3>1. PICK c : c = "NUL"
          OBVIOUS
    <3>2. PICK zero \in 0..L : zero = 0
          BY <2>2
    <3>3. NextSymbol(bytes, c, zero, Find(bytes, <<c>>, zero))
          BY <2>2, FindSymbol
    <3>4. QED
          BY <2>1, <2>2, <3>1, <3>2, <3>3 DEF NextSymbol
  <2>4. PICK piece \in Seq(Symbol) : Taken(piece, bytes, 0, end)
    <3>1. Within(bytes, 0, end) /\ end \in Nat
          BY <2>2, <2>3 DEF Within
    <3>2. PICK zero \in Nat : zero = 0
          OBVIOUS
    <3>3. \E t \in Seq(Symbol) : Taken(t, bytes, zero, end)
          BY <3>1, <3>2, TakenIs
    <3>4. QED
          BY <3>2, <3>3
  <2>5. piece = SubSeq(bytes, 1, end) /\ Len(piece) = end /\ \A i \in 1..end : piece[i] = bytes[i]
    <3>1. \A i \in 1..end : 0 + i = i
          OBVIOUS
    <3>2. 0 + 1 = 1 /\ end - 0 = end
          BY <2>3
    <3>3. QED
          BY <2>4, <3>1, <3>2 DEF Taken
  <2>6. \A i \in 1..end : piece[i] \in Symbol \ {"NUL"}
    <3>1. \A i \in 1..Len(piece) : piece[i] \in Symbol
          BY ElementOfSeq
    <3>2. QED
          BY <2>3, <2>5, <3>1
  <2>7. piece \in Seq(Symbol \ {"NUL"})
    <3>1. piece \in [1..end -> Symbol \ {"NUL"}]
      <4>1. piece \in [1..Len(piece) -> Symbol]
            BY LenProperties
      <4>2. QED
            BY <2>5, <2>6, <4>1
    <3>2. end \in Nat
          BY <2>3
    <3>3. QED
          BY <3>1, <3>2, SeqDef
  <2>8. QED
        BY <1>3, <2>1, <2>5, <2>7 DEF Piece, KeptSymbol
<1>4. QED
    BY <1>1, <1>2, <1>3

\* A frame of what is kept names a path of it.
LEMMA FrameKeeps ==
  ASSUME NEW frame \in Seq(KeptSymbol), HandleFrame(frame)
  PROVE  request'.uri \in Seq(KeptSymbol)
<1>1. \/ request' = ParseRequest(frame)[1] /\ ParseRequest(frame) # <<>>
      \/ request' = NoRequest
    BY DEF HandleFrame
<1>2. NoRequest.uri = <<>>
    BY DEF NoRequest, HttpRequest
<1>3. QED
    BY <1>1, <1>2, ParsedTyped, EmptySeq

\* So does one that is taken out of bytes of it, and so is the rest.
LEMMA TakesKept ==
  ASSUME scenario \in Scenarios, NEW bytes \in Seq(KeptSymbol), Has(bytes, CRLFCRLF), TakeFrame(bytes)
  PROVE  buffer' \in Seq(KeptSymbol) /\ request'.uri \in Seq(KeptSymbol)
<1>1. PICK sep \in Seq(KeptSymbol) : sep = CRLFCRLF
  <2>1. CRLFCRLF \in Seq(Symbol) /\ CRLFCRLF \in Seq({"\r", "\n"})
        BY SentTyped DEF CRLFCRLF, CRLF
  <2>2. CRLFCRLF \in Seq(KeptSymbol)
        BY <2>1 DEF KeptSymbol
  <2>3. QED
        BY <2>2
<1>2. PICK end : end = Find(bytes, sep, 0)
    OBVIOUS
<1>3. Occurs(bytes, sep, end)
    BY <1>1, <1>2, CutAtFirst
<1>4. PICK frame \in Seq(KeptSymbol) : frame = Popped(bytes, end)
    BY <1>3, CutIs
<1>5. buffer' = Remaining(bytes, end, Len(sep)) /\ HandleFrame(frame)
    BY <1>1, <1>2, <1>4 DEF TakeFrame
<1>6. QED
    BY <1>3, <1>5, CutIs, FrameKeeps

\* Reading on keeps the bytes.
LEMMA ReadingKeeps ==
  ASSUME NEW bytes \in Seq(KeptSymbol), GoOnReading(bytes)
  PROVE  buffer' \in Seq(KeptSymbol) /\ request'.uri \in Seq(KeptSymbol)
<1>1. NoRequest.uri = <<>>
    BY DEF NoRequest, HttpRequest
<1>2. QED
    BY <1>1, EmptySeq DEF GoOnReading

\* Every step keeps the invariant.
LEMMA NextKeepsKept == CutInv /\ KeptInv /\ [Next]_vars => KeptInv'
<1> SUFFICES ASSUME CutInv, KeptInv, [Next]_vars PROVE KeptInv'
    OBVIOUS
<1>1. scenario' = scenario
    BY DEF Next, Receive, ReceiveNothing, ReceiveFails, Handle, WriteResponse, Others, Replace, Rewrite, Unlink,
       Chmod, Change, Stay, FilterAccess, OpenRules, ReadRules, ServeAccess, Stat, OpenContents, ReadContents,
       LastModified, vars
<1>2. KeptSymbol' = KeptSymbol /\ scenario' \in Scenarios
    BY <1>1 DEF KeptSymbol, Symbol, mode, KeptInv
<1>3. ASSUME buffer' \in Seq(KeptSymbol), request'.uri \in Seq(KeptSymbol) PROVE KeptInv'
    BY <1>2, <1>3 DEF KeptInv
<1>4. CASE Receive
  <2>1. PICK end \in (received + 1)..Len(scenario.sent) :
          ReadUntil(Piece(SubSeq(scenario.sent, received + 1, end)))
        BY <1>4 DEF Receive
  <2>2. PICK arrived : arrived = Slice(scenario.sent, received, end)
        OBVIOUS
  <2>3. arrived \in Seq(Symbol)
    <3>1. PICK sent \in Seq(Symbol) : sent = scenario.sent
          BY SentTyped DEF KeptInv
    <3>2. PICK L \in Nat : L = Len(sent)
          OBVIOUS
    <3>3. PICK had \in 0..L : had = received
          BY <3>1, <3>2 DEF CutInv
    <3>4. Within(sent, had, end)
          BY <2>1, <3>1, <3>2, <3>3 DEF Within
    <3>5. QED
          BY <2>2, <3>1, <3>3, <3>4, SliceIs
  <2>4. PICK piece \in Seq(KeptSymbol) : piece = Piece(arrived)
        BY <2>3, PieceKept DEF KeptInv
  <2>5. ReadUntil(piece)
        BY <2>1, <2>2, <2>4 DEF Slice
  <2>6. PICK bytes \in Seq(KeptSymbol) : bytes = buffer \o piece
        BY ConcatProperties DEF KeptInv
  <2>7. CASE Has(bytes, CRLFCRLF)
        BY <1>3, <2>5, <2>6, <2>7, TakesKept DEF ReadUntil, KeptInv
  <2>8. CASE ~Has(bytes, CRLFCRLF) /\ mode = "sync" /\ piece = <<>>
    <3>1. buffer' = <<>> /\ HandleFrame(bytes)
          BY <2>5, <2>6, <2>8 DEF ReadUntil
    <3>2. QED
          BY <1>3, <3>1, FrameKeeps, EmptySeq
  <2>9. CASE ~Has(bytes, CRLFCRLF) /\ ~(mode = "sync" /\ piece = <<>>)
    <3>1. GoOnReading(bytes)
          BY <2>5, <2>6, <2>9 DEF ReadUntil
    <3>2. QED
          BY <1>3, <3>1, ReadingKeeps
  <2>10. QED
        BY <2>7, <2>8, <2>9
<1>5. CASE WriteResponse
  <2>1. CASE LastResponse
        BY <1>3, <1>5, <2>1 DEF WriteResponse, connVars, KeptInv
  <2>2. CASE ~LastResponse /\ Has(buffer, CRLFCRLF)
        BY <1>3, <1>5, <2>2, TakesKept DEF WriteResponse, KeptInv
  <2>3. CASE ~LastResponse /\ ~Has(buffer, CRLFCRLF)
    <3>1. GoOnReading(buffer)
          BY <1>5, <2>3 DEF WriteResponse
    <3>2. QED
          BY <1>3, <3>1, ReadingKeeps DEF KeptInv
  <2>4. QED
        BY <2>1, <2>2, <2>3
<1>6. CASE ReceiveNothing \/ ReceiveFails \/ Others \/ Stay \/ UNCHANGED vars
  <2>1. buffer' = buffer /\ request' = request
        BY <1>6 DEF ReceiveNothing, ReceiveFails, Throw, Respond, Others, Replace, Rewrite, Unlink, Chmod,
           Change, Stay, vars, connVars
  <2>2. QED
        BY <1>3, <2>1 DEF KeptInv
<1>7. CASE Handle
  <2>1. buffer' = buffer /\ request' = request
        BY <1>7 DEF Handle, FilterAccess, OpenRules, ReadRules, ServeAccess, Stat, OpenContents, ReadContents,
           LastModified, Go, Respond, Throw, ReadUnreadable, OpenFile, connVars
  <2>2. QED
        BY <1>3, <2>1 DEF KeptInv
<1>8. QED
    BY <1>4, <1>5, <1>6, <1>7 DEF Next

\* It holds when the connection starts.
LEMMA KeptStarts == Init => KeptInv
<1>1. NoRequest.uri = <<>> /\ <<>> \in Seq(KeptSymbol)
    BY EmptySeq DEF NoRequest, HttpRequest
<1>2. QED
    BY <1>1 DEF Init, KeptInv

\* The rules asked about a request are those in the directory of what its path
\* resolves to, and no file outside the document root is touched: in the synchronous
\* server for every stream, in the asynchronous one for every path without a NUL.  Of
\* paths with a NUL, which c_str() cuts, nothing is claimed (request_filters.cpp:11-21,
\* request_handlers.cpp:9-21, connection.cpp:60).
THEOREM RulesAreTheDirectorys == Spec => []RulesOfTheDirectory
<1>1. PathInv /\ KeptInv => RulesOfTheDirectory
  <2> SUFFICES ASSUME PathInv, KeptInv, path # <<>>, ~NulInPath
               PROVE  /\ ~LeavesRoot(request.uri) /\ Down(Components(path))
                      /\ at \in {"open rules", "read rules"} =>
                           Components(path) = RulesBeside(Resolved(request.uri))
      BY DEF RulesOfTheDirectory, Down, RulesBeside, Above
  <2>1. PICK s \in Seq(Symbol) : s = request.uri
        BY DEF PathInv
  <2>2. "NUL" \notin Range(s)
    <3>1. CASE mode = "async"
          BY <2>1, <3>1 DEF NulInPath
    <3>2. CASE mode = "sync"
      <4>1. s \in Seq(Symbol \ {"NUL"})
            BY <2>1, <3>2 DEF KeptInv, KeptSymbol
      <4>2. \A k \in 1..Len(s) : s[k] \in Symbol \ {"NUL"}
            BY <4>1, ElementOfSeq
      <4>3. DOMAIN s = 1..Len(s)
            BY LenProperties
      <4>4. QED
            BY <4>2, <4>3 DEF Range
    <3>3. QED
          BY <3>1, <3>2, SentTyped DEF KeptInv
  <2>3. PICK S : S = Range(s) \cup {"/", ".htaccess", "index", ".html"}
        OBVIOUS
  <2>4. "NUL" \notin S /\ {"/", ".htaccess", "index", ".html"} \subseteq S
        BY <2>2, <2>3
  <2>5. s \in Seq(S)
    <3>1. s \in [1..Len(s) -> S] /\ Len(s) \in Nat
      <4>1. s \in [1..Len(s) -> Symbol] /\ Len(s) \in Nat /\ DOMAIN s = 1..Len(s)
            BY LenProperties
      <4>2. \A k \in 1..Len(s) : s[k] \in S
            BY <2>3, <4>1 DEF Range
      <4>3. QED
            BY <4>1, <4>2
    <3>2. QED
          BY <3>1, SeqDef
  <2>6. PICK canonical : canonical = CanonicalizePath(s)
        OBVIOUS
  <2>7. PICK rules : rules = HtaccessPath(canonical)
        OBVIOUS
  <2>8. PICK served : served = IF canonical = Slash THEN IndexPath ELSE canonical
        OBVIOUS
  <2>9. /\ rules \in Seq(S) /\ (rules # <<>> => Touches(s, rules, TRUE))
        /\ served \in Seq(S) /\ (served # <<>> => Touches(s, served, FALSE))
        BY <2>4, <2>5, <2>6, <2>7, <2>8, LookedAtTouches
  <2>10. CString(rules) = rules /\ CString(served) = served
        BY <2>4, <2>9, CStringIs
  <2>11. RulesPath = rules /\ ServedPath = served
        BY <2>1, <2>6, <2>7, <2>8, <2>10 DEF RulesPath, ServedPath
  <2>12. CASE path = RulesPath
        BY <2>1, <2>9, <2>11, <2>12 DEF Touches
  <2>13. CASE path # RulesPath
    <3>1. path = ServedPath /\ at \notin {"open rules", "read rules"}
          BY <2>13 DEF PathInv
    <3>2. QED
          BY <2>1, <2>9, <2>11, <3>1 DEF Touches
  <2>14. QED
        BY <2>12, <2>13
<1>2. QED
    BY <1>1, CutStarts, NextCuts, KeptStarts, NextKeepsKept, PathInvariance, PTL DEF Spec

-----------------------------------------------------------------------------
(* The headers.                                                            *)

Low(x) == IF x \in DOMAIN Lowercase THEN Lowercase[x] ELSE x

\* What tolower makes of a text of one symbol.
LEMMA LowercaseIs ==
  ASSUME NEW S, NEW key \in Seq(S), NEW x
  PROVE  ToLowercase(key) = ToLowercase(<<x>>) <=> Len(key) = 1 /\ Low(key[1]) = Low(x)
<1>1. PICK n \in Nat : n = Len(key)
    OBVIOUS
<1>2. PICK a : a = ToLowercase(key)
    OBVIOUS
<1>3. a = [k \in 1..n |-> Low(key[k])]
    BY <1>1, <1>2 DEF ToLowercase, Low
<1>4. PICK b : b = ToLowercase(<<x>>)
    OBVIOUS
<1>5. PICK one : one = <<x>>
    OBVIOUS
<1>6. DOMAIN one = 1..1 /\ one[1] = x
    BY <1>5
<1>7. b = [k \in 1..1 |-> Low(one[k])]
    BY <1>4, <1>5, <1>6 DEF ToLowercase, Low
<1>8. ASSUME a = b PROVE n = 1 /\ Low(key[1]) = Low(x)
  <2>1. 1..n = 1..1
        BY <1>3, <1>7, <1>8
  <2>2. n = 1
    <3>1. 1 \in 1..n /\ (n >= 1 => n \in 1..1)
          BY <2>1
    <3>2. QED
          BY <3>1
  <2>3. a[1] = Low(key[1])
        BY <1>3, <2>2
  <2>4. b[1] = Low(x)
        BY <1>6, <1>7
  <2>5. QED
        BY <1>8, <2>2, <2>3, <2>4
<1>9. ASSUME n = 1, Low(key[1]) = Low(x) PROVE a = b
  <2>1. \A k \in 1..1 : k = 1
        OBVIOUS
  <2>2. \A k \in 1..1 : Low(key[k]) = Low(one[k])
        BY <1>6, <1>9, <2>1
  <2>3. QED
        BY <1>3, <1>7, <1>9, <2>2
<1>10. QED
    BY <1>1, <1>2, <1>4, <1>8, <1>9

\* A header as it is read, for any symbol instead of the colon.
ParseBy(line, c) ==
  LET parts == SplitN(line, <<c>>, 1)
  IN IF Len(parts) # 2 THEN <<>> ELSE <<HttpHeader(parts[1], parts[2])>>

\* A line with a c, and one that begins with the name x and a c.
Colon(line, c) == \E i \in 1..Len(line) : line[i] = c
Named(line, c, x) ==
  Len(line) >= 2 /\ line[2] = c /\ line[1] # c /\ Low(line[1]) = Low(x)

\* What is made of a line, and of its name.
IsNamed(header, x) == ToLowercase(header.key) = ToLowercase(<<x>>)
Reads(parsed, line, c, x) ==
  /\ parsed = <<>> <=> ~Colon(line, c)
  /\ parsed # <<>> => \E h : parsed = <<h>> /\ (IsNamed(h, x) <=> Named(line, c, x))

\* A line is read as a header if it has a c, and named by what is before the first.
LEMMA HeaderReads ==
  ASSUME NEW S, NEW line \in Seq(S), NEW c, NEW x
  PROVE  Reads(ParseBy(line, c), line, c, x)
<1>1. PICK L \in Nat : L = Len(line)
    OBVIOUS
<1>2. PICK e : e = Find(line, <<c>>, 0)
    OBVIOUS
<1>3. e \in 0..L /\ (e < L => line[e + 1] = c) /\ \A k \in 1..e : line[k] # c
  <2>1. PICK zero \in 0..Len(line) : zero = 0
        OBVIOUS
  <2>2. NextSymbol(line, c, zero, Find(line, <<c>>, zero))
        BY FindSymbol
  <2>3. QED
        BY <1>1, <1>2, <2>1, <2>2 DEF NextSymbol
<1>4. SplitN(line, <<c>>, 1) =
        IF e < Len(line) THEN <<SubSeq(line, 1, e), SubSeq(line, e + 2, Len(line))>>
        ELSE <<SubSeq(line, 1, Len(line))>>
  <2>1. LET end == Find(line, <<c>>, 0) IN
          SplitN(line, <<c>>, 1) =
            IF end < Len(line) THEN <<SubSeq(line, 1, end), SubSeq(line, end + 2, Len(line))>>
            ELSE <<SubSeq(line, 1, Len(line))>>
        BY SplitOnce
  <2>2. QED
        BY ONLY <1>2, <2>1
<1>5. CASE ~(e < L)
  <2>1. ParseBy(line, c) = <<>>
    <3>1. PICK whole : whole = SubSeq(line, 1, Len(line))
          OBVIOUS
    <3>2. SplitN(line, <<c>>, 1) = <<whole>>
          BY <1>1, <1>4, <1>5, <3>1
    <3>3. Len(<<whole>>) # 2
          OBVIOUS
    <3>4. QED
          BY <3>2, <3>3 DEF ParseBy
  <2>2. ~Colon(line, c)
        BY <1>1, <1>3, <1>5 DEF Colon
  <2>3. QED
        BY <2>1, <2>2 DEF Reads
<1>6. CASE e < L
  <2>1. PICK key \in Seq(S) : Taken(key, line, 0, e)
    <3>1. Within(line, 0, e) /\ e \in Nat
          BY <1>1, <1>3 DEF Within
    <3>2. PICK zero \in Nat : zero = 0
          OBVIOUS
    <3>3. \E t \in Seq(S) : Taken(t, line, zero, e)
          BY <3>1, <3>2, TakenIs
    <3>4. QED
          BY <3>2, <3>3
  <2>2. key = SubSeq(line, 1, e) /\ Len(key) = e /\ \A i \in 1..e : key[i] = line[i]
    <3>1. \A i \in 1..e : 0 + i = i
          OBVIOUS
    <3>2. 0 + 1 = 1 /\ e - 0 = e
          BY <1>3
    <3>3. QED
          BY <2>1, <3>1, <3>2 DEF Taken
  <2>3. PICK value : value = SubSeq(line, e + 2, Len(line))
        OBVIOUS
  <2>4. PICK h : h = HttpHeader(key, value)
        OBVIOUS
  <2>5. ParseBy(line, c) = <<h>>
    <3>1. PICK parts : parts = <<key, value>>
          OBVIOUS
    <3>2. Len(parts) = 2 /\ parts[1] = key /\ parts[2] = value
          BY <3>1
    <3>3. SplitN(line, <<c>>, 1) = parts
          BY <1>1, <1>4, <1>6, <2>2, <2>3, <3>1
    <3>4. QED
          BY <2>4, <3>2, <3>3 DEF ParseBy
  <2>6. Colon(line, c)
    <3>1. e + 1 \in 1..L
          BY <1>3, <1>6
    <3>2. QED
          BY <1>1, <1>3, <1>6, <3>1 DEF Colon
  <2>7. IsNamed(h, x) <=> Len(key) = 1 /\ Low(key[1]) = Low(x)
    <3>1. h.key = key
          BY <2>4 DEF HttpHeader
    <3>2. QED
          BY <3>1, LowercaseIs DEF IsNamed
  <2>8. e = 1 <=> L >= 2 /\ line[2] = c /\ line[1] # c
    <3>1. CASE e = 0
      <4>1. line[1] = c
            BY <1>3, <1>6, <3>1
      <4>2. QED
            BY <3>1, <4>1
    <3>2. CASE e = 1
      <4>1. line[1 + 1] = c /\ line[1] # c /\ L >= 2
            BY <1>3, <1>6, <3>2
      <4>2. QED
            BY <3>2, <4>1
    <3>3. CASE e > 1
      <4>1. 2 \in 1..e
            BY <1>3, <3>3
      <4>2. QED
            BY <1>3, <3>3, <4>1
    <3>4. QED
          BY <1>3, <3>1, <3>2, <3>3
  <2>9. IsNamed(h, x) <=> Named(line, c, x)
    <3>1. e = 1 => key[1] = line[1]
          BY <2>2
    <3>2. QED
          BY <1>1, <2>2, <2>7, <2>8, <3>1 DEF Named
  <2>10. <<h>> # <<>>
        OBVIOUS
  <2>11. QED
        BY <2>5, <2>6, <2>9, <2>10 DEF Reads
<1>7. QED
    BY <1>5, <1>6

\* Sequences of one element each make the sequence of these elements.
LEMMA FlattenOnes ==
  ASSUME NEW W, NEW n \in Nat, NEW g \in [1..n -> W]
  PROVE  FlattenSeq([k \in 1..n |-> <<g[k]>>]) = g
<1>1. PICK seqs \in Seq(Seq(W)) : seqs = [k \in 1..n |-> <<g[k]>>]
  <2>1. \A k \in 1..n : <<g[k]>> \in Seq(W)
        OBVIOUS
  <2>2. [k \in 1..n |-> <<g[k]>>] \in Seq(Seq(W))
        BY <2>1
  <2>3. QED
        BY <2>2
<1>2. Len(seqs) = n /\ \A k \in 1..n : seqs[k] = <<g[k]>>
    BY <1>1
<1>3. g \in Seq(W) /\ Len(g) = n
    OBVIOUS
<1>4. CASE n = 0
  <2>1. FlattenSeq(seqs) = seqs /\ seqs = <<>> /\ g = <<>>
        BY <1>2, <1>3, <1>4, EmptySeq DEF FlattenSeq
  <2>2. QED
        BY <1>1, <2>1
<1>5. CASE n # 0
  <2>1. PICK f : f = Flattened(seqs, n)
        OBVIOUS
  <2>2. \A i \in 1..n : f[i] = IF i = 1 THEN seqs[i] ELSE f[i - 1] \o seqs[i]
        BY <2>1, FlattenExists, FlattenElement
  <2> DEFINE T == {m \in Nat : m # 0 /\ m <= n => /\ f[m] \in Seq(W) /\ Len(f[m]) = m
                                                  /\ \A i \in 1..m : f[m][i] = g[i]}
  <2>3. 0 \in T
        OBVIOUS
  <2>4. ASSUME NEW m \in Nat, m \in T PROVE m + 1 \in T
    <3> SUFFICES ASSUME m + 1 <= n
                 PROVE  /\ f[m + 1] \in Seq(W) /\ Len(f[m + 1]) = m + 1
                        /\ \A i \in 1..(m + 1) : f[m + 1][i] = g[i]
        OBVIOUS
    <3>1. PICK k \in 1..n : k = m + 1
          OBVIOUS
    <3>2. PICK one \in Seq(W) : one = seqs[k]
          BY <1>2, ElementOfSeq
    <3>3. Len(one) = 1 /\ one[1] = g[k]
      <4>1. one = <<g[k]>>
            BY <1>2, <3>2
      <4>2. QED
            BY <4>1
    <3>4. CASE m = 0
      <4>1. k = 1 /\ f[k] = one
            BY <2>2, <3>1, <3>2, <3>4
      <4>2. \A i \in 1..k : i = 1
            BY <4>1
      <4>3. QED
            BY <3>1, <3>3, <4>1, <4>2
    <3>5. CASE m # 0
      <4>1. PICK before \in Seq(W) : before = f[m] /\ Len(before) = m
                                     /\ \A i \in 1..m : before[i] = g[i]
            BY <2>4, <3>5
      <4>2. f[k] = before \o one
        <5>1. f[k] = IF k = 1 THEN seqs[k] ELSE f[k - 1] \o seqs[k]
              BY <2>2
        <5>2. k # 1 /\ k - 1 = m
              BY <3>1, <3>5
        <5>3. QED
              BY <3>2, <4>1, <5>1, <5>2
      <4>3. PICK all : all = before \o one
            OBVIOUS
      <4>4. /\ all \in Seq(W) /\ Len(all) = Len(before) + Len(one)
            /\ \A i \in 1..Len(before) : all[i] = before[i]
            /\ \A i \in 1..Len(one) : all[Len(before) + i] = one[i]
            BY <4>3, ConcatElements
      <4>5. Len(all) = m + 1 /\ all[m + 1] = one[1]
            BY <3>3, <4>1, <4>4
      <4>6. ASSUME NEW i \in 1..(m + 1) PROVE all[i] = g[i]
        <5>1. CASE i \in 1..m
              BY <4>1, <4>4, <5>1
        <5>2. CASE i = m + 1
              BY <3>1, <3>3, <4>5, <5>2
        <5>3. QED
              BY <5>1, <5>2
      <4>7. QED
            BY <3>1, <4>2, <4>3, <4>4, <4>5, <4>6
    <3>6. QED
          BY <3>4, <3>5
  <2>5. n \in T
    <3> HIDE DEF T
    <3>1. QED
          BY <2>3, <2>4, NatSetInduction
  <2>6. f[n] \in Seq(W) /\ Len(f[n]) = n /\ \A i \in 1..n : f[n][i] = g[i]
        BY <1>5, <2>5
  <2>7. f[n] = g
        BY <1>3, <2>6, SeqEqual
  <2>8. FlattenSeq(seqs) = f[n]
        BY <1>2, <1>5, <2>1, FlattenSeqIs
  <2>9. QED
        BY <1>1, <2>7, <2>8
<1>6. QED
    BY <1>4, <1>5

\* A header is there if one of them has its name.
LEMMA HasHeaderIs ==
  ASSUME NEW W, NEW headers \in Seq(W), NEW x
  PROVE  HasHeader(headers, <<x>>) <=> \E k \in 1..Len(headers) : IsNamed(headers[k], x)
<1>1. PICK n \in Nat : n = Len(headers)
    OBVIOUS
<1>2. PICK I \in SUBSET (1..n) : I = {k \in 1..n : IsNamed(headers[k], x)}
    OBVIOUS
<1>3. HeaderAt(headers, <<x>>) = IF I # {} THEN Min(I) ELSE 0
    BY <1>1, <1>2 DEF HeaderAt, SelectInSeq, IsNamed
<1>4. PICK end : end = HeaderAt(headers, <<x>>)
    OBVIOUS
<1>5. \/ end = 0 /\ I = {}
      \/ end \in I /\ end \in 1..n /\ \A i \in 1..(end - 1) : i \notin I
    BY <1>3, <1>4, FirstIndex
<1>6. end # 0 <=> I # {}
  <2>1. ASSUME end \in 1..n PROVE end # 0
        BY <2>1
  <2>2. QED
        BY <1>5, <2>1, Zenon
<1>7. QED
    BY <1>1, <1>2, <1>4, <1>6 DEF HasHeader

-----------------------------------------------------------------------------
(* Frames.                                                                 *)

\* The line of s from b on has a c; it begins with the name x and a c.
ColonAt(s, b, c) == \E k \in (b + 1)..EndOf(s, b) : s[k] = c
NamedAt(s, b, c, x) == b + 2 <= Len(s) /\ s[b + 2] = c /\ Low(s[b + 1]) = Low(x)

\* c is neither part of a line's end nor of the name x.
Apart(c, x) == c # "\r" /\ c # "\n" /\ Low(c) # Low(x)

\* The line that begins at b is a text with these symbols.
LEMMA LineReads ==
  ASSUME NEW S, NEW s \in Seq(S), NEW b \in 0..Len(s), NEW c, NEW x, Apart(c, x)
  PROVE  \E line \in Seq(S) : /\ line = SubSeq(s, b + 1, EndOf(s, b))
                              /\ Colon(line, c) <=> ColonAt(s, b, c)
                              /\ Named(line, c, x) <=> NamedAt(s, b, c, x)
<1>1. PICK L \in Nat : L = Len(s)
    OBVIOUS
<1>2. PICK end : end = EndOf(s, b)
    OBVIOUS
<1>3. end \in b..L /\ (end # L => Occurs(s, CRLF, end))
    BY <1>1, <1>2, EndOfLine
<1>4. end # L => s[end + 1] = "\r" /\ s[end + 2] = "\n"
    BY <1>3, OccursCRLF
<1>5. PICK line \in Seq(S) : Taken(line, s, b, end)
  <2>1. b \in Nat /\ end \in Nat /\ Within(s, b, end)
        BY <1>1, <1>3 DEF Within
  <2>2. QED
        BY <2>1, TakenIs
<1>6. PICK m \in Nat : m = end - b /\ m = Len(line) /\ \A i \in 1..m : line[i] = s[b + i]
  <2>1. end - b \in Nat
        BY <1>1, <1>3
  <2>2. Len(line) = end - b /\ \A i \in 1..(end - b) : line[i] = s[b + i]
        BY <1>5 DEF Taken
  <2>3. QED
        BY <2>1, <2>2
<1>7. line = SubSeq(s, b + 1, EndOf(s, b))
    BY <1>2, <1>5 DEF Taken
<1>8. Colon(line, c) <=> ColonAt(s, b, c)
  <2>1. ASSUME NEW i \in 1..m, line[i] = c PROVE \E k \in (b + 1)..end : s[k] = c
    <3>1. b + i \in (b + 1)..end /\ s[b + i] = c
          BY <1>1, <1>3, <1>6, <2>1
    <3>2. QED
          BY <3>1
  <2>2. ASSUME NEW k \in (b + 1)..end, s[k] = c PROVE \E i \in 1..m : line[i] = c
    <3>1. PICK i \in 1..m : b + i = k
      <4>1. k - b \in 1..m /\ b + (k - b) = k
            BY <1>1, <1>3, <1>6
      <4>2. QED
            BY <4>1
    <3>2. line[i] = c
          BY <1>6, <2>2, <3>1
    <3>3. QED
          BY <3>2
  <2>3. QED
        BY <1>2, <1>6, <2>1, <2>2 DEF Colon, ColonAt
<1>9. ASSUME Named(line, c, x) PROVE NamedAt(s, b, c, x)
  <2>1. m >= 2 /\ line[2] = c /\ Low(line[1]) = Low(x)
        BY <1>6, <1>9 DEF Named
  <2>2. 1 \in 1..m /\ 2 \in 1..m
        BY <2>1
  <2>3. line[1] = s[b + 1] /\ line[2] = s[b + 2]
        BY <1>6, <2>2
  <2>4. b + 2 <= L
        BY <1>1, <1>3, <1>6, <2>1
  <2>5. QED
        BY <1>1, <2>1, <2>3, <2>4 DEF NamedAt
<1>10. ASSUME NamedAt(s, b, c, x) PROVE Named(line, c, x)
  <2>1. b + 2 <= L /\ s[b + 2] = c /\ Low(s[b + 1]) = Low(x)
        BY <1>1, <1>10 DEF NamedAt
  <2>2. c # "\r" /\ c # "\n" /\ Low(c) # Low(x)
        BY DEF Apart
  <2>3. end # b
    <3>1. end = b => end # L
          BY <1>1, <2>1
    <3>2. end = b => s[end + 2] = c
          BY <2>1
    <3>3. QED
          BY <1>4, <2>2, <3>1, <3>2, Zenon
  <2>4. end # b + 1
    <3>1. end = b + 1 => end # L /\ end + 1 = b + 2
          BY <1>1, <2>1
    <3>2. end = b + 1 => s[end + 1] = c
          BY <2>1, <3>1
    <3>3. QED
          BY <1>4, <2>2, <3>1, <3>2, Zenon
  <2>5. m >= 2 /\ 1 \in 1..m /\ 2 \in 1..m
        BY <1>1, <1>3, <1>6, <2>3, <2>4
  <2>6. line[1] = s[b + 1] /\ line[2] = s[b + 2]
        BY <1>6, <2>5
  <2>7. line[1] # c
        BY <2>1, <2>2, <2>6, Zenon
  <2>8. QED
        BY <1>6, <2>1, <2>5, <2>6, <2>7 DEF Named
<1>11. QED
    BY <1>7, <1>8, <1>9, <1>10

\* Lines are texts, and there is one.
LEMMA LinesTyped ==
  ASSUME NEW S, NEW s \in Seq(S)
  PROVE  /\ Split(s, CRLF) \in Seq(Seq(S)) /\ Len(Split(s, CRLF)) \in Nat \ {0}
         /\ \A j \in 1..Len(Split(s, CRLF)) : Split(s, CRLF)[j] \in Seq(S)
<1>1. PICK V : CRLF \in Seq(V)
  <2>1. CRLF \in Seq({"\r", "\n"})
        BY DEF CRLF
  <2>2. QED
        BY <2>1
<1>2. PICK sep \in Seq(V) : sep = CRLF
    BY <1>1
<1>3. PICK L \in Nat : L = Len(s)
    OBVIOUS
<1>4. SplitN(s, sep, L) \in Seq(Seq(S)) /\ Len(SplitN(s, sep, L)) # 0
    BY SplitNTyped
<1>5. PICK lines \in Seq(Seq(S)) : lines = Split(s, CRLF) /\ Len(lines) # 0
    BY <1>2, <1>3, <1>4 DEF Split
<1>6. Len(lines) \in Nat \ {0} /\ \A j \in 1..Len(lines) : lines[j] \in Seq(S)
    BY <1>5, ElementOfSeq
<1>7. QED
    BY <1>5, <1>6

\* What all the header lines are read as.
HeadersOf(lines, c) == [k \in 1..(Len(lines) - 1) |-> ParseBy(lines[k + 1], c)]
AllColons(s, c) == \A b \in LineBegins(s) \ {0} : ColonAt(s, b, c)
SomeNamed(s, c, x) == \E b \in LineBegins(s) \ {0} : NamedAt(s, b, c, x)

\* All header lines are read exactly if each has a c, and one is named x as they say.
LEMMA HeadersAre ==
  ASSUME NEW S, NEW s \in Seq(S), NEW c, NEW x, Apart(c, x),
         NEW headers, headers = HeadersOf(Split(s, CRLF), c)
  PROVE  /\ <<>> \notin Range(headers) <=> AllColons(s, c)
         /\ <<>> \notin Range(headers) =>
              (HasHeader(FlattenSeq(headers), <<x>>) <=> SomeNamed(s, c, x))
<1>1. PICK lines : lines = Split(s, CRLF)
    OBVIOUS
<1>2. PICK f : LinesAt(s, f, lines)
    BY <1>1, SplitLines
<1>3. PICK m \in Nat : Len(lines) = m + 1
  <2>1. Len(lines) \in Nat \ {0}
        BY <1>1, LinesTyped
  <2>2. Len(lines) \in Nat /\ Len(lines) - 1 \in Nat /\ Len(lines) = (Len(lines) - 1) + 1
        BY <2>1
  <2>3. QED
        BY <2>2
<1>4. headers = [k \in 1..m |-> ParseBy(lines[k + 1], c)]
    BY <1>1, <1>3 DEF HeadersOf
<1>5. ASSUME NEW k \in 1..m
      PROVE  /\ f[k + 1] \in LineBegins(s) \ {0}
             /\ headers[k] = <<>> <=> ~ColonAt(s, f[k + 1], c)
             /\ headers[k] # <<>> => \E h : /\ headers[k] = <<h>>
                                            /\ IsNamed(h, x) <=> NamedAt(s, f[k + 1], c, x)
  <2>1. PICK j \in 1..Len(lines) : j = k + 1 /\ j \in 2..Len(lines)
        BY <1>3
  <2>2. PICK b \in 0..Len(s) : b = f[j] /\ lines[j] = SubSeq(s, b + 1, EndOf(s, b))
        BY <1>2 DEF LinesAt
  <2>3. b \in LineBegins(s) \ {0}
        BY <1>2, <2>1, <2>2 DEF LinesAt
  <2>4. PICK line \in Seq(S) : /\ line = SubSeq(s, b + 1, EndOf(s, b))
                               /\ Colon(line, c) <=> ColonAt(s, b, c)
                               /\ Named(line, c, x) <=> NamedAt(s, b, c, x)
        BY LineReads
  <2>5. headers[k] = ParseBy(line, c)
        BY <1>4, <2>1, <2>2, <2>4
  <2>6. Reads(ParseBy(line, c), line, c, x)
        BY HeaderReads
  <2>7. QED
        BY <2>1, <2>2, <2>3, <2>4, <2>5, <2>6 DEF Reads
<1>6. ASSUME NEW b \in LineBegins(s) \ {0} PROVE \E k \in 1..m : b = f[k + 1]
  <2>1. PICK j \in 2..Len(lines) : b = f[j]
        BY <1>2 DEF LinesAt
  <2>2. j - 1 \in 1..m /\ (j - 1) + 1 = j
        BY <1>3
  <2>3. QED
        BY <2>1, <2>2
<1>7. <<>> \notin Range(headers) <=> \A k \in 1..m : headers[k] # <<>>
  <2>1. Range(headers) = {headers[k] : k \in 1..m}
        BY <1>4 DEF Range
  <2>2. QED
        BY <2>1
<1>8. <<>> \notin Range(headers) <=> AllColons(s, c)
  <2>1. (\A k \in 1..m : headers[k] # <<>>) <=> \A k \in 1..m : ColonAt(s, f[k + 1], c)
        BY <1>5
  <2>2. (\A k \in 1..m : ColonAt(s, f[k + 1], c)) <=> \A b \in LineBegins(s) \ {0} : ColonAt(s, b, c)
    <3>1. \A k \in 1..m : f[k + 1] \in LineBegins(s) \ {0}
          BY <1>5
    <3>2. QED
          BY <1>6, <3>1
  <2>3. QED
        BY <1>7, <2>1, <2>2 DEF AllColons
<1>9. ASSUME <<>> \notin Range(headers)
      PROVE  HasHeader(FlattenSeq(headers), <<x>>) <=> SomeNamed(s, c, x)
  <2>1. \A k \in 1..m : headers[k] # <<>>
        BY <1>7, <1>9
  <2> DEFINE Good(k, h) == headers[k] = <<h>> /\ (IsNamed(h, x) <=> NamedAt(s, f[k + 1], c, x))
  <2>2. \A k \in 1..m : \E h : Good(k, h)
        BY <1>5, <2>1
  <2>3. PICK g : g = [k \in 1..m |-> CHOOSE h : Good(k, h)]
        OBVIOUS
  <2>4. \A k \in 1..m : headers[k] = <<g[k]>> /\ (IsNamed(g[k], x) <=> NamedAt(s, f[k + 1], c, x))
    <3>1. ASSUME NEW k \in 1..m PROVE Good(k, g[k])
      <4>1. \E h : Good(k, h)
            BY <2>2
      <4> HIDE DEF Good
      <4>2. g[k] = CHOOSE h : Good(k, h)
            BY <2>3
      <4>3. Good(k, CHOOSE h : Good(k, h))
            BY <4>1, Zenon
      <4>4. QED
            BY <4>2, <4>3
    <3>2. QED
          BY <3>1
  <2>5. PICK W : \A k \in 1..m : g[k] \in W
    <3>1. \A k \in 1..m : g[k] \in {g[i] : i \in 1..m}
          OBVIOUS
    <3>2. QED
          BY <3>1
  <2>6. PICK t \in [1..m -> W] : t = g
        BY <2>3, <2>5
  <2>7. headers = [k \in 1..m |-> <<t[k]>>]
        BY <1>4, <2>4, <2>6
  <2>8. FlattenSeq(headers) = t
    <3>1. FlattenSeq([k \in 1..m |-> <<t[k]>>]) = t
          BY FlattenOnes
    <3>2. QED
          BY <2>7, <3>1
  <2>9. t \in Seq(W) /\ Len(t) = m
        OBVIOUS
  <2>10. HasHeader(t, <<x>>) <=> \E k \in 1..m : IsNamed(t[k], x)
        BY <2>9, HasHeaderIs
  <2>11. (\E k \in 1..m : NamedAt(s, f[k + 1], c, x)) <=> SomeNamed(s, c, x)
    <3>1. \A k \in 1..m : f[k + 1] \in LineBegins(s) \ {0}
          BY <1>5
    <3>2. QED
          BY <1>6, <3>1 DEF SomeNamed
  <2>12. QED
        BY <2>4, <2>6, <2>8, <2>10, <2>11
<1>10. QED
    BY <1>8, <1>9

\* A frame is read as a request that names the host exactly if the reference says so.
Accepted(parsed) == parsed # <<>> /\ HasHeader(parsed[1].headers, <<"Host">>)

\* So the request line and the headers together make the reference.
LEMMA FrameIs ==
  ASSUME NEW S, NEW s \in Seq(S)
  PROVE  Accepted(ParseRequest(s)) <=> WellFormed(s) /\ Mentions(s, "Host")
<1>1. PICK c : c = ":"
    OBVIOUS
<1>2. PICK x : x = "Host"
    OBVIOUS
<1>3. Apart(c, x)
  <2>1. c # "\r" /\ c # "\n" /\ c # x
        BY <1>1, <1>2, Zenon
  <2>2. c \notin DOMAIN Lowercase /\ c \notin Range(Lowercase)
    <3>1. ":" \in Punctuation
          BY Zenon DEF Punctuation
    <3>2. QED
          BY <1>1, <3>1, StringsAssumption, Zenon
  <2>3. Low(c) = c
        BY <2>2 DEF Low
  <2>4. Low(x) # c
        BY <2>1, <2>2 DEF Low, Range
  <2>5. QED
        BY <2>1, <2>3, <2>4 DEF Apart
<1>4. PICK lines : lines = Split(s, CRLF)
    OBVIOUS
<1>5. PICK headers : headers = HeadersOf(lines, c)
    OBVIOUS
<1>6. PICK parts : parts = SplitN(lines[1], <<" ">>, 2)
    OBVIOUS
<1>7. ParseRequest(s) =
        IF Accepts(parts) /\ <<>> \notin Range(headers)
        THEN <<HttpRequest(parts[1], parts[2], parts[3], FlattenSeq(headers))>> ELSE <<>>
  <2>1. headers = [k \in 1..(Len(lines) - 1) |-> ParseHeader(lines[k + 1])]
    <3>1. \A line : ParseHeader(line) = ParseBy(line, c)
          BY <1>1, Zenon DEF ParseHeader, ParseBy
    <3>2. QED
          BY <1>5, <3>1 DEF HeadersOf
  <2>2. QED
        BY <1>4, <1>6, <2>1, Zenon DEF ParseRequest, Accepts
<1>8. Accepted(ParseRequest(s)) <=>
        Accepts(parts) /\ <<>> \notin Range(headers) /\ HasHeader(FlattenSeq(headers), <<x>>)
  <2>1. PICK r : r = HttpRequest(parts[1], parts[2], parts[3], FlattenSeq(headers))
        OBVIOUS
  <2>2. r.headers = FlattenSeq(headers)
        BY <2>1 DEF HttpRequest
  <2>3. <<r>> # <<>> /\ <<r>>[1] = r
        OBVIOUS
  <2>4. QED
        BY <1>2, <1>7, <2>1, <2>2, <2>3, Zenon DEF Accepted
<1>9. /\ <<>> \notin Range(headers) <=> AllColons(s, c)
      /\ <<>> \notin Range(headers) =>
           (HasHeader(FlattenSeq(headers), <<x>>) <=> SomeNamed(s, c, x))
    BY <1>3, <1>4, <1>5, HeadersAre
<1>10. Accepts(parts) <=> WellFormedRequestLine(SubSeq(s, 1, EndOf(s, 0)))
  <2>1. PICK f : LinesAt(s, f, lines)
        BY <1>4, SplitLines
  <2>2. 1 \in 1..Len(lines) /\ f[1] = 0 /\ lines[1] = SubSeq(s, f[1] + 1, EndOf(s, f[1]))
    <3>1. Len(lines) \in Nat
          BY <1>4, LinesTyped
    <3>2. Len(lines) # 0 /\ f[1] = 0
          BY <2>1 DEF LinesAt
    <3>3. 1 \in 1..Len(lines)
          BY <3>1, <3>2
    <3>4. QED
          BY <2>1, <3>2, <3>3 DEF LinesAt
  <2>3. lines[1] = SubSeq(s, 1, EndOf(s, 0))
        BY <2>2
  <2>4. PICK line \in Seq(S) : line = lines[1]
        BY <1>4, <2>2, LinesTyped
  <2>5. Accepts(SplitN(line, <<" ">>, 2)) <=> WellFormedRequestLine(line)
        BY RequestLineIs
  <2>6. QED
        BY <1>6, <2>3, <2>4, <2>5, Zenon
<1>11. WellFormed(s) <=> Accepts(parts) /\ AllColons(s, c)
    BY <1>1, <1>10, Zenon DEF WellFormed, AllColons, ColonAt
<1>12. Mentions(s, "Host") <=> SomeNamed(s, c, x)
  <2>1. ASSUME NEW y PROVE ToLowercase(<<y>>) = ToLowercase(<<x>>) <=> Low(y) = Low(x)
    <3>1. PICK key \in Seq({y}) : key = <<y>>
      <4>1. <<y>> \in Seq({y})
            OBVIOUS
      <4>2. QED
            BY <4>1
    <3>2. Len(key) = 1 /\ key[1] = y
          BY <3>1
    <3>3. ToLowercase(key) = ToLowercase(<<x>>) <=> Len(key) = 1 /\ Low(key[1]) = Low(x)
          BY LowercaseIs
    <3>4. QED
          BY <3>1, <3>2, <3>3
  <2>2. \A b : ToLowercase(<<s[b + 1]>>) = ToLowercase(<<x>>) <=> Low(s[b + 1]) = Low(x)
        BY <2>1
  <2>3. QED
        BY <1>1, <1>2, <2>2, Zenon DEF Mentions, SomeNamed, NamedAt
<1>13. QED
    BY <1>8, <1>9, <1>11, <1>12

-----------------------------------------------------------------------------
(* The requests that are refused.                                          *)

\* A request is handled, and another read, if the last frame was accepted, and
\* answered as a bad request if it was not.
RefusalInv ==
  /\ at \in Handling => frames # <<>> /\ Accepted(ParseRequest(Last(frames)))
  /\ at = "read" /\ frames # <<>> => Accepted(ParseRequest(Last(frames)))
  /\ at = "respond" /\ frames # <<>> =>
       (status = "400" <=> ~Accepted(ParseRequest(Last(frames))))

\* What a frame begins with.
LEMMA FrameDecides ==
  ASSUME NEW frame, HandleFrame(frame), frames \in Seq(Seq(Symbol)), frames' \in Seq(Seq(Symbol))
  PROVE  RefusalInv'
<1>1. /\ frames' = Append(frames, frame)
      /\ \/ Accepted(ParseRequest(frame)) /\ at' = "filter"
         \/ ~Accepted(ParseRequest(frame)) /\ at' = "respond" /\ status' = "400"
    BY DEF HandleFrame, Accepted
<1>2. frames' # <<>> /\ Last(frames') = frame
  <2>1. PICK n \in Nat : n = Len(frames)
        OBVIOUS
  <2>2. PICK cuts \in Seq(Seq(Symbol)) : cuts = frames'
        OBVIOUS
  <2>3. Len(cuts) = n + 1 /\ cuts[n + 1] = frame
        BY <1>1, <2>1, <2>2
  <2>4. QED
        BY <2>2, <2>3 DEF Last
<1>3. "filter" \in Handling /\ "filter" # "respond" /\ "respond" \notin Handling
    BY DEF Handling
<1>4. QED
    BY <1>1, <1>2, <1>3, Zenon DEF RefusalInv

\* While the request is handled its frame is the last one, and no answer is that of
\* a bad request.
LEMMA HandlingAccepts ==
  ASSUME RefusalInv, at \in Handling, frames' = frames,
         at' # "read", at' = "respond" => status' # "400"
  PROVE  RefusalInv'
BY DEF RefusalInv

\* Neither does reading on, or an error of recv().
LEMMA ReadingAccepts ==
  ASSUME RefusalInv, at' = "read" \/ (at' = "respond" /\ status' # "400"), frames' = frames,
         at = "read" \/ (at = "respond" /\ status # "400")
  PROVE  RefusalInv'
<1>1. "read" \notin Handling /\ "respond" \notin Handling
    BY DEF Handling
<1>2. QED
    BY <1>1 DEF RefusalInv

\* Every step keeps the invariant.
LEMMA NextRefuses == CutInv /\ CutInv' /\ RefusalInv /\ [Next]_vars => RefusalInv'
<1> SUFFICES ASSUME CutInv, CutInv', RefusalInv, [Next]_vars PROVE RefusalInv'
    OBVIOUS
<1>1. frames \in Seq(Seq(Symbol)) /\ frames' \in Seq(Seq(Symbol))
  <2>1. scenario' = scenario
        BY DEF Next, Receive, ReceiveNothing, ReceiveFails, Handle, WriteResponse, Others, Replace, Rewrite,
           Unlink, Chmod, Change, Stay, FilterAccess, OpenRules, ReadRules, ServeAccess, Stat, OpenContents, ReadContents,
           LastModified, vars
  <2>2. Symbol' = Symbol
        BY <2>1 DEF Symbol
  <2>3. QED
        BY <2>2 DEF CutInv
<1>2. ASSUME at' \in {"closed", "stuck"} PROVE RefusalInv'
    BY <1>2 DEF RefusalInv, Handling
<1>3. CASE Receive
  <2>1. PICK bytes : HandleFrame(bytes) \/ GoOnReading(bytes)
        BY <1>3 DEF Receive, ReadUntil, TakeFrame
  <2>2. GoOnReading(bytes) => at' = "read" /\ frames' = frames
        BY DEF GoOnReading
  <2>3. at = "read"
        BY <1>3 DEF Receive
  <2>4. QED
        BY <1>1, <2>1, <2>2, <2>3, FrameDecides, ReadingAccepts
<1>4. CASE WriteResponse
  <2>1. CASE LastResponse
        BY <1>2, <1>4, <2>1 DEF WriteResponse
  <2>2. CASE ~LastResponse
    <3>1. PICK bytes : HandleFrame(bytes) \/ GoOnReading(bytes)
          BY <1>4, <2>2 DEF WriteResponse, TakeFrame
    <3>2. GoOnReading(bytes) => at' = "read" /\ frames' = frames
          BY DEF GoOnReading
    <3>3. at = "respond" /\ status # "400"
          BY <1>4, <2>2 DEF WriteResponse, LastResponse
    <3>4. QED
          BY <1>1, <3>1, <3>2, <3>3, FrameDecides, ReadingAccepts
  <2>3. QED
        BY <2>1, <2>2
<1>5. CASE ReceiveNothing
    BY <1>2, <1>5 DEF ReceiveNothing
<1>9. CASE ReceiveFails
  <2>1. at = "read" /\ frames' = frames /\ (at' = "closed" \/ (at' = "respond" /\ status' = "500"))
        BY <1>9 DEF ReceiveFails, Throw, Respond, connVars
  <2>2. QED
        BY <1>2, <2>1, ReadingAccepts
<1>6. CASE Others \/ Stay \/ UNCHANGED vars
  <2>1. at' = at /\ frames' = frames /\ status' = status
        BY <1>6 DEF Others, Replace, Rewrite, Unlink, Chmod, Change, Stay, vars, connVars
  <2>2. QED
        BY <2>1 DEF RefusalInv
<1>7. CASE Handle
  <2>1. at \in Handling /\ frames' = frames
        BY <1>7 DEF Handle, FilterAccess, OpenRules, ReadRules, ServeAccess, Stat, OpenContents,
           ReadContents, LastModified, connVars, Handling
  <2>4. at' # "read"
        BY <1>7 DEF Handle, FilterAccess, OpenRules, ReadRules, ServeAccess, Stat, OpenContents,
           ReadContents, LastModified, Go, Respond, Throw, ReadUnreadable, OpenFile, Fetched
  <2>2. at' = "respond" => status' # "400"
    <3>1. CASE FilterAccess
          BY <3>1 DEF FilterAccess, Go
    <3>2. CASE OpenRules
          BY <3>2 DEF OpenRules, Go, OpenFile, ReadUnreadable, Throw, Respond, ReadsEmpty
    <3>3. CASE ReadRules
          BY <3>3 DEF ReadRules, Go, Throw, Respond
    <3>4. CASE ServeAccess
          BY <3>4 DEF ServeAccess, Go, Respond
    <3>5. CASE Stat
          BY <3>5 DEF Stat, Go, Respond
    <3>6. CASE OpenContents
          BY <3>6 DEF OpenContents, OpenFile, Fetched, ReadUnreadable, Throw, Respond, ReadsEmpty
    <3>7. CASE ReadContents
          BY <3>7 DEF ReadContents, Fetched
    <3>8. CASE LastModified
          BY <3>8 DEF LastModified, Fetched
    <3>9. QED
          BY <1>7, <3>1, <3>2, <3>3, <3>4, <3>5, <3>6, <3>7, <3>8 DEF Handle
  <2>3. QED
        BY <2>1, <2>2, <2>4, HandlingAccepts
<1>8. QED
    BY <1>3, <1>4, <1>5, <1>6, <1>7, <1>9 DEF Next

\* Whatever a client sends and however it is cut, a frame is answered as a bad request
\* exactly if the grammar does not generate it or it names no host (http.cpp:201-260,
\* connection_handlers.cpp:18).
THEOREM BadRequestsAreRefused == Spec => []BadRequests
<1>1. Init => RefusalInv
    BY DEF Init, RefusalInv, Handling
<1>2. CutInv /\ RefusalInv => BadRequests
  <2> SUFFICES ASSUME CutInv, RefusalInv, at = "respond", frames # <<>>
               PROVE  status = "400" <=> ~(WellFormed(Last(frames)) /\ Mentions(Last(frames), "Host"))
      BY DEF BadRequests
  <2>1. frames # <<>> /\ (status = "400" <=> ~Accepted(ParseRequest(Last(frames))))
        BY DEF RefusalInv
  <2>2. PICK frame \in Seq(Symbol) : frame = Last(frames)
    <3>1. frames \in Seq(Seq(Symbol))
          BY DEF CutInv
    <3>2. Len(frames) \in 1..Len(frames)
          BY <2>1, <3>1, EmptySeq
    <3>3. Last(frames) \in Seq(Symbol)
          BY <3>1, <3>2, ElementOfSeq DEF Last
    <3>4. QED
          BY <3>3
  <2>3. Accepted(ParseRequest(frame)) <=> WellFormed(frame) /\ Mentions(frame, "Host")
        BY FrameIs
  <2>4. QED
        BY <2>1, <2>2, <2>3
<1>3. QED
    BY <1>1, <1>2, CutStarts, NextCuts, NextRefuses, PTL DEF Spec
=============================================================================
