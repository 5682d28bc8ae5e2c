----------------------------- MODULE HttpMessages -----------------------------
(***************************************************************************)
(* HTTP requests as text (http.cpp): how a frame, the text up to a blank   *)
(* line, becomes a request, and how a request becomes text.                *)
(***************************************************************************)
EXTENDS Strings

CRLF == <<"\r", "\n">>
CRLFCRLF == CRLF \o CRLF

HttpHeader(key, value) == [key |-> key, value |-> value]
HttpRequest(method, uri, version, headers) ==
  [method |-> method, uri |-> uri, version |-> version, headers |-> headers]

\* HttpRequest::pack.  The program makes no request with a body.
Pack(request) ==
  LET lines == [k \in DOMAIN request.headers |->
                  request.headers[k].key \o <<":">> \o request.headers[k].value \o CRLF]
  IN request.method \o <<" ">> \o request.uri \o <<" ">> \o request.version \o CRLF
       \o FlattenSeq(lines) \o CRLF

\* The uri and the version that parse_request_frame accepts.
ValidUri(uri) == uri # <<>> /\ uri[1] = "/"
ValidVersion(version) ==
  IsPrefix(<<"HTTP", "/">>, version) /\ Size(version) >= Size(<<"HTTP", "/", "1", ".", "0">>)

\* Wrong on purpose: a colon in a value ends it.
ParseHeaderAllColons(line) ==
  LET parts == Split(line, <<":">>)
  IN IF Len(parts) # 2 THEN <<>> ELSE <<HttpHeader(parts[1], parts[2])>>

\* One header, none if the line is malformed.
ParseHeader(line) ==
  LET parts == SplitN(line, <<":">>, 1)
  IN IF Len(parts) # 2 THEN <<>> ELSE <<HttpHeader(parts[1], parts[2])>>

\* Wrong on purpose: header lines without a colon are skipped.
ParseRequestLenient(frame) ==
  LET lines == Split(frame, CRLF)
      parts == SplitN(lines[1], <<" ">>, 2)
      headers == [k \in 1..(Len(lines) - 1) |-> ParseHeader(lines[k + 1])]
  IN IF Len(parts) = 3 /\ ValidUri(parts[2]) /\ ValidVersion(parts[3])
     THEN <<HttpRequest(parts[1], parts[2], parts[3], FlattenSeq(headers))>>
     ELSE <<>>

\* parse_request_frame: one request, none for HttpRequestParseError.
ParseRequest(frame) ==
  LET lines == Split(frame, CRLF)
      parts == SplitN(lines[1], <<" ">>, 2)
      headers == [k \in 1..(Len(lines) - 1) |-> ParseHeader(lines[k + 1])]
  IN IF Len(parts) = 3 /\ ValidUri(parts[2]) /\ ValidVersion(parts[3]) /\ <<>> \notin Range(headers)
     THEN <<HttpRequest(parts[1], parts[2], parts[3], FlattenSeq(headers))>>
     ELSE <<>>

\* Where a header is, in any case; 0 if it is not there.
HeaderAt(headers, key) ==
  SelectInSeq(headers, LAMBDA header : ToLowercase(header.key) = ToLowercase(key))
HasHeader(headers, key) == HeaderAt(headers, key) # 0
GetHeader(headers, key) ==
  IF HasHeader(headers, key) THEN headers[HeaderAt(headers, key)] ELSE HttpHeader(<<>>, <<>>)

AsksToClose(request) == Has(GetHeader(request.headers, <<"Connection">>).value, <<"close">>)

-----------------------------------------------------------------------------
(* Reference: the requests the server accepts, as positions in the frame.  *)

\* Where the lines of a frame begin and end, as counts of symbols before them.
LineEnds(frame) == {p \in 0..(Len(frame) - 2) : SubSeq(frame, p + 1, p + 2) = CRLF} \cup {Len(frame)}
LineBegins(frame) == {0} \cup {p + 2 : p \in LineEnds(frame) \ {Len(frame)}}
EndOf(frame, begin) == Min({p \in LineEnds(frame) : p >= begin})

\* Method, a space, a uri that begins with a slash, a space, a version of at
\* least eight characters.
WellFormedRequestLine(line) ==
  \E p, q \in DOMAIN line :
    /\ p < q /\ line[p] = " " /\ line[q] = " "
    /\ \A k \in 1..(q - 1) : line[k] = " " => k = p
    /\ line[p + 1] = "/"
    /\ Len(line) >= q + 2 /\ line[q + 1] = "HTTP" /\ line[q + 2] = "/"
    /\ Size(SubSeq(line, q + 3, Len(line))) >= 3

WellFormed(frame) ==
  /\ WellFormedRequestLine(SubSeq(frame, 1, EndOf(frame, 0)))
  /\ \A b \in LineBegins(frame) \ {0} : \E k \in (b + 1)..EndOf(frame, b) : frame[k] = ":"

\* A line of the frame other than the first begins with the name and a colon.
Mentions(frame, name) ==
  \E b \in LineBegins(frame) \ {0} :
    /\ b + 2 <= Len(frame) /\ frame[b + 2] = ":"
    /\ ToLowercase(<<frame[b + 1]>>) = ToLowercase(<<name>>)
=============================================================================
