-------------------------- MODULE MCRequestHandling --------------------------
(* Small instances of RequestHandling for TLC.                             *)
EXTENDS RequestHandling, TLC

MCWordSize ==
  "GET" :> 3 @@ "HTTP" :> 4 @@ "Host" :> 4 @@ "HOST" :> 4 @@ "Connection" :> 10 @@ "close" :> 5
    @@ "index" :> 5 @@ ".html" :> 5 @@ ".htaccess" :> 9
MCLowercase == "Host" :> "host" @@ "HOST" :> "host" @@ "Connection" :> "connection"

\* Addresses of two bits.
MCIpOf == <<"00">> :> {} @@ <<"01">> :> {2} @@ <<"10">> :> {1} @@ <<"11">> :> {1, 2}
MCLengthOf == <<"0">> :> 0 @@ <<"1">> :> 1 @@ <<"2">> :> 2 @@ <<"3">> :> 3

Env(addresses, wraps) == [dns |-> <<"name">> :> addresses, wraps |-> wraps]
OneAddress == {Env(<<{1}>>, TRUE)}
AnyEnv == {Env(addresses, wraps) : addresses \in {<<>>, <<{1}>>, <<{2}, {1, 2}>>}, wraps \in BOOLEAN}

Regular(version) ==
  [kind |-> "regular", world |-> TRUE, opens |-> TRUE, inode |-> version, version |-> version]
Directory == [Regular(1) EXCEPT !.kind = "directory"]

Version == <<"HTTP", "/", "1", ".", "1">>
Host == HttpHeader(<<"Host">>, <<" ", "a">>)
Get(uri) == HttpRequest(<<"GET">>, uri, Version, <<Host>>)

Bytes(requests) == FlattenSeq([k \in DOMAIN requests |-> Pack(requests[k])])
A == <<"/", "a">>
Rules == <<"/", ".htaccess">>

Scenario(mode_, sent, requests, files, texts) ==
  [mode |-> mode_, sent |-> sent, requests |-> requests, atOnce |-> TRUE, client |-> {1},
   files |-> files, texts |-> texts, envs |-> OneAddress, maxChanges |-> 0]
Modes == {"sync", "async"}

-----------------------------------------------------------------------------
(* Streams: requests in any number of pieces.                              *)

Closing == HttpRequest(<<"GET">>, A, Version, <<HttpHeader(<<"HOST">>, <<"a">>),
                                               HttpHeader(<<"Connection">>, <<"close">>)>>)
Colons == HttpRequest(<<"GET">>, Slash, Version, <<Host, HttpHeader(<<"a">>, <<":", "NUL", ":">>)>>)
Hostless == HttpRequest(<<"GET">>, A, Version, <<>>)
Streams ==
  {[Scenario(m, Bytes(requests), requests, A :> Regular(1), <<<<>>>>) EXCEPT !.atOnce = FALSE] :
     m \in Modes,
     requests \in {<<Get(A), Closing>>, <<Closing, Get(A)>>, <<Colons, Get(A)>>,
                   <<Get(A), Hostless, Get(A)>>}}

\* Frames one edit away from a request, or two.
Valid == Popped(Pack(Get(A)), Len(Pack(Get(A))) - Len(CRLFCRLF))
Without(frames_) == {RemoveAt(f, k) : f \in frames_, k \in 1..16}
With(frames_) ==
  {InsertAt(f, k, t) : f \in frames_, k \in 1..16, t \in {" ", "/", ":", "1"}}
Frames == LET once == Without({Valid}) \cup With({Valid}) IN once \cup Without(once)
Malformed == {Scenario("sync", frame \o CRLFCRLF, <<>>, A :> Regular(1), <<<<>>>>) : frame \in Frames}

-----------------------------------------------------------------------------
(* Paths: every URI of up to seven characters, or five with NULs.          *)

Deny == <<"deny", " from ", "00", "/", "0">>
Allow == <<"allow", " from ", "00", "/", "0">>
DirectoryNames ==
  {Slash, Slash \o Here, Slash \o Up, A, A \o Slash, A \o Slash \o Here, A \o Slash \o Up}
Tree == [name \in DirectoryNames |-> Directory] @@ <<"/", "a", "/", "a">> :> Regular(1)
  @@ <<"/", "a", "/", ".htaccess">> :> Regular(1) @@ Rules :> Regular(2)
  @@ <<"/", "a", "a">> :> Regular(1) @@ IndexPath :> Regular(1)
Paths ==
  {Scenario("async", Bytes(<<Get(Slash \o uri)>>), <<Get(Slash \o uri)>>, Tree, <<Deny, Allow>>) :
     uri \in SeqOf({"/", ".", "a"}, 6) \cup SeqOf({"/", ".", "a", "NUL"}, 4)}

-----------------------------------------------------------------------------
(* Rules: texts of up to two lines.                                        *)

Lines ==
  {<<verb, " from ", prefix, "/", length>> :
      verb \in {"allow", "deny"}, prefix \in {"00", "10", "11"}, length \in {"0", "1", "2", "3"}}
  \cup {<<"deny", " from ", "name">>, <<"allow", " from ", "10">>, <<"deny", " from ", "a", "/", "1">>,
        <<"deny", " from ", "10", "/", "a">>, <<"deny", " from ", "00", " from ", "00">>,
        <<"deny", " from ", "10", "NUL", "/", "1">>, <<"a", " from ", "00">>, <<"deny">>, <<>>}
Texts == Lines \cup {first \o <<"\n">> \o second : first, second \in Lines}
RuleTexts ==
  {[Scenario(m, Bytes(<<Get(A)>>), <<Get(A)>>, A :> Regular(1) @@ Rules :> Regular(1), <<text>>)
      EXCEPT !.envs = AnyEnv] : m \in {"sync"}, text \in Texts}

-----------------------------------------------------------------------------
(* Files that change while they are looked at.                             *)

Broken == <<"deny">>
Private == [Regular(1) EXCEPT !.world = FALSE]
Unopenable == [Regular(1) EXCEPT !.opens = FALSE]
Changing ==
  {[Scenario(m, Bytes(<<Closing>>), <<Closing>>, A :> file @@ Rules :> rules, texts)
      EXCEPT !.maxChanges = 2] :
     m \in Modes, file \in {Regular(1), Private, Directory, Absent},
     rules \in {Regular(1), Unopenable, Directory, Absent},
     texts \in {<<Deny, Deny, Deny>>, <<Allow, Deny, Broken>>, <<Deny, Allow, Allow>>}}

MCScenarios == Streams \cup Malformed \cup Paths \cup RuleTexts \cup Changing
=============================================================================
