---------------------------- MODULE MCAsyncServer ----------------------------
(* Small instances of AsyncServer for TLC.                                 *)
EXTENDS AsyncServer

Ask(form, close, rules, file) ==
  [form |-> form, close |-> close, rules |-> rules, file |-> file]

Index == Ask("valid", FALSE, "none", "regular")
Goodbye == Ask("valid", TRUE, "allows", "regular")
Malformed == Ask("malformed", FALSE, "none", "regular")
NoHost == Ask("nohost", FALSE, "none", "regular")
Throws == Ask("throws", FALSE, "none", "regular")
Missing == Ask("valid", FALSE, "none", "absent")
Denied == Ask("valid", FALSE, "denies", "regular")
Private == Ask("valid", TRUE, "none", "private")
BadRules == Ask("valid", FALSE, "invalid", "regular")
Unopenable == Ask("valid", FALSE, "none", "unopenable")
Directory == Ask("valid", FALSE, "none", "directory")

NoRules == Ask("valid", FALSE, "unopenable", "regular")

\* Every way through the handlers that ends.
AllRequests ==
  {Index, Goodbye, Malformed, NoHost, Throws, Missing, Denied, Private, BadRules,
   Unopenable, NoRules}
AnsweredRequests == {Goodbye, Missing, Denied}
FewRequests == {Index, BadRules, Unopenable, NoRules}
FaultyRequests == {Goodbye, Missing}
DirectoryRequests == {Directory}
=============================================================================
