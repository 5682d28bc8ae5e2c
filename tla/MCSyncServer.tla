----------------------------- MODULE MCSyncServer -----------------------------
(* Small instances of SyncServer for TLC.                                  *)
EXTENDS SyncServer

Request(form, close, rules, file) ==
  [form |-> form, close |-> close, rules |-> rules, file |-> file]

Index == Request("valid", FALSE, "none", "regular")
Goodbye == Request("valid", TRUE, "allows", "regular")
Malformed == Request("malformed", FALSE, "none", "regular")
NoHost == Request("nohost", FALSE, "none", "regular")
Throws == Request("throws", FALSE, "none", "regular")
Missing == Request("valid", FALSE, "unopenable", "absent")
Denied == Request("valid", FALSE, "denies", "regular")
Private == Request("valid", TRUE, "none", "private")
BadRules == Request("valid", FALSE, "invalid", "regular")
Unopenable == Request("valid", FALSE, "none", "unopenable")
Directory == Request("valid", FALSE, "none", "directory")

AllModes == {"nothread", "nopool", "pool"}
AllRequests ==
  {Index, Goodbye, Malformed, NoHost, Throws, Missing, Denied, Private, BadRules,
   Unopenable, Directory}
FewRequests == {Index}
=============================================================================
