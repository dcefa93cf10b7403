----------------------------- MODULE MCSSOLogin ------------------------------
(* The pages that between them take every turn the three probes know.      *)
EXTENDS SSOLogin

Plain == [creds |-> FALSE, antiforgery |-> FALSE, assertion |-> FALSE, action |-> "post"]
LoginForm == [Plain EXCEPT !.creds = TRUE, !.antiforgery = TRUE]
ShellForm == [Plain EXCEPT !.creds = TRUE]
BridgeForm == [Plain EXCEPT !.assertion = TRUE]
LogoutForm == [BridgeForm EXCEPT !.action = "logout"]

FormSets ==
  {{}, {LoginForm}, {ShellForm}, {BridgeForm}, {LogoutForm}, {BridgeForm, LogoutForm},
   {LoginForm, BridgeForm}, {[LoginForm EXCEPT !.assertion = TRUE]},
   {[LoginForm EXCEPT !.action = "malformed"]}, {[BridgeForm EXCEPT !.action = "malformed"]}}

\* Only the service shows tokens, and only there does the status matter.
AnyPage ==
  {p \in [host : {"sso", "service", "other"}, ok : BOOLEAN,
          token : {"none", "malformed", "good"}, forms : FormSets] :
     p.host # "service" => p.token = "none" /\ p.ok}
=============================================================================
