------------------------------ MODULE SSOLogin -------------------------------
(***************************************************************************)
(* One run of a probe that walks the single sign-on chain: the probe of    *)
(* the page before the credentials, the Moodle login and the course        *)
(* selection login.  The services answer with any page they can show, a    *)
(* request may be redirected or fail at any point, and the identity        *)
(* provider accepts or refuses the credentials as it likes.                *)
(*                                                                         *)
(*   start -> wire -> look -> wire -> ... -> (verify ->) done              *)
(***************************************************************************)
EXTENDS Integers

CONSTANTS
  Probe,         \* the probes considered, of "page", "moodle", "courses"
  MaxRedirects,  \* bridges and redirects a run follows (6 in the code)
  Pages          \* the pages the services may answer with

Form == [creds : BOOLEAN,        \* asks for Username and Password
         antiforgery : BOOLEAN,  \* carries a request verification token
         assertion : BOOLEAN,    \* carries an OIDC or SAML assertion
         action : {"post", "logout", "malformed"}]
Page == [host : {"sso", "service", "other"}, ok : BOOLEAN,
         token : {"none", "malformed", "good"}, forms : SUBSET Form]

ASSUME SSOAssumption ==
  /\ Probe \subseteq {"page", "moodle", "courses"}
  /\ MaxRedirects \in Nat \ {0}
  /\ Pages \subseteq Page

VARIABLES
  probe, configured,  \* which probe runs, whether it has credentials
  stage,
  sent,       \* requests the current call of the client has made
  carries,    \* what the one in flight carries
  page,       \* the last page answered
  hops,       \* rounds of the current loop
  submitted,  \* the login form has been submitted
  result,
  \* the environment
  idp,        \* what the identity provider made of the credentials
  \* history, for the properties only
  posted,     \* requests that carried the credentials
  presented,  \* times the login form was submitted
  bridges,    \* bridges followed; a credential form is none
  honest      \* every answer so far is one of a sign-on that works

walk == <<stage, sent, carries, page, hops, submitted, result>>
history == <<posted, presented, bridges, honest>>
vars == <<probe, configured, walk, idp, history>>

-----------------------------------------------------------------------------
NoPage == [host |-> "other", ok |-> FALSE, token |-> "none", forms |-> {}]
Pending == [state |-> "none", reason |-> "none"]
Up == [state |-> "up", reason |-> "none"]
NotConfigured == [state |-> "unknown", reason |-> "not_configured"]
Down(why) == [state |-> "down", reason |-> why]
HardAuthFailures == {"token_invalid", "username_mismatch"}
Reason == {"timeout", "unreachable", "http_error", "unexpected_body",
           "sso_form_missing", "sso_bridge_missing", "sso_redirect_failed"}
            \cup HardAuthFailures
Result == {Pending, Up, NotConfigured} \cup {Down(why) : why \in Reason}

Login == probe # "page"
Moodle == probe = "moodle"

Init ==
  /\ probe \in Probe /\ configured \in BOOLEAN
  /\ stage = "start" /\ sent = 0 /\ carries = "nothing" /\ page = NoPage
  /\ hops = 0 /\ submitted = FALSE /\ result = Pending
  /\ idp = "none"
  /\ posted = 0 /\ presented = 0 /\ bridges = 0 /\ honest = TRUE

-----------------------------------------------------------------------------
(* What a page is taken for.                                               *)

\* (mutant)
FollowsLogout(forms) == {f \in forms : f.assertion /\ ~f.creds}

FindLoginForm(forms) == {f \in forms : f.creds}
FindOIDCBridge(forms) ==
  {f \in forms : f.assertion /\ ~f.creds /\ f.action # "logout"}
IsSSOLoginPage(p) == p.host = "sso" /\ FindLoginForm(p.forms) # {}

\* One call of the client begins: what is sent, and after which round.
Send(where, what) ==
  /\ stage' = where /\ sent' = 1 /\ carries' = what
  /\ posted' = IF what = "login" THEN posted + 1 ELSE posted
  /\ page' = NoPage
  /\ UNCHANGED result

Finish(r) ==
  /\ stage' = "done" /\ result' = r
  /\ UNCHANGED <<sent, carries, page, hops, submitted>>

-----------------------------------------------------------------------------
(* The HTTP client.                                                        *)

\* A run without credentials says so; one that cannot draw its session or its
\* passport is down; otherwise the entry page is fetched.
Start ==
  /\ stage = "start"
  /\ IF Login /\ ~configured
     THEN Finish(NotConfigured) /\ UNCHANGED history
     ELSE \/ Finish(Down("unreachable")) /\ honest' = FALSE
             /\ UNCHANGED <<posted, presented, bridges>>
          \/ Send("wire", "nothing") /\ UNCHANGED <<hops, submitted, presented, bridges, honest>>
  /\ UNCHANGED <<probe, configured, idp>>

OnTheWire == stage \in {"wire", "verify"}

\* The other side has received the request.
Received ==
  idp' \in CASE carries = "login"  -> {"accepted", "refused"}
             [] carries = "logout" -> {"none"}
             [] OTHER              -> {idp}

\* (mutant)
OneRedirectMore == sent <= MaxRedirects /\ sent' = sent + 1

\* CheckRedirect counts the requests made so far.
FollowRedirect == sent < MaxRedirects /\ sent' = sent + 1

\* A redirect is followed with the body (307, 308) or as a plain GET.
Redirect ==
  /\ OnTheWire /\ FollowRedirect /\ Received
  /\ \/ posted' = (IF carries = "login" THEN posted + 1 ELSE posted)
        /\ UNCHANGED carries
     \/ carries' = "nothing" /\ UNCHANGED posted
  /\ UNCHANGED <<probe, configured, stage, page, hops, submitted, result,
                 presented, bridges, honest>>

\* The request fails or times out, or is redirected once too often.
Break ==
  /\ OnTheWire
  /\ \E why \in {"timeout", "unreachable"} : Finish(Down(why))
  /\ honest' = FALSE
  /\ UNCHANGED <<probe, configured, idp, posted, presented, bridges>>

\* A page of a sign-on that works: a bridge to cross, then the credential
\* form, which may carry an assertion too, then bridges again and the service.
Bridge(p) ==
  /\ FindOIDCBridge(p.forms) # {} /\ FindLoginForm(p.forms) = {}
  /\ p.token = "none" /\ \A f \in p.forms : f.action # "malformed"
Prompt(p) ==
  /\ p.host = "sso" /\ p.token = "none"
  /\ \A f \in p.forms : f.creds /\ f.antiforgery /\ f.action = "post"
  /\ p.forms # {}
Landing(p) ==
  /\ p.host = "service" /\ p.forms = {}
  /\ p.token = IF Moodle THEN "good" ELSE "none"
Works(p, verdict) ==
  /\ p.ok
  /\ \/ verdict # "refused" /\ Bridge(p)
     \/ verdict = "none" /\ Prompt(p)
     \/ verdict = "accepted" /\ Landing(p)

\* The course selection site is gated: a session that submitted credentials
\* reaches it only if the identity provider accepted them.
Gated(p, verdict) ==
  probe = "courses" /\ submitted /\ p.host = "service" => verdict = "accepted"

Answer ==
  /\ stage = "wire" /\ Received
  /\ \E p \in Pages :
       /\ Gated(p, idp')
       /\ page' = p
       /\ honest' = (honest /\ Works(p, idp'))
  /\ stage' = "look" /\ sent' = 0 /\ carries' = "nothing"
  /\ UNCHANGED <<probe, configured, hops, submitted, result,
                 posted, presented, bridges>>

-----------------------------------------------------------------------------
(* The walk.  The Moodle login looks for the token, then for a bridge,     *)
(* then at the host; the others look for the credential form first.        *)

\* (mutants)
RoundsUncounted == hops' = hops

InBudget == hops < MaxRedirects
NextRound == hops' = hops + 1

AtBridge ==
  /\ InBudget /\ FindOIDCBridge(page.forms) # {}
  /\ IF Moodle THEN page.token = "none" ELSE ~IsSSOLoginPage(page)

\* (mutant)
SubmitsAgain ==
  IF Moodle
  THEN /\ InBudget /\ page.token = "none" /\ ~AtBridge
       /\ page.host = "sso"
       /\ \E f \in FindLoginForm(page.forms) : f.antiforgery
  ELSE probe = "courses" /\ ~AtBridge /\ IsSSOLoginPage(page)

\* Whether the credential form in front of the run is one to submit.
AtPrompt ==
  IF Moodle
  THEN /\ InBudget /\ page.token = "none" /\ ~AtBridge
       /\ page.host = "sso" /\ ~submitted
       /\ \E f \in FindLoginForm(page.forms) : f.antiforgery
  ELSE probe = "courses" /\ ~AtBridge /\ ~submitted /\ IsSSOLoginPage(page)

AtToken == Moodle /\ InBudget /\ page.token # "none"

FollowBridge ==
  /\ stage = "look" /\ AtBridge
  /\ \E f \in FindOIDCBridge(page.forms) :
       IF f.action = "malformed"
       THEN /\ Finish(Down(IF Moodle THEN "sso_bridge_missing" ELSE "unreachable"))
            /\ UNCHANGED <<posted, bridges>>
       ELSE /\ Send("wire", IF f.action = "logout" THEN "logout" ELSE "bridge")
            /\ NextRound
            /\ bridges' = IF bridges < MaxRedirects /\ ~Prompt(page) THEN bridges + 1 ELSE bridges
            /\ UNCHANGED submitted
  /\ UNCHANGED <<probe, configured, idp, presented, honest>>

Submit ==
  /\ stage = "look" /\ AtPrompt
  /\ \E f \in FindLoginForm(page.forms) :
       /\ Moodle => f.antiforgery
       /\ IF f.action = "malformed"
          THEN /\ Finish(Down(IF Moodle THEN "unreachable" ELSE "sso_form_missing"))
               /\ UNCHANGED <<posted, presented>>
          ELSE /\ Send("wire", "login")
               /\ submitted' = TRUE /\ presented' = presented + 1
               /\ hops' = IF Moodle THEN hops + 1 ELSE 0
  /\ UNCHANGED <<probe, configured, idp, bridges, honest>>

\* decodeWSToken, and the request that tells whose token it is.
Unwrap ==
  /\ stage = "look" /\ AtToken
  /\ IF page.token = "malformed"
     THEN Finish(Down("token_invalid")) /\ UNCHANGED posted
     ELSE Send("verify", "token") /\ UNCHANGED <<hops, submitted>>
  /\ UNCHANGED <<probe, configured, idp, presented, bridges, honest>>

\* What the answer is taken for: no JSON, an exception, another user's name, or
\* the monitor's own, which the webservice gives only for the token of a session
\* the identity provider accepted.
Verified ==
  {Down("unexpected_body"), Down("token_invalid"), Down("username_mismatch")}
    \cup (IF idp = "accepted" THEN {Up} ELSE {})

Verify ==
  /\ stage = "verify"
  /\ \E r \in Verified : Finish(r) /\ honest' = (honest /\ r = Up)
  /\ UNCHANGED <<probe, configured, idp, posted, presented, bridges>>

\* (mutants)
BadPassword ==
  Down(IF ~InBudget \/ page.host # "sso" THEN "sso_bridge_missing"
       ELSE IF submitted THEN "token_invalid" ELSE "sso_form_missing")
AnyGoodAnswer ==
  IF ~submitted THEN Down("sso_form_missing")
  ELSE IF page.ok THEN Up ELSE Down("http_error")

\* What each probe makes of the page its walk ends on.
MoodleVerdict ==
  Down(IF ~InBudget \/ page.host # "sso" THEN "sso_bridge_missing"
       ELSE IF submitted THEN "sso_redirect_failed" ELSE "sso_form_missing")

CoursesVerdict ==
  IF ~submitted THEN Down("sso_form_missing")
  ELSE IF page.host # "service" THEN Down("sso_redirect_failed")
  ELSE IF page.ok THEN Up ELSE Down("http_error")

PageVerdict ==
  IF page.host = "sso" /\ \E f \in FindLoginForm(page.forms) : f.antiforgery
  THEN Up ELSE Down("sso_form_missing")

Settle ==
  /\ stage = "look" /\ ~AtToken /\ ~AtBridge /\ ~AtPrompt
  /\ Finish(CASE probe = "moodle"  -> MoodleVerdict
              [] probe = "courses" -> CoursesVerdict
              [] OTHER             -> PageVerdict)
  /\ UNCHANGED <<probe, configured, idp, history>>

-----------------------------------------------------------------------------
Next ==
  \/ Start \/ Redirect \/ Break \/ Answer
  \/ FollowBridge \/ Submit \/ Unwrap \/ Verify \/ Settle

\* Every call of the client ends: it has a timeout, and the probe's code runs
\* on from there.
Fairness ==
  /\ WF_vars(Start) /\ WF_vars(Break) /\ WF_vars(Verify)
  /\ WF_vars(FollowBridge \/ Submit \/ Unwrap \/ Settle)

Spec == Init /\ [][Next]_vars
FairSpec == Spec /\ Fairness

-----------------------------------------------------------------------------
(* Properties.                                                             *)

\* Every variable keeps its type; a call makes at most MaxRedirects requests
\* and a loop at most MaxRedirects rounds.
TypeOK ==
  /\ probe \in Probe /\ configured \in BOOLEAN
  /\ stage \in {"start", "wire", "look", "verify", "done"}
  /\ sent \in 0 .. MaxRedirects /\ hops \in 0 .. MaxRedirects
  /\ carries \in {"nothing", "bridge", "logout", "login", "token"}
  /\ page \in Page
  /\ submitted \in BOOLEAN /\ honest \in BOOLEAN
  /\ result \in Result
  /\ idp \in {"none", "accepted", "refused"}
  /\ posted \in Nat /\ presented \in Nat /\ bridges \in 0 .. MaxRedirects

\* A login is up only if this very run presented the credentials and the
\* identity provider accepted them: neither a service that lets anyone in, nor
\* an identity provider that answers 200, nor a token of somebody else.
UpMeansSignedIn == Login /\ result = Up => submitted /\ idp = "accepted"

\* A chain that works and has at most four bridges ("the real flow is six
\* hops") is reported up, whatever else its pages carry: no bridge missed, no
\* logout form followed, no credential form taken for a bridge, no round lost.
WorkingChainIsUp ==
  stage = "done" /\ honest /\ bridges <= MaxRedirects - 2 /\ (Login => configured)
    => result = Up

\* A run brought back to the credential form after it submitted credentials
\* never fails as a bad credential, which would suspend at once.  After at most
\* four bridges it fails as a redirect of the identity provider's; after more, the
\* Moodle login is out of rounds before it looks and may say a bridge is missing.
BackAtTheForm ==
  stage = "done" /\ submitted /\ Prompt(page) =>
    IF bridges <= MaxRedirects - 2
    THEN result = Down("sso_redirect_failed")
    ELSE result \in {Down("sso_redirect_failed"), Down("sso_bridge_missing")}

\* A run hands the scheduler a verdict, whatever loop the services send it
\* into: of bridges, of redirects, or back to the form.
RunEnds == <>(stage = "done")

\* What the repository's README says of one check: it never sends the
\* credentials again.
CredentialsSentOnce == posted <= 1

\* The run is one LoginRun: credentials are submitted once, only by a login,
\* and before any verdict that it is up.
Run == INSTANCE LoginRun WITH
  login <- Login,
  stage <- IF result # Pending THEN "answered"
           ELSE IF submitted THEN "submitted" ELSE "probe",
  presented <- presented,
  verdict <- result.state
LoginRunSpec == Run!Spec
=============================================================================
