--------------------------- MODULE SSOLoginProofs ----------------------------
(***************************************************************************)
(* A run of a sign-in probe implements the safety part of LoginRun and is  *)
(* up only for a session that was signed in, for any pages the services    *)
(* may answer with and any number of rounds.  The inductive invariant ties *)
(* the probe's own memory of the submission to what the identity provider  *)
(* has made of it.                                                         *)
(***************************************************************************)
EXTENDS SSOLogin, TLAPS

\* What the run knows of its submission, and what it may conclude from.
WalkInv ==
  /\ presented = IF submitted THEN 1 ELSE 0
  /\ submitted => Login /\ stage # "start"
  /\ carries = "login" \/ idp # "none" => submitted
  /\ stage = "verify" => Moodle
  /\ result = Pending <=> stage # "done"
  /\ probe = "courses" /\ stage = "look" /\ submitted /\ page.host = "service"
       => idp = "accepted"

SSOInv == TypeOK /\ WalkInv /\ UpMeansSignedIn

LEMMA Constants ==
  /\ MaxRedirects \in Nat /\ MaxRedirects >= 1
  /\ Pages \subseteq Page
  /\ \A p \in Probe : p \in {"page", "moodle", "courses"}
BY SSOAssumption

LEMMA Verdicts ==
  /\ Pending \in Result /\ Up \in Result /\ NotConfigured \in Result
  /\ \A why \in Reason : Down(why) \in Result
  /\ \A why : Down(why) # Pending /\ Down(why) # Up /\ Down(why).state = "down"
  /\ Up # Pending /\ NotConfigured # Pending /\ NotConfigured # Up
  /\ Up.state = "up" /\ NotConfigured.state = "unknown" /\ Pending.state = "none"
BY DEF Pending, Up, NotConfigured, Down, Result

LEMMA NoPageType == NoPage \in Page
BY DEF NoPage, Page

LEMMA InitSSO == Init => SSOInv
<1> SUFFICES ASSUME Init PROVE SSOInv
  OBVIOUS
<1>1. TypeOK
  <2>1. result \in Result /\ page \in Page
    BY Verdicts, NoPageType DEF Init
  <2>2. 0 \in 0 .. MaxRedirects
    BY Constants
  <2> QED
    BY <2>1, <2>2 DEF Init, TypeOK
<1>2. WalkInv
  BY DEF Init, WalkInv
<1>3. UpMeansSignedIn
  BY Verdicts DEF Init, UpMeansSignedIn
<1> QED
  BY <1>1, <1>2, <1>3 DEF SSOInv

-----------------------------------------------------------------------------
(* The steps.                                                              *)

\* What the walk concludes is one of the results it may have, and up only
\* when its submission was accepted.
LEMMA SettleResult ==
  ASSUME SSOInv, Settle
  PROVE  /\ result' \in Result \ {Pending}
         /\ result'.state \in {"up", "down"}
         /\ Login /\ result' = Up => submitted /\ idp = "accepted"
<1>1. \A why \in Reason : Down(why) \in Result \ {Pending} /\ Down(why) # Up /\ Down(why).state = "down"
  BY Verdicts
<1>2. {"sso_form_missing", "sso_redirect_failed", "sso_bridge_missing", "http_error"} \subseteq Reason
  BY DEF Reason
<1>3. CASE probe = "moodle"
  BY <1>1, <1>2, <1>3 DEF Settle, Finish, MoodleVerdict
<1>4. CASE probe = "courses"
  BY <1>1, <1>2, <1>4, Verdicts DEF Settle, Finish, CoursesVerdict, SSOInv, WalkInv
<1>5. CASE probe = "page"
  BY <1>1, <1>2, <1>5, Verdicts DEF Settle, Finish, PageVerdict, Login
<1>6. probe \in {"page", "moodle", "courses"}
  BY Constants DEF SSOInv, TypeOK
<1> QED
  BY <1>3, <1>4, <1>5, <1>6

\* A step that ends the run.
EndStep ==
  /\ stage # "done" /\ stage' = "done"
  /\ result' \in Result \ {Pending}
  /\ result'.state \in {"up", "down", "unknown"}
  /\ result'.state = "unknown" => ~submitted
  /\ Login /\ result' = Up => submitted /\ idp = "accepted"
  /\ UNCHANGED <<probe, configured, sent, carries, page, hops, submitted, idp,
                 posted, presented, bridges>>
  /\ honest' \in BOOLEAN

\* A step between two rounds that leaves the submission alone.
WalkStep ==
  /\ stage' \in {"wire", "verify", "look"}
  /\ UNCHANGED <<probe, configured, submitted, presented, result>>

LEMMA FinishEnds ==
  ASSUME SSOInv, NEW r \in Result \ {Pending, Up, NotConfigured}, stage # "done", Finish(r),
         UNCHANGED <<probe, configured, idp, posted, presented, bridges>>, honest' \in BOOLEAN
  PROVE  EndStep
<1>1. r.state = "down" /\ r # Up
  BY Verdicts DEF Result
<1> QED
  BY <1>1 DEF Finish, EndStep

\* Every step ends the run, submits the form once, or does neither.
LEMMA Steps ==
  ASSUME SSOInv, Next
  PROVE  EndStep \/ WalkStep \/ (Submit /\ stage' = "wire")
<1>0. /\ \A why \in Reason : Down(why) \in Result \ {Pending, Up, NotConfigured}
      /\ {"timeout", "unreachable", "unexpected_body", "token_invalid", "username_mismatch",
          "sso_bridge_missing", "sso_form_missing"} \subseteq Reason
  BY Verdicts DEF Reason, HardAuthFailures
<1>1. CASE Start
  <2>1. stage = "start" /\ ~submitted /\ honest \in BOOLEAN
    BY <1>1 DEF Start, SSOInv, WalkInv, TypeOK
  <2>2. CASE Finish(NotConfigured) /\ UNCHANGED history
    <3>1. UNCHANGED <<posted, presented, bridges, honest>>
      BY <2>2 DEF history
    <3> QED
      BY <1>1, <2>1, <2>2, <3>1, Verdicts DEF Start, Finish, EndStep
  <2>3. CASE Finish(Down("unreachable")) /\ honest' = FALSE /\ UNCHANGED <<posted, presented, bridges>>
    BY <1>0, <1>1, <2>1, <2>3, FinishEnds DEF Start
  <2>4. CASE Send("wire", "nothing") /\ UNCHANGED <<hops, submitted, presented, bridges, honest>>
    BY <1>1, <2>4 DEF Start, Send, WalkStep
  <2> QED
    BY <1>1, <2>2, <2>3, <2>4 DEF Start
<1>2. CASE Redirect
  BY <1>2 DEF Redirect, OnTheWire, WalkStep
<1>3. CASE Break
  <2>1. stage # "done"
    BY <1>3 DEF Break, OnTheWire
  <2> QED
    BY <1>0, <1>3, <2>1, FinishEnds DEF Break
<1>4. CASE Answer
  BY <1>4 DEF Answer, WalkStep
<1>5. CASE FollowBridge
  <2>1. PICK f \in FindOIDCBridge(page.forms) :
          IF f.action = "malformed"
          THEN /\ Finish(Down(IF Moodle THEN "sso_bridge_missing" ELSE "unreachable"))
               /\ UNCHANGED <<posted, bridges>>
          ELSE /\ Send("wire", IF f.action = "logout" THEN "logout" ELSE "bridge")
               /\ NextRound
               /\ bridges' = IF bridges < MaxRedirects /\ ~Prompt(page) THEN bridges + 1 ELSE bridges
               /\ UNCHANGED submitted
    BY <1>5 DEF FollowBridge
  <2>2. stage = "look" /\ UNCHANGED <<probe, configured, idp, presented, honest>> /\ honest \in BOOLEAN
    BY <1>5 DEF FollowBridge, SSOInv, TypeOK
  <2>3. CASE f.action = "malformed"
    <3>1. PICK why \in Reason : Finish(Down(why)) /\ UNCHANGED <<posted, bridges>>
      BY <1>0, <2>1, <2>3
    <3> QED
      BY <1>0, <2>2, <3>1, FinishEnds
  <2>4. CASE f.action # "malformed"
    BY <2>1, <2>2, <2>4 DEF Send, WalkStep
  <2> QED
    BY <2>3, <2>4
<1>6. CASE Submit
  <2>1. stage = "look" /\ UNCHANGED <<probe, configured, idp, bridges, honest>> /\ honest \in BOOLEAN
    BY <1>6 DEF Submit, SSOInv, TypeOK
  <2>2. \/ \E why \in Reason : Finish(Down(why)) /\ UNCHANGED <<posted, presented>>
        \/ Send("wire", "login")
    BY <1>0, <1>6 DEF Submit
  <2>3. CASE Send("wire", "login")
    BY <1>6, <2>3 DEF Send
  <2>4. CASE \E why \in Reason : Finish(Down(why)) /\ UNCHANGED <<posted, presented>>
    BY <1>0, <2>1, <2>4, FinishEnds
  <2> QED
    BY <2>2, <2>3, <2>4
<1>7. CASE Unwrap
  <2>1. stage = "look" /\ UNCHANGED <<probe, configured, idp, presented, bridges, honest>> /\ honest \in BOOLEAN
    BY <1>7 DEF Unwrap, SSOInv, TypeOK
  <2>2. \/ Finish(Down("token_invalid")) /\ UNCHANGED posted
        \/ Send("verify", "token") /\ UNCHANGED <<hops, submitted>>
    BY <1>7 DEF Unwrap
  <2> QED
    BY <1>0, <2>1, <2>2, FinishEnds DEF Send, WalkStep
<1>8. CASE Verify
  <2>1. /\ stage = "verify" /\ UNCHANGED <<probe, configured, idp, posted, presented, bridges>>
        /\ honest \in BOOLEAN
    BY <1>8 DEF Verify, SSOInv, TypeOK
  <2>2. PICK r \in Verified : Finish(r) /\ honest' = (honest /\ r = Up)
    BY <1>8 DEF Verify
  <2>3. honest' \in BOOLEAN
    BY <2>1, <2>2
  <2>4. CASE r = Up
    <3>1. idp = "accepted" /\ submitted
      BY <2>2, <2>4, Verdicts DEF Verified, SSOInv, WalkInv
    <3> QED
      BY <2>1, <2>2, <2>3, <2>4, <3>1, Verdicts DEF Finish, EndStep
  <2>5. CASE r # Up
    <3>1. r \in Result \ {Pending, Up, NotConfigured}
      BY <1>0, <2>2, <2>5 DEF Verified
    <3> QED
      BY <2>1, <2>2, <2>3, <3>1, FinishEnds
  <2> QED
    BY <2>4, <2>5
<1>9. CASE Settle
  <2>1. UNCHANGED <<probe, configured, idp, history>> /\ stage = "look" /\ honest \in BOOLEAN
    BY <1>9 DEF Settle, SSOInv, TypeOK
  <2>2. stage' = "done" /\ UNCHANGED <<sent, carries, page, hops, submitted>>
    BY <1>9 DEF Settle, Finish
  <2> QED
    BY <1>9, <2>1, <2>2, SettleResult DEF EndStep, history
<1> QED
  BY <1>1, <1>2, <1>3, <1>4, <1>5, <1>6, <1>7, <1>8, <1>9 DEF Next

-----------------------------------------------------------------------------
(* The invariant.                                                          *)

LEMMA ReceivedType ==
  ASSUME SSOInv, Received
  PROVE  /\ idp' \in {"none", "accepted", "refused"}
         /\ idp' # "none" => submitted
         /\ carries # "login" /\ idp = "none" => idp' = "none"
<1>1. idp \in {"none", "accepted", "refused"} /\ (carries = "login" \/ idp # "none" => submitted)
  BY DEF SSOInv, TypeOK, WalkInv
<1>2. CASE carries = "login"
  BY <1>1, <1>2 DEF Received
<1>3. CASE carries = "logout"
  BY <1>1, <1>3 DEF Received
<1>4. CASE carries # "login" /\ carries # "logout"
  BY <1>1, <1>4 DEF Received
<1> QED
  BY <1>2, <1>3, <1>4

LEMMA EndKeeps == SSOInv /\ EndStep => SSOInv'
<1> SUFFICES ASSUME SSOInv, EndStep PROVE SSOInv'
  OBVIOUS
<1>1. TypeOK'
  BY DEF SSOInv, EndStep, TypeOK
<1>2. WalkInv'
  BY DEF SSOInv, EndStep, WalkInv, Login, Moodle
<1>3. UpMeansSignedIn'
  BY DEF EndStep, UpMeansSignedIn, Login
<1> QED
  BY <1>1, <1>2, <1>3 DEF SSOInv

\* A step inside the walk concludes nothing; it only has to keep what is known
\* of the identity provider.
LEMMA WalkKeeps ==
  ASSUME SSOInv, Next, WalkStep
  PROVE  SSOInv'
<1>0. stage' # "done" /\ UNCHANGED <<probe, configured, submitted, presented, result>>
  BY DEF WalkStep
<1>1. result = Pending
  <2>1. CASE Start \/ FollowBridge \/ Submit \/ Unwrap \/ Settle
    BY <2>1 DEF Start, FollowBridge, Submit, Unwrap, Settle, SSOInv, WalkInv
  <2>2. CASE Redirect \/ Break \/ Answer \/ Verify
    BY <2>2 DEF Redirect, Break, Answer, Verify, OnTheWire, SSOInv, WalkInv
  <2> QED
    BY <2>1, <2>2 DEF Next
<1>2. UpMeansSignedIn'
  BY <1>0, <1>1, Verdicts DEF UpMeansSignedIn
<1>3. CASE Start
  <2>1. Send("wire", "nothing") /\ UNCHANGED <<hops, submitted, presented, bridges, honest>>
        /\ UNCHANGED <<probe, configured, idp>>
    BY <1>0, <1>3 DEF Start, Finish
  <2>2. TypeOK'
    BY <2>1, Constants, NoPageType DEF Send, TypeOK, SSOInv
  <2>3. WalkInv'
    BY <2>1, <1>0, <1>3 DEF Send, WalkInv, SSOInv, Login, Moodle, Start
  <2> QED
    BY <1>2, <2>2, <2>3 DEF SSOInv
<1>4. CASE Redirect
  <2>1. /\ sent < MaxRedirects /\ sent' = sent + 1 /\ Received /\ stage \in {"wire", "verify"}
        /\ carries' = carries \/ carries' = "nothing"
        /\ posted' = posted + 1 \/ posted' = posted
        /\ UNCHANGED <<probe, configured, stage, page, hops, submitted, result,
                       presented, bridges, honest>>
    BY <1>4 DEF Redirect, OnTheWire, FollowRedirect
  <2>2. TypeOK'
    <3>1. sent' \in 0 .. MaxRedirects
      BY <2>1, Constants DEF TypeOK, SSOInv
    <3>2. posted' \in Nat
      BY <2>1 DEF TypeOK, SSOInv
    <3> QED
      BY <2>1, <3>1, <3>2, ReceivedType DEF TypeOK, SSOInv
  <2>3. WalkInv'
    BY <2>1, ReceivedType DEF WalkInv, SSOInv, Login, Moodle
  <2> QED
    BY <1>2, <2>2, <2>3 DEF SSOInv
<1>5. CASE Answer
  <2>1. PICK p \in Pages : Gated(p, idp') /\ page' = p /\ honest' = (honest /\ Works(p, idp'))
    BY <1>5 DEF Answer
  <2>2. /\ Received /\ stage' = "look" /\ sent' = 0 /\ carries' = "nothing"
        /\ UNCHANGED <<probe, configured, hops, submitted, result, posted, presented, bridges>>
    BY <1>5 DEF Answer
  <2>3. page' \in Page /\ honest' \in BOOLEAN /\ sent' \in 0 .. MaxRedirects
    BY <2>1, <2>2, Constants DEF SSOInv, TypeOK
  <2>4. TypeOK'
    BY <2>2, <2>3, ReceivedType DEF TypeOK, SSOInv
  <2>5. WalkInv'
    BY <2>1, <2>2, <1>0, <1>1, ReceivedType DEF WalkInv, SSOInv, Login, Moodle, Gated
  <2> QED
    BY <1>2, <2>4, <2>5 DEF SSOInv
<1>6. CASE FollowBridge
  <2>1. /\ InBudget /\ NextRound
        /\ \E what \in {"logout", "bridge"} : Send("wire", what)
        /\ bridges' = bridges \/ (bridges < MaxRedirects /\ bridges' = bridges + 1)
        /\ UNCHANGED <<probe, configured, idp, presented, honest, submitted>>
    BY <1>0, <1>6 DEF FollowBridge, AtBridge, Finish
  <2>2. sent' \in 0 .. MaxRedirects /\ hops' \in 0 .. MaxRedirects /\ bridges' \in 0 .. MaxRedirects
    BY <2>1, Constants DEF InBudget, NextRound, Send, TypeOK, SSOInv
  <2>3. TypeOK'
    BY <2>1, <2>2, NoPageType DEF Send, TypeOK, SSOInv
  <2>4. WalkInv'
    BY <2>1, <1>0, <1>1 DEF Send, WalkInv, SSOInv, Login, Moodle
  <2> QED
    BY <1>2, <2>3, <2>4 DEF SSOInv
<1>7. CASE Submit
  <2>1. submitted \in BOOLEAN /\ ~submitted
    BY <1>7 DEF Submit, AtPrompt, SSOInv, TypeOK
  <2> QED
    BY <2>1, <1>0, <1>7 DEF Submit, Finish
<1>8. CASE Unwrap
  <2>1. /\ Send("verify", "token") /\ UNCHANGED <<hops, submitted>>
        /\ UNCHANGED <<probe, configured, idp, presented, bridges, honest>> /\ Moodle
    BY <1>0, <1>8 DEF Unwrap, AtToken, Finish
  <2>2. TypeOK'
    BY <2>1, Constants, NoPageType DEF Send, TypeOK, SSOInv
  <2>3. WalkInv'
    BY <2>1, <1>0, <1>1 DEF Send, WalkInv, SSOInv, Login, Moodle
  <2> QED
    BY <1>2, <2>2, <2>3 DEF SSOInv
<1>9. CASE Break \/ Verify \/ Settle
  BY <1>0, <1>9 DEF Break, Verify, Settle, Finish
<1> QED
  BY <1>3, <1>4, <1>5, <1>6, <1>7, <1>8, <1>9 DEF Next

\* The submission: of a login, the first of its run.
LEMMA SubmitFacts ==
  ASSUME SSOInv, Submit, stage' = "wire"
  PROVE  /\ Login /\ ~submitted /\ stage = "look" /\ result = Pending
         /\ submitted' = TRUE /\ presented' = presented + 1 /\ presented = 0
         /\ Send("wire", "login")
         /\ hops' \in 0 .. MaxRedirects
         /\ UNCHANGED <<probe, configured, idp, bridges, honest>>
<1>1. /\ AtPrompt /\ stage = "look" /\ UNCHANGED <<probe, configured, idp, bridges, honest>>
      /\ submitted' = TRUE /\ presented' = presented + 1 /\ Send("wire", "login")
      /\ hops' = IF Moodle THEN hops + 1 ELSE 0
  BY DEF Submit, Finish
<1>2. ~submitted /\ Login /\ (Moodle => hops < MaxRedirects)
  BY <1>1 DEF AtPrompt, Moodle, Login, InBudget
<1>3. hops' \in 0 .. MaxRedirects
  BY <1>1, <1>2, Constants DEF SSOInv, TypeOK
<1> QED
  BY <1>1, <1>2, <1>3 DEF SSOInv, WalkInv

LEMMA SubmitKeeps ==
  ASSUME SSOInv, Submit, stage' = "wire"
  PROVE  SSOInv'
<1>0. /\ Login /\ result = Pending /\ presented = 0
      /\ stage' = "wire" /\ sent' = 1 /\ carries' = "login" /\ page' = NoPage
      /\ posted' = posted + 1 /\ presented' = presented + 1 /\ submitted' = TRUE
      /\ hops' \in 0 .. MaxRedirects
      /\ UNCHANGED <<probe, configured, idp, bridges, honest, result>>
  BY SubmitFacts DEF Send
<1>1. TypeOK'
  <2>1. sent' \in 0 .. MaxRedirects
    BY <1>0, Constants
  <2>2. posted' \in Nat /\ presented' \in Nat
    BY <1>0 DEF SSOInv, TypeOK
  <2> QED
    BY <1>0, <2>1, <2>2, NoPageType DEF SSOInv, TypeOK
<1>2. WalkInv'
  BY <1>0 DEF SSOInv, WalkInv, Login, Moodle
<1>3. UpMeansSignedIn'
  BY SubmitFacts, Verdicts DEF Send, UpMeansSignedIn
<1> QED
  BY <1>1, <1>2, <1>3 DEF SSOInv

LEMMA StepSSO == SSOInv /\ [Next]_vars => SSOInv'
<1> SUFFICES ASSUME SSOInv, [Next]_vars PROVE SSOInv'
  OBVIOUS
<1>1. CASE Next
  BY <1>1, Steps, EndKeeps, WalkKeeps, SubmitKeeps
<1>2. CASE UNCHANGED vars
  BY <1>2 DEF vars, walk, history, SSOInv, TypeOK, WalkInv, UpMeansSignedIn, Login, Moodle
<1> QED
  BY <1>1, <1>2

THEOREM SSOCorrect == Spec => []SSOInv
BY InitSSO, StepSSO, PTL DEF Spec

\* Every variable of a run keeps its type: whatever the services answer, no
\* call and no loop exceeds its budget.
COROLLARY SSOTypeSafe == Spec => []TypeOK
<1>1. SSOInv => TypeOK
  BY DEF SSOInv
<1> QED
  BY <1>1, SSOCorrect, PTL

\* A login is up only if this run presented the credentials and they were
\* accepted, for any pages and any budget of rounds.
COROLLARY UpOnlySignedIn == Spec => []UpMeansSignedIn
<1>1. SSOInv => UpMeansSignedIn
  BY DEF SSOInv
<1> QED
  BY <1>1, SSOCorrect, PTL

-----------------------------------------------------------------------------
(* The refinement.                                                         *)

LEMMA RunInit == Init => Run!Init
BY Verdicts DEF Init, Run!Init, Login

LEMMA RunStep == SSOInv /\ [Next]_vars => [Run!Next]_Run!vars
<1> SUFFICES ASSUME SSOInv, [Next]_vars PROVE Run!Next \/ UNCHANGED Run!vars
  OBVIOUS
<1>1. CASE EndStep
  <2>1. result = Pending /\ result' # Pending /\ Login' = Login
        /\ result.state = "none" /\ UNCHANGED <<submitted, presented>>
    BY <1>1, Verdicts DEF EndStep, SSOInv, WalkInv, Login
  <2>2. result'.state = "up" => result' = Up
    BY <1>1, <2>1, Verdicts DEF EndStep, Result
  <2>3. submitted \in BOOLEAN
    BY DEF SSOInv, TypeOK
  <2> QED
    BY <1>1, <2>1, <2>2, <2>3 DEF EndStep, Run!Next, Run!Conclude
<1>2. CASE WalkStep
  BY <1>2 DEF WalkStep, Run!vars, Login
<1>3. CASE Submit /\ stage' = "wire"
  <2>1. Login' = Login /\ result' = result
    BY <1>3, SubmitFacts DEF Login, Send
  <2> QED
    BY <1>3, <2>1, SubmitFacts, Verdicts DEF Run!Next, Run!Submit
<1>4. CASE UNCHANGED vars
  BY <1>4 DEF vars, walk, history, Run!vars, Login
<1> QED
  BY <1>1, <1>2, <1>3, <1>4, Steps

\* A run implements LoginRun: it submits credentials once at most, only as a
\* login, and never after its verdict; its verdict is up only after that.
THEOREM RunImplemented == Spec => Run!SafeSpec
BY SSOCorrect, RunInit, RunStep, PTL DEF Spec, Run!SafeSpec

-----------------------------------------------------------------------------
(* A chain that works, and one that comes back to the form.                *)

\* No logout is ever sent; the identity provider has seen what was submitted;
\* no round is lost; and what an honest run looks at is a page that works.
ChainInv ==
  /\ carries # "logout"
  /\ stage = "look" => carries = "nothing"
  /\ submitted => idp # "none" \/ carries = "login"
  /\ stage \in {"start", "wire", "verify"} => page = NoPage
  /\ hops <= bridges + (IF submitted THEN 1 ELSE 0)
  /\ stage = "look" /\ honest => Works(page, idp)

VerdictInv == ChainInv /\ WorkingChainIsUp /\ BackAtTheForm

LEMMA InitChain == Init => VerdictInv
BY Constants DEF Init, VerdictInv, ChainInv, WorkingChainIsUp, BackAtTheForm

\* A credential form is no bridge, whatever it carries; the landing page holds no form.
LEMMA PromptFacts ==
  ASSUME NEW p \in Page, Prompt(p)
  PROVE  /\ p.host = "sso" /\ p.token = "none" /\ FindOIDCBridge(p.forms) = {}
         /\ IsSSOLoginPage(p)
         /\ \A f \in FindLoginForm(p.forms) : f.antiforgery /\ f.action = "post"
         /\ \E f \in FindLoginForm(p.forms) : f.antiforgery
BY DEF Prompt, FindOIDCBridge, FindLoginForm, IsSSOLoginPage

LEMMA LandingFacts ==
  ASSUME NEW p \in Page, Landing(p)
  PROVE  /\ p.host = "service" /\ FindOIDCBridge(p.forms) = {} /\ FindLoginForm(p.forms) = {}
         /\ p.token = IF Moodle THEN "good" ELSE "none"
BY DEF Landing, FindOIDCBridge, FindLoginForm

LEMMA NoPageIsNoPrompt == ~Prompt(NoPage)
BY DEF Prompt, NoPage

\* Facts every step may use.
LEMMA WalkFacts ==
  ASSUME SSOInv, VerdictInv
  PROVE  /\ page \in Page /\ hops \in Nat /\ bridges \in Nat /\ hops <= MaxRedirects
         /\ bridges <= MaxRedirects /\ MaxRedirects \in Nat /\ MaxRedirects >= 1
         /\ idp \in {"none", "accepted", "refused"} /\ submitted \in BOOLEAN /\ honest \in BOOLEAN
         /\ idp # "none" => submitted
         /\ submitted => Login
         /\ bridges <= MaxRedirects - 2 => InBudget
         /\ probe \in {"page", "moodle", "courses"}
<1>1. /\ page \in Page /\ hops \in 0 .. MaxRedirects /\ bridges \in 0 .. MaxRedirects
      /\ idp \in {"none", "accepted", "refused"} /\ submitted \in BOOLEAN /\ honest \in BOOLEAN
      /\ probe \in {"page", "moodle", "courses"}
  BY Constants DEF SSOInv, TypeOK
<1>2. hops <= bridges + 1
  BY <1>1 DEF VerdictInv, ChainInv
<1>3. bridges <= MaxRedirects - 2 => InBudget
  BY <1>1, <1>2, Constants DEF InBudget
<1> QED
  BY <1>1, <1>3, Constants DEF SSOInv, WalkInv

\* What a run may say at a form it has submitted.
RightAtTheForm(r) ==
  IF bridges <= MaxRedirects - 2
  THEN r = Down("sso_redirect_failed")
  ELSE r \in {Down("sso_redirect_failed"), Down("sso_bridge_missing")}

\* What the walk settles on.
LEMMA SettleVerdict ==
  ASSUME SSOInv, VerdictInv, Settle
  PROVE  /\ honest /\ bridges <= MaxRedirects - 2 => result' = Up
         /\ submitted /\ Prompt(page) => RightAtTheForm(result')
<1>0. /\ stage = "look" /\ ~AtToken /\ ~AtBridge /\ ~AtPrompt
      /\ result' = CASE probe = "moodle"  -> MoodleVerdict
                     [] probe = "courses" -> CoursesVerdict
                     [] OTHER             -> PageVerdict
  BY DEF Settle, Finish
<1>1. ASSUME honest, bridges <= MaxRedirects - 2 PROVE result' = Up
  <2>1. InBudget /\ Works(page, idp) /\ page.ok
    BY <1>0, <1>1, WalkFacts DEF VerdictInv, ChainInv, Works
  <2>2. CASE Bridge(page)
    <3>1. FindOIDCBridge(page.forms) # {} /\ page.token = "none" /\ ~IsSSOLoginPage(page)
      BY <2>2 DEF Bridge, IsSSOLoginPage
    <3> QED
      BY <1>0, <2>1, <3>1 DEF AtBridge
  <2>3. CASE idp = "none" /\ Prompt(page)
    <3>1. ~submitted
      BY <1>0, <2>3 DEF VerdictInv, ChainInv
    <3>2. probe = "page"
      BY <1>0, <2>1, <2>3, <3>1, PromptFacts, WalkFacts DEF AtPrompt, AtBridge, Moodle
    <3> QED
      BY <1>0, <2>3, <3>2, PromptFacts, WalkFacts DEF PageVerdict
  <2>4. CASE idp = "accepted" /\ Landing(page)
    <3>1. submitted /\ Login /\ page.host = "service" /\ page.token = IF Moodle THEN "good" ELSE "none"
      BY <2>4, WalkFacts, LandingFacts
    <3>2. ~Moodle
      BY <1>0, <2>1, <3>1 DEF AtToken
    <3>3. probe = "courses"
      BY <3>1, <3>2, WalkFacts DEF Moodle, Login
    <3> QED
      BY <1>0, <2>1, <3>1, <3>3 DEF CoursesVerdict
  <2> QED
    BY <2>1, <2>2, <2>3, <2>4 DEF Works
<1>2. ASSUME submitted, Prompt(page) PROVE RightAtTheForm(result')
  <2>1. page.host = "sso" /\ (probe = "moodle" \/ probe = "courses")
    BY <1>2, WalkFacts, PromptFacts DEF Login
  <2>2. bridges <= MaxRedirects - 2 => InBudget
    BY WalkFacts
  <2>3. \/ result' = Down("sso_redirect_failed")
        \/ ~InBudget /\ result' = Down("sso_bridge_missing")
    BY <1>0, <1>2, <2>1 DEF MoodleVerdict, CoursesVerdict
  <2> QED
    BY <2>2, <2>3 DEF RightAtTheForm
<1> QED
  BY <1>1, <1>2

\* A step that ends the run: without honesty, or with the right verdict.
LEMMA EndVerdict ==
  ASSUME SSOInv, VerdictInv, Next, EndStep
  PROVE  VerdictInv'
<1>0. /\ UNCHANGED <<probe, configured, carries, page, hops, submitted, idp, bridges>>
      /\ stage' = "done"
  BY DEF EndStep
<1>1. ChainInv'
  BY <1>0 DEF VerdictInv, ChainInv
<1> SUFFICES /\ honest' /\ bridges <= MaxRedirects - 2 /\ (Login => configured) => result' = Up
             /\ submitted /\ Prompt(page) => RightAtTheForm(result')
  BY <1>0, <1>1 DEF VerdictInv, WorkingChainIsUp, BackAtTheForm, RightAtTheForm, Login, Prompt
<1>2. CASE Start
  BY <1>0, <1>2, NoPageIsNoPrompt DEF Start, Send, VerdictInv, ChainInv
<1>3. CASE Break \/ Verify
  BY <1>3, NoPageIsNoPrompt DEF Break, Verify, Finish, OnTheWire, VerdictInv, ChainInv
<1>4. CASE FollowBridge
  <2>1. PICK f \in FindOIDCBridge(page.forms) : f.action = "malformed"
    BY <1>0, <1>4 DEF FollowBridge, Send
  <2>2. ~Prompt(page) /\ stage = "look" /\ honest' = honest
    BY <1>4, <2>1, PromptFacts, WalkFacts DEF FollowBridge
  <2>3. ~Landing(page)
    BY <2>1, LandingFacts, WalkFacts
  <2>4. ~Bridge(page)
    BY <2>1 DEF Bridge, FindOIDCBridge
  <2>5. ~honest
    BY <2>2, <2>3, <2>4 DEF VerdictInv, ChainInv, Works
  <2> QED
    BY <2>2, <2>5
<1>5. CASE Submit
  <2>1. PICK f \in FindLoginForm(page.forms) : f.action = "malformed"
    BY <1>0, <1>5 DEF Submit, Send
  <2>2. ~submitted /\ stage = "look" /\ honest' = honest
    BY <1>5 DEF Submit, AtPrompt
  <2>3. ~Landing(page) /\ ~Prompt(page) /\ ~Bridge(page)
    BY <2>1, LandingFacts, PromptFacts, WalkFacts DEF Bridge
  <2>4. ~honest
    BY <2>2, <2>3 DEF VerdictInv, ChainInv, Works
  <2> QED
    BY <2>2, <2>4
<1>6. CASE Unwrap
  <2>1. Moodle /\ page.token = "malformed" /\ stage = "look" /\ honest' = honest
    BY <1>0, <1>6 DEF Unwrap, AtToken, Send
  <2>2. ~Landing(page) /\ ~Prompt(page) /\ ~Bridge(page)
    BY <2>1, LandingFacts, PromptFacts, WalkFacts DEF Bridge
  <2>3. ~honest
    BY <2>1, <2>2 DEF VerdictInv, ChainInv, Works
  <2> QED
    BY <2>1, <2>2, <2>3
<1>7. CASE Settle
  BY <1>7, SettleVerdict DEF Settle, history
<1>8. CASE Redirect \/ Answer
  BY <1>0, <1>8 DEF Redirect, Answer, OnTheWire
<1> QED
  BY <1>2, <1>3, <1>4, <1>5, <1>6, <1>7, <1>8 DEF Next

\* A request sent, followed or answered leaves no verdict to judge.
LEMMA WalkVerdict ==
  ASSUME SSOInv, VerdictInv, Next, WalkStep
  PROVE  VerdictInv'
<1>0. /\ stage' # "done" /\ UNCHANGED <<probe, configured, submitted, presented, result>>
      /\ (submitted => idp # "none" \/ carries = "login") /\ carries # "logout"
      /\ hops <= bridges + (IF submitted THEN 1 ELSE 0)
  BY DEF WalkStep, VerdictInv, ChainInv
<1> SUFFICES ChainInv'
  BY <1>0 DEF VerdictInv, WorkingChainIsUp, BackAtTheForm
<1>1. ASSUME Received PROVE submitted => idp' # "none"
  BY <1>0, <1>1 DEF Received
<1>2. CASE Start
  <2>1. Send("wire", "nothing") /\ UNCHANGED <<hops, bridges, idp>> /\ stage = "start"
    BY <1>0, <1>2 DEF Start, Finish
  <2>2. ~submitted
    BY <2>1 DEF SSOInv, WalkInv
  <2> QED
    BY <1>0, <2>1, <2>2 DEF Send, ChainInv
<1>3. CASE Redirect
  <2>1. /\ Received /\ stage \in {"wire", "verify"} /\ page = NoPage
        /\ carries' \in {carries, "nothing"}
        /\ UNCHANGED <<stage, page, hops, bridges>>
    BY <1>3 DEF Redirect, OnTheWire, VerdictInv, ChainInv
  <2> QED
    BY <1>0, <1>1, <2>1 DEF ChainInv
<1>4. CASE Answer
  <2>1. PICK p \in Pages : page' = p /\ honest' = (honest /\ Works(p, idp'))
    BY <1>4 DEF Answer
  <2>2. Received /\ stage' = "look" /\ carries' = "nothing" /\ UNCHANGED <<hops, bridges>>
    BY <1>4 DEF Answer
  <2>3. honest' => Works(page, idp)'
    BY <1>0, <2>1 DEF Works, Bridge, Prompt, Landing, Moodle
  <2> QED
    BY <1>0, <1>1, <2>2, <2>3 DEF ChainInv
<1>5. CASE FollowBridge
  <2>1. PICK f \in FindOIDCBridge(page.forms) :
          /\ Send("wire", IF f.action = "logout" THEN "logout" ELSE "bridge")
          /\ NextRound
          /\ bridges' = IF bridges < MaxRedirects /\ ~Prompt(page) THEN bridges + 1 ELSE bridges
    BY <1>0, <1>5 DEF FollowBridge, Finish
  <2>2. f.action # "logout"
    BY DEF FindOIDCBridge
  <2>3. stage' = "wire" /\ carries' = "bridge" /\ page' = NoPage
    BY <2>1, <2>2 DEF Send
  <2>4. hops' <= bridges' + (IF submitted THEN 1 ELSE 0)
    <3>1. hops' = hops + 1 /\ hops < MaxRedirects
      BY <1>5, <2>1 DEF NextRound, FollowBridge, AtBridge, InBudget
    <3>2. ~Prompt(page)
      BY PromptFacts, WalkFacts
    <3> QED
      BY <1>0, <2>1, <3>1, <3>2, WalkFacts
  <2>5. submitted => (idp # "none")'
    BY <1>0, <1>5 DEF FollowBridge, VerdictInv, ChainInv
  <2> QED
    BY <1>0, <2>3, <2>4, <2>5 DEF ChainInv
<1>6. CASE Submit
  <2>1. ~submitted /\ submitted \in BOOLEAN
    BY <1>6, WalkFacts DEF Submit, AtPrompt
  <2> QED
    BY <1>0, <1>6, <2>1 DEF Submit, Finish
<1>7. CASE Unwrap
  <2>1. Send("verify", "token") /\ UNCHANGED <<hops, bridges, idp>> /\ stage = "look"
    BY <1>0, <1>7 DEF Unwrap, Finish
  <2>2. submitted => (idp # "none")'
    BY <2>1 DEF VerdictInv, ChainInv
  <2> QED
    BY <1>0, <2>1, <2>2 DEF Send, ChainInv
<1>8. CASE Break \/ Verify \/ Settle
  BY <1>0, <1>8 DEF Break, Verify, Settle, Finish
<1> QED
  BY <1>2, <1>3, <1>4, <1>5, <1>6, <1>7, <1>8 DEF Next

LEMMA SubmitVerdict ==
  ASSUME SSOInv, VerdictInv, Submit, stage' = "wire"
  PROVE  VerdictInv'
<1>1. /\ carries' = "login" /\ page' = NoPage /\ submitted' = TRUE
      /\ bridges' = bridges /\ ~submitted
  BY SubmitFacts DEF Send
<1>2. hops' = hops + 1 \/ hops' = 0
  BY DEF Submit, Finish
<1>3. hops' <= bridges' + 1
  BY <1>1, <1>2, WalkFacts DEF VerdictInv, ChainInv
<1> QED
  BY <1>1, <1>3 DEF VerdictInv, ChainInv, WorkingChainIsUp, BackAtTheForm

LEMMA StepVerdict == SSOInv /\ VerdictInv /\ [Next]_vars => VerdictInv'
<1> SUFFICES ASSUME SSOInv, VerdictInv, [Next]_vars PROVE VerdictInv'
  OBVIOUS
<1>1. CASE Next
  BY <1>1, Steps, EndVerdict, WalkVerdict, SubmitVerdict
<1>2. CASE UNCHANGED vars
  BY <1>2 DEF vars, walk, history, VerdictInv, ChainInv, WorkingChainIsUp, BackAtTheForm,
              Works, Bridge, Prompt, Landing, Moodle, Login
<1> QED
  BY <1>1, <1>2

THEOREM VerdictCorrect == Spec => []VerdictInv
BY SSOCorrect, InitChain, StepVerdict, PTL DEF Spec

\* A working chain that leaves room for the sign-in is reported up, whatever
\* the pages on its way also carry and for any budget of rounds.
COROLLARY WorkingChainReported == Spec => []WorkingChainIsUp
<1>1. VerdictInv => WorkingChainIsUp
  BY DEF VerdictInv
<1> QED
  BY <1>1, VerdictCorrect, PTL

\* The credential form seen again after the submission is never a verdict on the
\* credentials, for any number of bridges and any budget of rounds, and is a
\* failed redirect when the bridges leave the two rounds to sign in and to look.
COROLLARY FormAgainIsRedirect == Spec => []BackAtTheForm
<1>1. VerdictInv => BackAtTheForm
  BY DEF VerdictInv
<1> QED
  BY <1>1, VerdictCorrect, PTL
=============================================================================
