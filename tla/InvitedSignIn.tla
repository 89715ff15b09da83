---- MODULE InvitedSignIn ----
(***************************************************************************)
(* A browser opens an invitation link: AuthProvider reads the session and  *)
(* the invitation, signs another account out, has a login code mailed to   *)
(* the invited address, signs in with it and accepts. The page's effect    *)
(* runs again whenever one of its dependencies has changed, and each run   *)
(* gives up what an earlier one still waits for. Behind it is the server's *)
(* side: login codes, the session and the invitation.                      *)
(***************************************************************************)
EXTENDS Naturals, FiniteSets

CONSTANTS
  Users, Invitee,   \* accounts by address; the invited one
  Nobody,
  Codes,            \* the login codes that may be created
  Chains,           \* runs of the effect that are not over
  MaxVisits, MaxAsks, MaxFaults    \* bounds

ASSUME SignInAssumption ==
  Invitee \in Users /\ Nobody \notin Users

VARIABLES
  page,          \* the state of AuthProvider
  dirty,         \* a dependency of the effect has changed since it ran
  chain,         \* the runs of the effect
  submit,        \* the code that is being submitted
  codes,         \* email_login_codes; a mailed code is known to its user
  cookie,        \* the session of the browser's cookie
  link,
  grants,        \* history: the sessions each code has opened
  mailed, failed,    \* history: codes mailed by the effect in this visit, its failures
  visits, asks, faults

server == <<codes, cookie, link, grants>>
bounds == <<visits, asks, faults>>
signInVars == <<page, dirty, chain, submit, server, mailed, failed, bounds>>

Over == [step |-> "over", mounted |-> FALSE]

NotSubmitted == [step |-> "idle"]

Submission == [step : {"login", "consumed", "accept"}, code : Codes, invite : BOOLEAN]

PageState ==
  [loading : BOOLEAN, session : Users \union {Nobody}, invite : BOOLEAN,
   preview : {"none", "available", "gone"}, previewLoading : BOOLEAN,
   auto : BOOLEAN, email : Users \union {Nobody}, error : BOOLEAN]

EffectRun == [step : {"preview", "logout", "code", "over"}, mounted : BOOLEAN]

CodeRow == [state : {"none", "lost", "open", "used"}, user : Users \union {Nobody}]

SignInTypeOK ==
  /\ page \in PageState
  /\ dirty \in BOOLEAN
  /\ chain \in [Chains -> EffectRun]
  /\ \A c, d \in Chains : chain[c].mounted /\ chain[d].mounted => c = d
  /\ submit \in Submission \union {NotSubmitted}
  /\ codes \in [Codes -> CodeRow]
  /\ cookie \in [user : Users \union {Nobody}, live : BOOLEAN]
  /\ link \in {"open", "accepted", "revoked"}
  /\ grants \in [Codes -> Nat]
  /\ {mailed, failed, visits, asks, faults} \subseteq Nat

Loaded(invite) ==
  [loading |-> TRUE, session |-> Nobody, invite |-> invite, preview |-> "none",
   previewLoading |-> invite, auto |-> FALSE, email |-> Nobody, error |-> FALSE]

SignInInit ==
  /\ page = Loaded(TRUE) /\ dirty = FALSE
  /\ chain = [c \in Chains |-> Over]
  /\ submit = NotSubmitted
  /\ codes = [n \in Codes |-> [state |-> "none", user |-> Nobody]]
  /\ cookie \in {[user |-> Nobody, live |-> FALSE]} \union [user : Users, live : {TRUE}]
  /\ link = "open"
  /\ grants = [n \in Codes |-> 0]
  /\ mailed = 0 /\ failed = 0
  /\ visits = 1 /\ asks = 0 /\ faults = 0

Account == IF cookie.live THEN cookie.user ELSE Nobody

Fault == faults < MaxFaults /\ faults' = faults + 1

-----------------------------------------------------------------------------
(* The server: POST email-code, login, logout and accept.                  *)

\* createLoginCode() and sendLoginCode(): a code that is not mailed stays.
NewCode(user, state) ==
  LET n == CHOOSE n \in Codes : codes[n].state = "none"
  IN codes' = [codes EXCEPT ![n] = [state |-> state, user |-> user]]

CodesLeft == \E n \in Codes : codes[n].state = "none"

\* Bug: a code is good until it expires.
OpenAnyway(n) == codes[n].state \in {"open", "used"}

\* The WHERE clause of consumeLoginCode().
Open(n) == codes[n].state = "open"

SignedOut == [cookie EXCEPT !.live = FALSE]

\* The user submits a code in another browser.
SignInElsewhere(n) ==
  /\ Open(n)
  /\ codes' = [codes EXCEPT ![n].state = "used"]
  /\ grants' = [grants EXCEPT ![n] = @ + 1]
  /\ asks < MaxAsks /\ asks' = asks + 1
  /\ UNCHANGED <<page, dirty, chain, submit, cookie, link, mailed, failed, visits, faults>>

\* An administrator revokes the invitation.
Revoke ==
  /\ link = "open" /\ link' = "revoked"
  /\ UNCHANGED <<page, dirty, chain, submit, codes, cookie, grants, mailed, failed, bounds>>

-----------------------------------------------------------------------------
(* The page is opened and its effects run.                                 *)

Visit ==
  /\ visits < MaxVisits /\ visits' = visits + 1
  /\ page' = Loaded(TRUE) /\ dirty' = FALSE
  /\ chain' = [c \in Chains |-> Over] /\ submit' = NotSubmitted
  /\ mailed' = 0 /\ failed' = 0
  /\ UNCHANGED <<server, asks, faults>>

\* getMe() returns, or fails.
GetMe ==
  /\ page.loading
  /\ dirty' = TRUE
  /\ \/ /\ page' = [page EXCEPT !.loading = FALSE, !.session = Account]
        /\ UNCHANGED bounds
     \/ /\ Fault /\ page' = [page EXCEPT !.loading = FALSE, !.error = TRUE]
        /\ UNCHANGED <<visits, asks>>
  /\ UNCHANGED <<chain, submit, server, mailed, failed>>

\* The effect's cleanup, and its next run.
Unmounted == [c \in Chains |-> [chain[c] EXCEPT !.mounted = FALSE]]

Preview(effects) ==
  \E c \in Chains :
    /\ chain[c].step = "over"
    /\ chain' = [effects EXCEPT ![c] = [step |-> "preview", mounted |-> TRUE]]
    /\ page' = [page EXCEPT !.previewLoading = TRUE]

\* Bug: the effect has no cleanup.
RunEffectAgain == IF page.invite /\ ~ page.loading THEN Preview(chain) ELSE UNCHANGED <<chain, page>>

\* Bug: the invitation is not read again once a code was asked for.
RunEffectOnce ==
  IF page.invite /\ ~ page.loading /\ ~ page.auto THEN Preview(Unmounted)
  ELSE chain' = Unmounted /\ UNCHANGED page

RunEffect ==
  IF ~ page.invite
  THEN /\ page' = [page EXCEPT !.preview = "none", !.previewLoading = FALSE]
       /\ chain' = Unmounted
  ELSE IF page.loading
  THEN chain' = Unmounted /\ UNCHANGED page
  ELSE Preview(Unmounted)

Render ==
  /\ dirty /\ dirty' = FALSE
  /\ RunEffect
  /\ UNCHANGED <<submit, server, mailed, failed, bounds>>

End(c) == chain' = [chain EXCEPT ![c] = Over]

Await(c, step) == chain' = [chain EXCEPT ![c].step = step]

\* Bug: a code is mailed by every run of the effect.
AskAlways == page.preview # "gone"

\* autoCodeRequestedInviteToken !== inviteToken
NotAsked == ~ page.auto

\* getInvitationPreview() returns.
Previewed(c) ==
  LET preview == IF link = "open" THEN "available" ELSE "gone"
      other == page.session \notin {Nobody, Invitee}
  IN /\ chain[c].step = "preview"
     /\ IF ~ chain[c].mounted
        THEN End(c) /\ UNCHANGED <<page, dirty>>
        ELSE IF preview = "available" /\ NotAsked
        THEN /\ page' = [page EXCEPT !.preview = preview, !.auto = TRUE]
             /\ dirty' = TRUE
             /\ Await(c, IF other THEN "logout" ELSE "code")
        ELSE /\ page' = [page EXCEPT !.preview = preview, !.previewLoading = FALSE]
             /\ End(c) /\ UNCHANGED dirty
     /\ UNCHANGED <<submit, server, mailed, failed, bounds>>

\* The other account is signed out.
LoggedOut(c) ==
  /\ chain[c].step = "logout"
  /\ cookie' = SignedOut
  /\ IF chain[c].mounted
     THEN /\ page' = [page EXCEPT !.session = Nobody]
          /\ dirty' = TRUE /\ Await(c, "code")
     ELSE End(c) /\ UNCHANGED <<page, dirty>>
  /\ UNCHANGED <<submit, codes, link, grants, mailed, failed, bounds>>

\* requestEmailCode() returns: the page asks for the code.
CodeMailed(c) ==
  /\ chain[c].step = "code" /\ CodesLeft
  /\ NewCode(Invitee, "open")
  /\ mailed' = mailed + 1
  /\ page' = IF chain[c].mounted
             THEN [page EXCEPT !.email = Invitee, !.previewLoading = FALSE] ELSE page
  /\ End(c)
  /\ UNCHANGED <<dirty, submit, cookie, link, grants, failed, bounds>>

\* One of the requests fails, before or after the server has done its part.
ChainFails(c) ==
  /\ chain[c].step \in {"preview", "logout", "code"} /\ Fault
  /\ failed' = failed + 1
  /\ \/ UNCHANGED <<codes, cookie, mailed>>
     \/ /\ chain[c].step = "logout" /\ cookie' = SignedOut
        /\ UNCHANGED <<codes, mailed>>
     \/ /\ chain[c].step = "code" /\ CodesLeft
        /\ \/ NewCode(Invitee, "lost") /\ UNCHANGED mailed
           \/ NewCode(Invitee, "open") /\ mailed' = mailed + 1
        /\ UNCHANGED cookie
  /\ IF chain[c].mounted
     THEN /\ page' = [page EXCEPT !.error = TRUE, !.previewLoading = FALSE,
                                  !.auto = IF chain[c].step = "preview" THEN @ ELSE FALSE]
          /\ dirty' = (dirty \/ page'.auto # page.auto)
     ELSE UNCHANGED <<page, dirty>>
  /\ End(c)
  /\ UNCHANGED <<submit, link, grants, visits, asks>>

-----------------------------------------------------------------------------
(* What the user does on the pages that are shown.                         *)

ShowsVerify ==
  /\ ~ page.loading /\ page.email # Nobody
  /\ IF page.invite THEN page.preview # "gone" ELSE page.session = Nobody

ShowsLogin == ~ page.loading /\ ~ page.invite /\ page.session = Nobody /\ page.email = Nobody

ShowsStatus ==
  /\ ~ page.loading /\ page.invite /\ page.preview = "gone"
  /\ page.previewLoading => page.email # Nobody

ShowsConsole == ~ page.loading /\ ~ page.invite /\ page.session # Nobody

\* LoginPage: an address is entered.
AskForCode(u) ==
  /\ ShowsLogin /\ submit = NotSubmitted /\ CodesLeft
  /\ asks < MaxAsks /\ asks' = asks + 1
  /\ NewCode(u, "open")
  /\ page' = [page EXCEPT !.email = u, !.error = FALSE]
  /\ UNCHANGED <<dirty, chain, submit, cookie, link, grants, mailed, failed, visits, faults>>

\* The page's request fails, before or after the server has made the code.
CodeRequestFails(u) ==
  /\ ShowsLogin /\ submit = NotSubmitted /\ CodesLeft /\ Fault
  /\ asks < MaxAsks /\ asks' = asks + 1
  /\ UNCHANGED codes \/ \E state \in {"lost", "open"} : NewCode(u, state)
  /\ page' = [page EXCEPT !.error = TRUE]
  /\ UNCHANGED <<dirty, chain, submit, cookie, link, grants, mailed, failed, visits>>

\* VerifyCodePage: a code that was mailed to the address is entered.
Submit(n) ==
  /\ ShowsVerify /\ submit = NotSubmitted
  /\ codes[n].state \in {"open", "used"} /\ codes[n].user = page.email
  /\ submit' = [step |-> "login", code |-> n, invite |-> page.invite]
  /\ page' = [page EXCEPT !.error = FALSE]
  /\ UNCHANGED <<dirty, chain, server, mailed, failed, bounds>>

Rejected ==
  /\ submit' = NotSubmitted
  /\ page' = [page EXCEPT !.error = TRUE]

\* POST /api/auth/login: consumeLoginCode(),
Consume ==
  LET n == submit.code
  IN /\ submit.step = "login"
     /\ IF Open(n)
        THEN /\ codes' = [codes EXCEPT ![n].state = "used"]
             /\ submit' = [submit EXCEPT !.step = "consumed"] /\ UNCHANGED page
        ELSE Rejected /\ UNCHANGED codes
     /\ UNCHANGED <<dirty, chain, cookie, link, grants, mailed, failed, bounds>>

\* then upsertUserForEmail(), createSession() and the cookie.
CreateSession ==
  LET n == submit.code
  IN /\ submit.step = "consumed"
     /\ grants' = [grants EXCEPT ![n] = @ + 1]
     /\ cookie' = [user |-> codes[n].user, live |-> TRUE]
     /\ IF submit.invite
        THEN submit' = [submit EXCEPT !.step = "accept"] /\ UNCHANGED <<page, dirty>>
        ELSE /\ submit' = NotSubmitted
             /\ page' = [page EXCEPT !.session = codes[n].user]
             /\ dirty' = TRUE
     /\ UNCHANGED <<chain, codes, link, mailed, failed, bounds>>

\* acceptInvitation(): then only the session is shown.
Accept ==
  /\ submit.step = "accept"
  /\ IF link = "open" /\ Account = Invitee
     THEN /\ link' = "accepted"
          /\ page' = [page EXCEPT !.invite = FALSE, !.email = Nobody, !.session = Invitee]
          /\ submit' = NotSubmitted /\ dirty' = TRUE
     ELSE Rejected /\ UNCHANGED <<link, dirty>>
  /\ UNCHANGED <<chain, codes, cookie, grants, mailed, failed, bounds>>

\* A request of the submission fails; a code that is consumed stays so.
SubmitFails ==
  /\ submit # NotSubmitted /\ Fault
  /\ Rejected
  /\ UNCHANGED <<dirty, chain, server, mailed, failed, visits, asks>>

\* "Not now", "another address" or "back to the login": a submission goes on.
Back ==
  /\ ShowsVerify \/ ShowsStatus
  /\ page' = [page EXCEPT !.error = FALSE, !.email = Nobody, !.invite = FALSE]
  /\ dirty' = (dirty \/ page.invite)
  /\ UNCHANGED <<chain, submit, server, mailed, failed, bounds>>

Logout ==
  /\ ShowsConsole
  /\ asks < MaxAsks /\ asks' = asks + 1
  /\ cookie' = SignedOut
  /\ page' = [page EXCEPT !.session = Nobody, !.email = Nobody]
  /\ dirty' = TRUE
  /\ UNCHANGED <<chain, submit, codes, link, grants, mailed, failed, visits, faults>>

-----------------------------------------------------------------------------
Responses ==
  \/ \E c \in Chains : Previewed(c) \/ LoggedOut(c) \/ CodeMailed(c)
  \/ Consume \/ CreateSession \/ Accept

SignInNext ==
  \/ Visit \/ GetMe \/ Render \/ Responses
  \/ \E c \in Chains : ChainFails(c)
  \/ SubmitFails \/ Back \/ Logout \/ Revoke
  \/ \E u \in Users : AskForCode(u) \/ CodeRequestFails(u)
  \/ \E n \in Codes : Submit(n) \/ SignInElsewhere(n)

\* Requests are answered and changed state is rendered; the user need do nothing.
SignInSpec ==
  /\ SignInInit /\ [][SignInNext]_signInVars
  /\ WF_signInVars(GetMe) /\ WF_signInVars(Render)
  /\ \A c \in Chains : WF_signInVars(Previewed(c) \/ LoggedOut(c) \/ CodeMailed(c))
  /\ WF_signInVars(Consume \/ CreateSession \/ Accept)

-----------------------------------------------------------------------------
(* A login code opens one session, also when it is submitted in two        *)
(* browsers or again after an answer was lost.                             *)
CodeSignsInOnce == \A n \in Codes : grants[n] <= 1

(* A visit of the link mails one code, however often the effect runs; only *)
(* a request that failed is made again.                                    *)
OneCodePerVisit == mailed <= 1 + failed

(* The page does not stay on "loading" for the session or the invitation.  *)
LoadingEnds == <>[](~ page.loading /\ (page.previewLoading => page.email # Nobody))

(* Who is invited gets to enter the code, or is told why not               *)
(* (docs/product/auth-and-access-spec.md:110).                             *)
InviteReachesCode ==
  <>(page.email # Nobody \/ page.error \/ page.preview = "gone" \/ ~ page.invite)

====
