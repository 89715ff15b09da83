--------------------------- MODULE AccountsProofs ----------------------------
(***************************************************************************)
(* For any number of users, codes, visits and failures: a login code opens *)
(* one session, and a visit of an invitation link mails one code and one   *)
(* more for each failure.  The properties of OrganizationMembership hold   *)
(* for any number of users, invitations and requests.                      *)
(***************************************************************************)
EXTENDS InvitedSignIn, OrganizationMembership, FiniteSetTheorems, TLAPS

(* An invitation link and its login codes.                                 *)

(* A code is spent before its session is opened, and opens no other: while *)
(* the login that has consumed it is under way it has opened none.         *)
Consumed(n) == submit \in Submission /\ submit.step = "consumed" /\ submit.code = n

CodesAreSpent ==
  \A n \in Codes :
    /\ grants[n] <= 1
    /\ codes[n].state # "used" \/ Consumed(n) => grants[n] = 0
    /\ Consumed(n) => codes[n].state = "used"

(* The runs of the effect that will still ask for a code.                  *)
Asking == {c \in Chains : chain[c].step \in {"logout", "code"}}

(* Every code that was mailed or is still asked for was claimed by setting *)
(* autoCodeRequestedInviteToken, which is only set back by a failure.      *)
AskedOnce ==
  /\ IsFiniteSet(Asking)
  /\ mailed + Cardinality(Asking) <= failed + (IF page.auto THEN 1 ELSE 0)

SignInInv == SignInTypeOK /\ CodesAreSpent /\ AskedOnce

(* A failed request, or none: what Fault and the bounds leave of the types. *)
LEMMA BoundsType ==
  ASSUME SignInTypeOK
  PROVE  /\ Fault => faults' \in Nat
         /\ page \in PageState /\ codes \in [Codes -> CodeRow]
         /\ mailed \in Nat /\ failed \in Nat /\ visits \in Nat /\ asks \in Nat /\ faults \in Nat
  BY DEF SignInTypeOK, Fault

LEMMA NewCodeType ==
  ASSUME SignInTypeOK, CodesLeft, NEW u \in Users, NEW s \in {"lost", "open"}, NewCode(u, s)
  PROVE  /\ codes' \in [Codes -> CodeRow]
         /\ \E n \in Codes : /\ codes[n].state = "none" /\ codes'[n].state # "used"
                             /\ \A k \in Codes : k # n => codes'[k] = codes[k]
<1> DEFINE n == CHOOSE n \in Codes : codes[n].state = "none"
<1>1. n \in Codes /\ codes[n].state = "none"
  BY DEF CodesLeft
<1>2. codes' = [codes EXCEPT ![n] = [state |-> s, user |-> u]]
  BY DEF NewCode
<1> HIDE DEF n
<1>3. codes \in [Codes -> CodeRow] /\ [state |-> s, user |-> u] \in CodeRow
  BY DEF SignInTypeOK, CodeRow
<1>4. QED
  BY <1>1, <1>2, <1>3

LEMMA UnmountedType ==
  ASSUME SignInTypeOK
  PROVE  /\ Unmounted \in [Chains -> EffectRun]
         /\ \A c \in Chains : ~ Unmounted[c].mounted /\ Unmounted[c].step = chain[c].step
  BY DEF SignInTypeOK, Unmounted, EffectRun

(* The effect is run again: at most one run is mounted, and none asks for  *)
(* a code yet.                                                             *)
LEMMA RunEffectStep ==
  ASSUME SignInTypeOK, RunEffect
  PROVE  /\ page' \in PageState /\ page'.auto = page.auto
         /\ chain' \in [Chains -> EffectRun]
         /\ \A c, d \in Chains : chain'[c].mounted /\ chain'[d].mounted => c = d
         /\ Asking' = Asking
<1>1. page \in PageState
  BY DEF SignInTypeOK
<1>2. CASE /\ chain' = Unmounted
           /\ \/ UNCHANGED page
              \/ page' = [page EXCEPT !.preview = "none", !.previewLoading = FALSE]
  BY <1>1, <1>2, UnmountedType, ZenonT(60) DEF PageState, Asking
<1>3. CASE Preview(Unmounted)
  <2>1. PICK c \in Chains : /\ chain[c].step = "over"
                            /\ chain' = [Unmounted EXCEPT ![c] = [step |-> "preview", mounted |-> TRUE]]
                            /\ page' = [page EXCEPT !.previewLoading = TRUE]
    BY <1>3 DEF Preview
  <2>2. [step |-> "preview", mounted |-> TRUE] \in EffectRun
    BY DEF EffectRun
  <2>3. QED
    BY <1>1, <2>1, <2>2, UnmountedType DEF PageState, Asking
<1>4. QED
  BY <1>2, <1>3 DEF RunEffect

(* A run of the effect ends or goes on to its next request.                *)
LEMMA EndStep ==
  ASSUME SignInTypeOK, NEW c \in Chains, End(c)
  PROVE  /\ chain' \in [Chains -> EffectRun]
         /\ \A d, e \in Chains : chain'[d].mounted /\ chain'[e].mounted => d = e
         /\ Asking' = Asking \ {c}
<1>1. chain \in [Chains -> EffectRun] /\ Over \in EffectRun /\ chain' = [chain EXCEPT ![c] = Over]
  BY DEF SignInTypeOK, Over, EffectRun, End
<1>2. QED
  BY <1>1 DEF SignInTypeOK, Over, Asking

LEMMA AwaitStep ==
  ASSUME SignInTypeOK, NEW c \in Chains, NEW s \in {"logout", "code"}, Await(c, s)
  PROVE  /\ chain' \in [Chains -> EffectRun]
         /\ \A d, e \in Chains : chain'[d].mounted /\ chain'[e].mounted => d = e
         /\ Asking' = Asking \union {c}
<1>1. chain \in [Chains -> EffectRun] /\ chain' = [chain EXCEPT ![c].step = s]
  BY DEF SignInTypeOK, Await
<1>2. /\ chain' \in [Chains -> EffectRun]
      /\ \A d \in Chains : chain'[d].mounted = chain[d].mounted
      /\ chain'[c].step = s /\ \A d \in Chains : d # c => chain'[d] = chain[d]
  BY <1>1 DEF EffectRun
<1>3. QED
  BY <1>2 DEF SignInTypeOK, Asking

(* Every action, by what it does to the page, the runs and the codes.      *)
LEMMA SignInTypeStep ==
  ASSUME SignInTypeOK, SignInNext PROVE SignInTypeOK'
<1> USE BoundsType, SignInAssumption
<1>0. /\ Account \in Users \union {Nobody}
      /\ SignedOut \in [user : Users \union {Nobody}, live : BOOLEAN]
  BY DEF SignInTypeOK, Account, SignedOut
<1>1. CASE Visit
  <2>1. Loaded(TRUE) \in PageState /\ Over \in EffectRun
    BY DEF Loaded, PageState, Over, EffectRun
  <2>2. /\ page' = Loaded(TRUE) /\ dirty' = FALSE /\ submit' = NotSubmitted
        /\ chain' = [c \in Chains |-> Over]
        /\ mailed' = 0 /\ failed' = 0 /\ visits' = visits + 1
        /\ UNCHANGED <<codes, cookie, link, grants, asks, faults>>
    BY <1>1 DEF Visit, server
  <2>3. QED
    <3>1. /\ chain' \in [Chains -> EffectRun]
          /\ \A c, d \in Chains : chain'[c].mounted /\ chain'[d].mounted => c = d
      BY <2>1, <2>2 DEF Over
    <3>2. {mailed', failed', visits', asks', faults'} \subseteq Nat
      BY <2>2
    <3>3. dirty' \in BOOLEAN /\ page' \in PageState
      BY <2>1, <2>2
    <3>4. QED
      BY <2>2, <3>1, <3>2, <3>3 DEF SignInTypeOK
<1>2. CASE GetMe
  <2>1. page' \in PageState /\ dirty' \in BOOLEAN /\ {visits', asks', faults'} \subseteq Nat
    BY <1>0, <1>2, ZenonT(60) DEF GetMe, PageState, bounds
  <2>2. QED
    BY <1>2, <2>1 DEF GetMe, SignInTypeOK, server
<1>3. CASE Render
  <2>1. RunEffect /\ dirty' \in BOOLEAN /\ UNCHANGED <<submit, server, mailed, failed, bounds>>
    BY <1>3 DEF Render
  <2>2. QED
    BY <2>1, RunEffectStep DEF SignInTypeOK, server, bounds
<1>4. ASSUME NEW c \in Chains, Previewed(c) PROVE SignInTypeOK'
  <2>1. /\ page' \in PageState /\ dirty' \in BOOLEAN
        /\ End(c) \/ Await(c, "logout") \/ Await(c, "code")
        /\ UNCHANGED <<submit, server, mailed, failed, bounds>>
    <3>1. page' \in PageState
      BY <1>4, ZenonT(60) DEF Previewed, PageState
    <3>2. dirty' \in BOOLEAN
      BY <1>4 DEF Previewed, SignInTypeOK
    <3>3. QED
      BY <1>4, <3>1, <3>2 DEF Previewed
  <2>2. QED
    BY <2>1, EndStep, AwaitStep DEF SignInTypeOK, server, bounds
<1>5. ASSUME NEW c \in Chains, LoggedOut(c) PROVE SignInTypeOK'
  <2>1. /\ page' \in PageState /\ dirty' \in BOOLEAN
        /\ End(c) \/ Await(c, "code")
        /\ cookie' = SignedOut
        /\ UNCHANGED <<submit, codes, link, grants, mailed, failed, bounds>>
    BY <1>5, ZenonT(60) DEF LoggedOut, PageState, SignInTypeOK
  <2>2. QED
    BY <1>0, <2>1, EndStep, AwaitStep DEF SignInTypeOK, bounds
<1>6. ASSUME NEW c \in Chains, CodeMailed(c) PROVE SignInTypeOK'
  <2>1. page' \in PageState
    BY <1>6 DEF CodeMailed, PageState
  <2>2. codes' \in [Codes -> CodeRow] /\ mailed' \in Nat
    BY <1>6, NewCodeType DEF CodeMailed
  <2>3. QED
    BY <1>6, <2>1, <2>2, EndStep DEF CodeMailed, SignInTypeOK, bounds
<1>7. ASSUME NEW c \in Chains, ChainFails(c) PROVE SignInTypeOK'
  <2>0. {mailed', failed', faults'} \subseteq Nat
    BY <1>7 DEF ChainFails
  <2>1. page' \in PageState
    BY <1>7, ZenonT(60) DEF ChainFails, PageState
  <2>2. dirty' \in BOOLEAN
    BY <1>7 DEF ChainFails, SignInTypeOK
  <2>3. codes' \in [Codes -> CodeRow]
    BY <1>7, NewCodeType DEF ChainFails
  <2>4. cookie' \in [user : Users \union {Nobody}, live : BOOLEAN]
    BY <1>0, <1>7 DEF ChainFails, SignInTypeOK
  <2>5. QED
    BY <1>7, <2>0, <2>1, <2>2, <2>3, <2>4, EndStep DEF ChainFails, SignInTypeOK
<1>8. ASSUME NEW u \in Users, AskForCode(u) PROVE SignInTypeOK'
  <2>1. page' \in PageState
    BY <1>8 DEF AskForCode, PageState
  <2>2. codes' \in [Codes -> CodeRow] /\ asks' \in Nat
    BY <1>8, NewCodeType DEF AskForCode
  <2>3. QED
    BY <1>8, <2>1, <2>2 DEF AskForCode, SignInTypeOK
<1>9. ASSUME NEW n \in Codes, Submit(n) PROVE SignInTypeOK'
  <2>1. page' \in PageState /\ submit' \in Submission
    BY <1>9 DEF Submit, PageState, Submission
  <2>2. QED
    BY <1>9, <2>1 DEF Submit, SignInTypeOK, server, bounds
<1>10. CASE Consume
  <2>1. submit \in Submission
    BY <1>10 DEF SignInTypeOK, Consume, NotSubmitted
  <2>2. /\ page' \in PageState /\ submit' \in Submission \union {NotSubmitted}
        /\ codes' \in [Codes -> CodeRow]
    <3>1. page' \in PageState
      BY <1>10 DEF Consume, PageState, Rejected
    <3>2. submit' \in Submission \union {NotSubmitted}
      BY <1>10, <2>1 DEF Consume, Submission, Rejected
    <3>3. codes' \in [Codes -> CodeRow]
      BY <1>10 DEF Consume, CodeRow
    <3>4. QED
      BY <3>1, <3>2, <3>3
  <2>3. QED
    BY <1>10, <2>2 DEF Consume, SignInTypeOK, bounds
<1>11. CASE CreateSession
  <2>1. submit \in Submission /\ submit.code \in Codes
    BY <1>11 DEF SignInTypeOK, CreateSession, NotSubmitted, Submission
  <2>2. /\ codes[submit.code].user \in Users \union {Nobody}
        /\ grants' \in [Codes -> Nat]
    BY <1>11, <2>1 DEF CreateSession, CodeRow, SignInTypeOK
  <2>3. /\ page' \in PageState /\ submit' \in Submission \union {NotSubmitted}
        /\ dirty' \in BOOLEAN
        /\ cookie' \in [user : Users \union {Nobody}, live : BOOLEAN]
    <3>1. page' \in PageState
      BY <1>11, <2>2 DEF CreateSession, PageState
    <3>2. submit' \in Submission \union {NotSubmitted}
      BY <1>11, <2>1 DEF CreateSession, Submission
    <3>3. dirty' \in BOOLEAN
      BY <1>11 DEF CreateSession, SignInTypeOK
    <3>4. cookie' \in [user : Users \union {Nobody}, live : BOOLEAN]
      BY <1>11, <2>2 DEF CreateSession
    <3>5. QED
      BY <3>1, <3>2, <3>3, <3>4
  <2>4. QED
    BY <1>11, <2>2, <2>3 DEF CreateSession, SignInTypeOK, bounds
<1>12. CASE Accept
  <2>1. /\ page' \in PageState /\ submit' \in Submission \union {NotSubmitted}
        /\ dirty' \in BOOLEAN /\ link' \in {"open", "accepted", "revoked"}
    BY <1>12, ZenonT(60) DEF Accept, PageState, Rejected, SignInTypeOK
  <2>2. QED
    BY <1>12, <2>1 DEF Accept, SignInTypeOK, bounds
<1>13. CASE SubmitFails
  <2>1. page' \in PageState /\ submit' = NotSubmitted /\ faults' \in Nat
    BY <1>13 DEF SubmitFails, Rejected, PageState
  <2>2. QED
    BY <1>13, <2>1 DEF SubmitFails, SignInTypeOK, server
<1>14. CASE Back
  <2>1. page' \in PageState
    BY <1>14 DEF Back, PageState
  <2>2. dirty' \in BOOLEAN
    BY <1>14 DEF Back
  <2>3. QED
    BY <1>14, <2>1, <2>2 DEF Back, SignInTypeOK, server, bounds
<1>15. CASE Logout
  <2>0. asks' \in Nat
    BY <1>15 DEF Logout
  <2>1. page' \in PageState
    BY <1>15 DEF Logout, PageState
  <2>2. QED
    BY <1>0, <1>15, <2>0, <2>1 DEF Logout, SignInTypeOK
<1>16. CASE Revoke
  BY <1>16 DEF Revoke, SignInTypeOK, bounds
<1>17. ASSUME NEW n \in Codes, SignInElsewhere(n) PROVE SignInTypeOK'
  <2>1. /\ codes' \in [Codes -> CodeRow] /\ grants' \in [Codes -> Nat] /\ asks' \in Nat
    BY <1>17 DEF SignInElsewhere, CodeRow, SignInTypeOK
  <2>2. QED
    BY <1>17, <2>1 DEF SignInElsewhere, SignInTypeOK
<1>18. ASSUME NEW u \in Users, CodeRequestFails(u) PROVE SignInTypeOK'
  <2>1. page' \in PageState
    BY <1>18 DEF CodeRequestFails, PageState
  <2>2. codes' \in [Codes -> CodeRow]
    BY <1>18, NewCodeType DEF CodeRequestFails
  <2>3. asks' \in Nat /\ faults' \in Nat
    BY <1>18 DEF CodeRequestFails
  <2>4. QED
    BY <1>18, <2>1, <2>2, <2>3 DEF CodeRequestFails, SignInTypeOK
<1> QED
  BY <1>1, <1>2, <1>3, <1>4, <1>5, <1>6, <1>7, <1>8, <1>9, <1>10, <1>11, <1>12, <1>13,
     <1>14, <1>15, <1>16, <1>17, <1>18 DEF SignInNext, Responses

(* The codes: only createSession counts a session, for the code that the   *)
(* login has consumed.                                                     *)
LEMMA CodesAreSpentStep ==
  ASSUME SignInTypeOK, CodesAreSpent, SignInNext PROVE CodesAreSpent'
<1>0. /\ grants \in [Codes -> Nat] /\ codes \in [Codes -> CodeRow]
      /\ submit \in Submission \union {NotSubmitted}
  BY DEF SignInTypeOK
<1>1. CASE codes' = codes /\ grants' = grants /\ \A n \in Codes : Consumed(n)' => Consumed(n)
  BY <1>1 DEF CodesAreSpent
<1>2. ASSUME NEW u \in Users, NEW s \in {"lost", "open"}, CodesLeft, NewCode(u, s),
             grants' = grants, submit' = submit
      PROVE  CodesAreSpent'
  <2>1. PICK n \in Codes : /\ codes[n].state = "none" /\ codes'[n].state # "used"
                           /\ \A k \in Codes : k # n => codes'[k] = codes[k]
    BY <1>2, NewCodeType
  <2>2. \A k \in Codes : Consumed(k)' <=> Consumed(k)
    BY <1>2 DEF Consumed
  <2>3. QED
    BY <1>2, <2>1, <2>2 DEF CodesAreSpent
<1>3. CASE Consume
  <2>1. submit \in Submission /\ submit.code \in Codes /\ submit.step = "login"
    BY <1>0, <1>3 DEF Consume, Submission, NotSubmitted
  <2>2. CASE Open(submit.code)
    <3>1. /\ codes' = [codes EXCEPT ![submit.code].state = "used"]
          /\ submit' = [submit EXCEPT !.step = "consumed"] /\ grants' = grants
      BY <1>3, <2>2 DEF Consume
    <3>2. \A n \in Codes : codes'[n].state = IF n = submit.code THEN "used" ELSE codes[n].state
      BY <1>0, <2>1, <3>1 DEF CodeRow
    <3>3. \A n \in Codes : Consumed(n)' => n = submit.code
      BY <2>1, <3>1 DEF Consumed, Submission
    <3>4. grants[submit.code] = 0
      BY <2>1, <2>2 DEF CodesAreSpent, Open
    <3>5. QED
      BY <1>0, <2>1, <3>1, <3>2, <3>3, <3>4 DEF CodesAreSpent
  <2>3. CASE ~ Open(submit.code)
    BY <1>1, <1>3, <2>3 DEF Consume, Rejected, Consumed, Submission, NotSubmitted
  <2>4. QED
    BY <2>2, <2>3
<1>4. CASE CreateSession
  <2>1. submit \in Submission /\ submit.code \in Codes /\ Consumed(submit.code)
    BY <1>0, <1>4 DEF CreateSession, Submission, NotSubmitted, Consumed
  <2>2. grants' = [grants EXCEPT ![submit.code] = @ + 1] /\ codes' = codes
    BY <1>4 DEF CreateSession
  <2>3. grants[submit.code] = 0 /\ codes[submit.code].state = "used"
    BY <2>1 DEF CodesAreSpent
  <2>4. \A n \in Codes : ~ Consumed(n)'
    BY <1>4, <2>1 DEF CreateSession, Consumed, Submission, NotSubmitted
  <2>5. QED
    BY <1>0, <2>1, <2>2, <2>3, <2>4 DEF CodesAreSpent
<1>5. ASSUME NEW n \in Codes, SignInElsewhere(n) PROVE CodesAreSpent'
  <2>1. /\ codes[n].state = "open" /\ submit' = submit
        /\ codes' = [codes EXCEPT ![n].state = "used"]
        /\ grants' = [grants EXCEPT ![n] = @ + 1]
    BY <1>5 DEF SignInElsewhere, Open
  <2>2. \A k \in Codes : codes'[k].state = IF k = n THEN "used" ELSE codes[k].state
    BY <1>0, <2>1 DEF CodeRow
  <2>3. \A k \in Codes : Consumed(k)' <=> Consumed(k)
    BY <2>1 DEF Consumed
  <2>4. grants[n] = 0 /\ ~ Consumed(n)
    BY <2>1 DEF CodesAreSpent
  <2>5. QED
    BY <1>0, <2>1, <2>2, <2>3, <2>4 DEF CodesAreSpent
<1>6. ASSUME NEW c \in Chains, CodeMailed(c) PROVE CodesAreSpent'
  BY <1>2, <1>6, SignInAssumption DEF CodeMailed
<1>7. ASSUME NEW c \in Chains, ChainFails(c) PROVE CodesAreSpent'
  <2>1. grants' = grants /\ submit' = submit
    BY <1>7 DEF ChainFails
  <2>2. CASE codes' = codes
    BY <1>1, <2>1, <2>2 DEF Consumed
  <2>3. CASE CodesLeft /\ (NewCode(Invitee, "lost") \/ NewCode(Invitee, "open"))
    BY <1>2, <2>1, <2>3, SignInAssumption
  <2>4. QED
    BY <1>7, <2>2, <2>3 DEF ChainFails
<1>8. ASSUME NEW u \in Users, AskForCode(u) PROVE CodesAreSpent'
  BY <1>2, <1>8 DEF AskForCode
<1>9. CASE GetMe \/ Render \/ Revoke \/ Back \/ Logout
  <2>1. codes' = codes /\ grants' = grants /\ submit' = submit
    BY <1>9 DEF GetMe, Render, Revoke, Back, Logout, server
  <2>2. QED
    BY <1>1, <2>1 DEF Consumed
<1>10. CASE Visit \/ Accept \/ SubmitFails
  <2>1. codes' = codes /\ grants' = grants /\ submit' \in {submit, NotSubmitted}
    BY <1>10 DEF Visit, Accept, SubmitFails, Rejected, server
  <2>2. QED
    BY <1>1, <2>1 DEF Consumed, Submission, NotSubmitted
<1>11. ASSUME NEW c \in Chains, Previewed(c) \/ LoggedOut(c) PROVE CodesAreSpent'
  <2>1. codes' = codes /\ grants' = grants /\ submit' = submit
    BY <1>11 DEF Previewed, LoggedOut, server
  <2>2. QED
    BY <1>1, <2>1 DEF Consumed
<1>12. ASSUME NEW n \in Codes, Submit(n) PROVE CodesAreSpent'
  <2>1. codes' = codes /\ grants' = grants /\ submit'.step = "login"
    BY <1>12 DEF Submit, server
  <2>2. QED
    BY <1>1, <2>1 DEF Consumed
<1>13. ASSUME NEW u \in Users, CodeRequestFails(u) PROVE CodesAreSpent'
  <2>1. grants' = grants /\ submit' = submit
    BY <1>13 DEF CodeRequestFails
  <2>2. CASE codes' = codes
    BY <1>1, <2>1, <2>2 DEF Consumed
  <2>3. ASSUME NEW s \in {"lost", "open"}, NewCode(u, s) PROVE CodesAreSpent'
    BY <1>2, <1>13, <2>1, <2>3 DEF CodeRequestFails
  <2>4. QED
    BY <1>13, <2>2, <2>3 DEF CodeRequestFails
<1> QED
  BY <1>3, <1>4, <1>5, <1>6, <1>7, <1>8, <1>9, <1>10, <1>11, <1>12, <1>13 DEF SignInNext, Responses

(* The number of runs that still ask changes by one run at most.           *)
LEMMA AskingCount ==
  ASSUME IsFiniteSet(Asking), NEW c \in Chains
  PROVE  /\ Cardinality(Asking) \in Nat
         /\ IsFiniteSet(Asking \ {c}) /\ IsFiniteSet(Asking \union {c})
         /\ Cardinality(Asking \ {c}) =
              IF c \in Asking THEN Cardinality(Asking) - 1 ELSE Cardinality(Asking)
         /\ Cardinality(Asking \union {c}) =
              IF c \in Asking THEN Cardinality(Asking) ELSE Cardinality(Asking) + 1
  BY FS_CardinalityType, FS_AddElement, FS_RemoveElement

LEMMA AskedOnceStep ==
  ASSUME SignInTypeOK, AskedOnce, SignInNext PROVE AskedOnce'
<1> USE BoundsType
<1>0. IsFiniteSet(Asking) /\ Cardinality(Asking) \in Nat /\ page.auto \in BOOLEAN
  BY FS_CardinalityType DEF AskedOnce, PageState
<1>1. CASE Asking' = Asking /\ page'.auto = page.auto /\ UNCHANGED <<mailed, failed>>
  BY <1>1 DEF AskedOnce
<1>2. CASE Visit
  <2>1. /\ mailed' = 0 /\ failed' = 0 /\ page' = Loaded(TRUE)
        /\ chain' = [c \in Chains |-> Over]
    BY <1>2 DEF Visit
  <2>2. Asking' = {} /\ ~ page'.auto
    BY <2>1 DEF Asking, Over, Loaded
  <2>3. QED
    <3>1. IsFiniteSet(Asking)' /\ Cardinality(Asking)' = 0
      BY <2>2, FS_EmptySet
    <3>2. QED
      BY <2>1, <2>2, <3>1 DEF AskedOnce
<1>3. CASE Render
  BY <1>1, <1>3, RunEffectStep DEF Render
<1>4. ASSUME NEW c \in Chains, Previewed(c) PROVE AskedOnce'
  <2>1. chain[c].step = "preview" /\ c \notin Asking /\ UNCHANGED <<mailed, failed>>
    BY <1>4 DEF Previewed, Asking
  <2>2. CASE End(c) /\ page'.auto = page.auto
    <3>1. Asking' = Asking
      BY <2>1, <2>2, EndStep
    <3>2. QED
      BY <1>1, <2>1, <2>2, <3>1
  <2>3. CASE ~ page.auto /\ page'.auto /\ (Await(c, "logout") \/ Await(c, "code"))
    <3>1. Asking' = Asking \union {c}
      BY <2>3, AwaitStep
    <3>2. IsFiniteSet(Asking)' /\ Cardinality(Asking)' = Cardinality(Asking) + 1
      BY <1>0, <2>1, <3>1, AskingCount
    <3>3. QED
      BY <1>0, <2>1, <2>3, <3>2 DEF AskedOnce
  <2>4. QED
    <3>1. \A e : [page EXCEPT !.preview = e, !.previewLoading = FALSE].auto = page.auto
      BY DEF PageState
    <3>2. \A e : [page EXCEPT !.preview = e, !.auto = TRUE].auto
      BY DEF PageState
    <3>3. QED
      BY <1>4, <2>2, <2>3, <3>1, <3>2 DEF Previewed, NotAsked
<1>5. ASSUME NEW c \in Chains, LoggedOut(c) PROVE AskedOnce'
  <2>1. c \in Asking /\ UNCHANGED <<mailed, failed>> /\ page'.auto = page.auto
    BY <1>5 DEF LoggedOut, Asking, PageState
  <2>2. Asking' = Asking \/ Asking' = Asking \ {c}
    <3>1. Await(c, "code") \/ End(c)
      BY <1>5 DEF LoggedOut
    <3>2. Await(c, "code") => Asking' = Asking \union {c}
      BY AwaitStep
    <3>3. End(c) => Asking' = Asking \ {c}
      BY EndStep
    <3>4. QED
      BY <2>1, <3>1, <3>2, <3>3
  <2>3. QED
    BY <1>0, <2>1, <2>2, AskingCount DEF AskedOnce
<1>6. ASSUME NEW c \in Chains, CodeMailed(c) PROVE AskedOnce'
  <2>1. c \in Asking /\ mailed' = mailed + 1 /\ failed' = failed /\ page'.auto = page.auto
    BY <1>6 DEF CodeMailed, Asking, PageState
  <2>2. Asking' = Asking \ {c}
    BY <1>6, EndStep DEF CodeMailed
  <2>3. QED
    BY <1>0, <2>1, <2>2, AskingCount DEF AskedOnce
<1>7. ASSUME NEW c \in Chains, ChainFails(c) PROVE AskedOnce'
  <2>1. Asking' = Asking \ {c} /\ failed' = failed + 1
    BY <1>7, EndStep DEF ChainFails
  <2>2. mailed' = mailed \/ (mailed' = mailed + 1 /\ c \in Asking)
    BY <1>7 DEF ChainFails, Asking
  <2>3. c \notin Asking => page'.auto = page.auto /\ mailed' = mailed
    BY <1>7 DEF ChainFails, Asking, PageState
  <2>4. page'.auto \in BOOLEAN
    BY <1>7, SignInTypeStep DEF SignInTypeOK, PageState
  <2>5. CASE c \in Asking
    BY <1>0, <2>1, <2>2, <2>4, <2>5, AskingCount DEF AskedOnce
  <2>6. CASE c \notin Asking
    <3>1. Asking' = Asking
      BY <2>1, <2>6
    <3>2. mailed' = mailed /\ page'.auto = page.auto
      BY <2>3, <2>6
    <3>3. QED
      BY <1>0, <2>1, <3>1, <3>2 DEF AskedOnce
  <2>7. QED
    BY <2>5, <2>6
<1>8. CASE \/ GetMe \/ Consume \/ CreateSession \/ Accept \/ SubmitFails
           \/ Back \/ Logout \/ Revoke
           \/ \E u \in Users : AskForCode(u) \/ CodeRequestFails(u)
           \/ \E n \in Codes : Submit(n) \/ SignInElsewhere(n)
  <2>1. UNCHANGED <<chain, mailed, failed>>
    BY <1>8 DEF GetMe, Consume, CreateSession, Accept, SubmitFails, Back, Logout, Revoke,
       AskForCode, CodeRequestFails, Submit, SignInElsewhere
  <2>2. page'.auto = page.auto
    BY <1>8 DEF GetMe, Consume, CreateSession, Accept, SubmitFails, Back, Logout, Revoke,
       AskForCode, CodeRequestFails, Submit, SignInElsewhere, Rejected, PageState
  <2>3. QED
    BY <1>1, <2>1, <2>2 DEF Asking
<1> QED
  BY <1>2, <1>3, <1>4, <1>5, <1>6, <1>7, <1>8 DEF SignInNext, Responses

LEMMA SignInInitially == SignInInit => SignInInv
<1> SUFFICES ASSUME SignInInit PROVE SignInInv
  OBVIOUS
<1>1. /\ Loaded(TRUE) \in PageState /\ Over \in EffectRun
      /\ [state |-> "none", user |-> Nobody] \in CodeRow
  BY DEF Loaded, PageState, Over, EffectRun, CodeRow
<1>2. cookie \in [user : Users \union {Nobody}, live : BOOLEAN]
  <2>1. CASE cookie = [user |-> Nobody, live |-> FALSE]
    BY <2>1
  <2>2. CASE cookie \in [user : Users, live : {TRUE}]
    BY <2>2
  <2>3. QED
    BY <2>1, <2>2 DEF SignInInit
<1>3. SignInTypeOK
  <2>1. /\ chain \in [Chains -> EffectRun]
        /\ \A c, d \in Chains : chain[c].mounted /\ chain[d].mounted => c = d
    BY <1>1 DEF SignInInit, Over
  <2>2. {mailed, failed, visits, asks, faults} \subseteq Nat
    BY DEF SignInInit
  <2>3. codes \in [Codes -> CodeRow] /\ grants \in [Codes -> Nat]
    BY <1>1 DEF SignInInit
  <2>4. QED
    BY <1>1, <1>2, <2>1, <2>2, <2>3 DEF SignInInit, SignInTypeOK
<1>4. CodesAreSpent
  BY DEF SignInInit, CodesAreSpent, Consumed, Submission, NotSubmitted
<1>5. Asking = {} /\ ~ page.auto
  BY DEF SignInInit, Asking, Over, Loaded
<1>6. AskedOnce
  <2>1. IsFiniteSet(Asking) /\ Cardinality(Asking) = 0
    BY <1>5, FS_EmptySet
  <2>2. QED
    BY <1>5, <2>1 DEF SignInInit, AskedOnce
<1> QED
  BY <1>3, <1>4, <1>6 DEF SignInInv

LEMMA SignInInvHolds == SignInSpec => []SignInInv
<1>1. SignInInv /\ [SignInNext]_signInVars => SignInInv'
  <2> SUFFICES ASSUME SignInInv, [SignInNext]_signInVars PROVE SignInInv'
    OBVIOUS
  <2>1. CASE SignInNext
    BY <2>1, SignInTypeStep, CodesAreSpentStep, AskedOnceStep DEF SignInInv
  <2>2. CASE UNCHANGED signInVars
    <3>1. /\ UNCHANGED <<page, dirty, chain, submit, codes, cookie, link, grants>>
          /\ UNCHANGED <<mailed, failed, visits, asks, faults>>
      BY <2>2 DEF signInVars, server, bounds
    <3>2. SignInTypeOK'
      BY <3>1 DEF SignInInv, SignInTypeOK
    <3>3. CodesAreSpent' /\ AskedOnce'
      BY <3>1 DEF SignInInv, CodesAreSpent, Consumed, AskedOnce, Asking
    <3>4. QED
      BY <3>2, <3>3 DEF SignInInv
  <2>3. QED
    BY <2>1, <2>2
<1>2. QED
  BY <1>1, SignInInitially, PTL DEF SignInSpec

(* The page, the runs of its effect and the server's rows keep their types *)
(* (src/auth/AuthProvider.tsx, src/auth/auth-store.ts).                    *)
THEOREM SignInTypeCorrect == SignInSpec => []SignInTypeOK
<1>1. SignInInv => SignInTypeOK
  BY DEF SignInInv
<1>2. QED
  BY <1>1, SignInInvHolds, PTL

(* However many browsers submit a code, and whatever answers are lost, it  *)
(* opens at most one session (consumeLoginCode, createSession).            *)
THEOREM CodesSignInOnce == SignInSpec => []CodeSignsInOnce
<1>1. SignInInv => CodeSignsInOnce
  BY DEF SignInInv, CodesAreSpent, CodeSignsInOnce
<1>2. QED
  BY <1>1, SignInInvHolds, PTL

(* A visit mails one code and one more for each request that failed, for   *)
(* any number of runs of the effect (autoCodeRequestedInviteToken).        *)
THEOREM VisitsMailOneCode == SignInSpec => []OneCodePerVisit
<1>1. SignInInv => OneCodePerVisit
  <2> SUFFICES ASSUME SignInInv PROVE OneCodePerVisit
    OBVIOUS
  <2>1. Cardinality(Asking) \in Nat /\ mailed \in Nat /\ failed \in Nat
    BY FS_CardinalityType DEF SignInInv, AskedOnce, SignInTypeOK
  <2>2. QED
    BY <2>1 DEF SignInInv, AskedOnce, OneCodePerVisit
<1>2. QED
  BY <1>1, SignInInvHolds, PTL

------------------------------------------------------------------------------
(* Invitations and members.                                                *)

(* A request that holds the row of an invitation is the only one, and the  *)
(* invitation stays as the WHERE clause has found it, but for its expiry.  *)
Holds(q, i) == request[q].pc = "accepting" /\ request[q].inv = i

HeldOnce ==
  \A q1, q2 \in Request, i \in Invitation : Holds(q1, i) /\ Holds(q2, i) => q1 = q2

HeldIsUnused ==
  \A q \in Request, i \in Invitation : Holds(q, i) =>
    /\ invitation[i].email = request[q].user
    /\ ~invitation[i].accepted /\ ~invitation[i].revoked

AcceptInv == TypeOK /\ HeldOnce /\ HeldIsUnused

USE DEF Role, InvitableRole

(* Everything a request does to the rows of requests is one Proceed. *)
LEMMA ProceedType ==
  ASSUME TypeOK, NEW q \in Request, NEW r \in RequestState, RequestOK(r), Proceed(q, r)
  PROVE  /\ request' \in [Request -> RequestState]
         /\ \A p \in Request : RequestOK(request'[p])
         /\ request'[q] = r
         /\ \A p \in Request \ {q} : request'[p] = request[p]
  BY DEF TypeOK, Proceed

LEMMA IdleType == Idle \in RequestState /\ RequestOK(Idle)
  BY DEF Idle, RequestState, RequestOK

LEMMA CreateType ==
  ASSUME TypeOK, NEW i \in Invitation, NEW email \in User \cup {NoUser}, NEW role \in InvitableRole,
         CreateInvitation(i, email, role)
  PROVE  /\ member' = member
         /\ invitation' \in [Invitation -> InvitationRow]
         /\ \A k \in Invitation : Exists(k) => invitation'[k] = invitation[k]
  BY DEF TypeOK, CreateInvitation, Absent, InvitationRow, Exists

(* A held invitation exists, and no created row takes its place. *)
LEMMA HeldExists ==
  ASSUME AcceptInv, NEW q \in Request, NEW i \in Invitation, Holds(q, i)
  PROVE  Exists(i)
  BY MembershipAssumption DEF AcceptInv, TypeOK, HeldIsUnused, Holds, Exists, RequestOK

(* A request that does not go on to hold a row preserves the invariant     *)
(* when it leaves alone what the others hold.                              *)
LEMMA NotHolding ==
  ASSUME AcceptInv, NEW q \in Request, NEW r \in RequestState, RequestOK(r), Proceed(q, r),
         r.pc # "accepting",
         member' \in [User -> MemberRow], invitation' \in [Invitation -> InvitationRow],
         \A p \in Request \ {q}, i \in Invitation : Holds(p, i) =>
           /\ invitation'[i].email = invitation[i].email
           /\ invitation'[i].accepted = invitation[i].accepted
           /\ invitation'[i].revoked = invitation[i].revoked
  PROVE  AcceptInv'
<1>1. TypeOK
  BY DEF AcceptInv
<1>2. TypeOK'
  BY <1>1, ProceedType DEF TypeOK
<1>3. ASSUME NEW p \in Request, NEW i \in Invitation, Holds(p, i)'
      PROVE  p # q /\ Holds(p, i) /\ request'[p] = request[p]
  BY <1>1, <1>3, ProceedType DEF Holds
<1>4. HeldOnce'
  BY <1>3 DEF AcceptInv, HeldOnce
<1>5. HeldIsUnused'
  BY <1>3 DEF AcceptInv, HeldIsUnused
<1> QED
  BY <1>2, <1>4, <1>5 DEF AcceptInv

LEMMA InitAccept == Init => AcceptInv
<1> SUFFICES ASSUME Init PROVE AcceptInv
  OBVIOUS
<1>1. TypeOK
  BY IdleType DEF Init, TypeOK, MemberRow, InvitationRow, Absent
<1>2. \A q \in Request : request[q].pc = "idle"
  BY DEF Init, Idle
<1> QED
  BY <1>1, <1>2 DEF AcceptInv, HeldOnce, HeldIsUnused, Holds

(* Steps of a request that change neither table. *)
LEMMA LookingStep ==
  ASSUME AcceptInv, NEW q \in Request, UNCHANGED <<member, invitation>>,
         NEW r \in RequestState, RequestOK(r), r.pc # "accepting", Proceed(q, r)
  PROVE  AcceptInv'
<1>1. member' \in [User -> MemberRow] /\ invitation' \in [Invitation -> InvitationRow]
  BY DEF AcceptInv, TypeOK
<1> QED
  BY <1>1, NotHolding

LEMMA CreatingStep ==
  ASSUME AcceptInv, NEW q \in Request, NEW i \in Invitation,
         NEW email \in User \cup {NoUser}, NEW role \in InvitableRole, CreateInvitation(i, email, role),
         NEW r \in RequestState, RequestOK(r), r.pc # "accepting", Proceed(q, r)
  PROVE  AcceptInv'
<1>1. TypeOK
  BY DEF AcceptInv
<1>2. /\ member' \in [User -> MemberRow]
      /\ invitation' \in [Invitation -> InvitationRow]
      /\ \A k \in Invitation : Exists(k) => invitation'[k] = invitation[k]
  BY <1>1, CreateType DEF TypeOK
<1> QED
  BY <1>2, HeldExists, NotHolding

(* Every request step preserves the invariant. *)
LEMMA RequestAccept ==
  ASSUME AcceptInv, NEW q \in Request, RequestStep(q)
  PROVE  AcceptInv'
<1>1. TypeOK
  BY DEF AcceptInv
<1>2. request[q] \in RequestState /\ RequestOK(request[q])
  BY <1>1 DEF TypeOK
<1>3. ASSUME NEW u \in User, Authorize(q, u) PROVE AcceptInv'
  <2> DEFINE r == [Idle EXCEPT !.pc = "authorized"]
  <2>1. r \in RequestState /\ RequestOK(r) /\ r.pc # "accepting"
    BY DEF Idle, RequestState, RequestOK
  <2> QED
    BY <1>3, <2>1, LookingStep DEF Authorize
<1>4. ASSUME NEW i \in Invitation, Invite(q, i) PROVE AcceptInv'
  <2> DEFINE r == [Idle EXCEPT !.pc = "mailing", !.inv = i]
  <2>1. r \in RequestState /\ RequestOK(r) /\ r.pc # "accepting"
    BY DEF Idle, RequestState, RequestOK
  <2>2. PICK email \in User, role \in InvitableRole : CreateInvitation(i, email, role)
    BY <1>4 DEF Invite
  <2> QED
    BY <1>4, <2>1, <2>2, CreatingStep DEF Invite
<1>5. ASSUME NEW i \in Invitation, ReadPrevious(q, i) PROVE AcceptInv'
  <2> DEFINE r == [Idle EXCEPT !.pc = "resending", !.old = i]
  <2>1. r \in RequestState /\ RequestOK(r) /\ r.pc # "accepting"
    BY DEF Idle, RequestState, RequestOK
  <2> QED
    BY <1>5, <2>1, LookingStep DEF ReadPrevious
<1>6. ASSUME NEW i \in Invitation, Resend(q, i) PROVE AcceptInv'
  <2> DEFINE r == [request[q] EXCEPT !.pc = "mailing", !.inv = i]
             previous == invitation[request[q].old]
  <2>1. r \in RequestState /\ RequestOK(r) /\ r.pc # "accepting"
    BY <1>2, <1>6 DEF RequestState, RequestOK, Resend
  <2>2. previous.email \in User \cup {NoUser} /\ previous.role \in InvitableRole
    BY <1>1, <1>2, <1>6 DEF Resend, RequestOK, TypeOK, InvitationRow
  <2> QED
    BY <1>6, <2>1, <2>2, CreatingStep DEF Resend
<1>7. ASSUME NEW i \in Invitation, AskRevoke(q, i) PROVE AcceptInv'
  <2> DEFINE r == [Idle EXCEPT !.pc = "revoking", !.inv = i]
  <2>1. r \in RequestState /\ RequestOK(r) /\ r.pc # "accepting"
    BY DEF Idle, RequestState, RequestOK
  <2> QED
    BY <1>7, <2>1, LookingStep DEF AskRevoke
<1>8. ASSUME NEW i \in Invitation, NEW u \in User, BeginAccept(q, u, i) PROVE AcceptInv'
  <2> DEFINE r == [Idle EXCEPT !.pc = "accepting", !.user = u, !.inv = i]
  <2>1. r \in RequestState /\ RequestOK(r) /\ r.user = u /\ r.inv = i
    BY DEF Idle, RequestState, RequestOK
  <2>2. /\ request'[q] = r
        /\ \A p \in Request \ {q} : request'[p] = request[p]
        /\ TypeOK'
    BY <1>1, <1>8, <2>1, ProceedType DEF BeginAccept, TypeOK
  <2>3. \A p \in Request : ~Holds(p, i)
    BY <1>8 DEF BeginAccept, Locked, Holds
  <2>4. ASSUME NEW p \in Request, NEW k \in Invitation, Holds(p, k)'
        PROVE  \/ p = q /\ k = i
               \/ p # q /\ k # i /\ Holds(p, k) /\ request'[p] = request[p]
    BY <2>1, <2>2, <2>3, <2>4 DEF Holds
  <2>5. HeldOnce'
    BY <2>4 DEF AcceptInv, HeldOnce
  <2>6. HeldIsUnused'
    <3>1. /\ invitation' = invitation /\ invitation[i].email = u
          /\ ~invitation[i].accepted /\ ~invitation[i].revoked
      BY <1>8 DEF BeginAccept, Available
    <3>2. ASSUME NEW p \in Request, NEW k \in Invitation, Holds(p, k)'
          PROVE  /\ invitation[k].email = request'[p].user
                 /\ ~invitation[k].accepted /\ ~invitation[k].revoked
      <4>1. CASE p = q /\ k = i
        BY <3>1, <2>1, <2>2, <4>1
      <4>2. CASE Holds(p, k) /\ request'[p] = request[p]
        BY <4>2 DEF AcceptInv, HeldIsUnused
      <4> QED
        BY <3>2, <4>1, <4>2, <2>4
    <3> QED
      BY <3>1, <3>2 DEF HeldIsUnused
  <2> QED
    BY <2>2, <2>5, <2>6 DEF AcceptInv
<1>9. ASSUME Mailed(q) PROVE AcceptInv'
  <2>1. CASE Proceed(q, Idle)
    BY <1>9, <2>1, IdleType, LookingStep DEF Mailed, Idle
  <2>2. ASSUME NEW i \in {request[q].old, request[q].inv} \ {NoInvitation},
               Proceed(q, [Idle EXCEPT !.pc = "revoking", !.inv = i])
        PROVE  AcceptInv'
    <3> DEFINE r == [Idle EXCEPT !.pc = "revoking", !.inv = i]
    <3>1. i \in Invitation
      BY <1>2 DEF RequestState
    <3>2. r \in RequestState /\ RequestOK(r) /\ r.pc # "accepting"
      BY <3>1 DEF Idle, RequestState, RequestOK
    <3> QED
      BY <1>9, <2>2, <3>2, LookingStep DEF Mailed
  <2> QED
    BY <1>9, <2>1, <2>2 DEF Mailed
<1>10. ASSUME RevokeInvitation(q) PROVE AcceptInv'
  <2>1. request[q].inv \in Invitation
    BY <1>2, <1>10 DEF RevokeInvitation, RequestOK
  <2>2. /\ member' \in [User -> MemberRow]
        /\ invitation' \in [Invitation -> InvitationRow]
    BY <1>1, <1>10, <2>1, ZenonT(60) DEF RevokeInvitation, TypeOK, InvitationRow
  <2>3. \A p \in Request, i \in Invitation : Holds(p, i) => invitation'[i] = invitation[i]
    BY <1>1, <1>10 DEF RevokeInvitation, Locked, Holds, TypeOK
  <2> QED
    BY <1>10, <2>2, <2>3, IdleType, NotHolding DEF RevokeInvitation, Idle
<1>11. ASSUME CommitAccept(q) PROVE AcceptInv'
  <2>1. request[q].inv \in Invitation /\ request[q].user \in User /\ Holds(q, request[q].inv)
    BY <1>2, <1>11 DEF CommitAccept, RequestOK, Holds
  <2>2. /\ member' \in [User -> MemberRow]
        /\ invitation' \in [Invitation -> InvitationRow]
    BY <1>1, <1>11, <2>1, ZenonT(60) DEF CommitAccept, TypeOK, InvitationRow, MemberRow
  <2>3. \A p \in Request \ {q}, i \in Invitation : Holds(p, i) => invitation'[i] = invitation[i]
    BY <1>1, <1>11, <2>1 DEF CommitAccept, AcceptInv, HeldOnce, TypeOK
  <2> QED
    BY <1>11, <2>2, <2>3, IdleType, NotHolding DEF CommitAccept, Idle
<1>12. ASSUME Abort(q) PROVE AcceptInv'
  BY <1>12, IdleType, LookingStep DEF Abort, Idle
<1> QED
  BY <1>3, <1>4, <1>5, <1>6, <1>7, <1>8, <1>9, <1>10, <1>11, <1>12 DEF RequestStep

LEMMA NextAccept == AcceptInv /\ [Next]_vars => AcceptInv'
<1> SUFFICES ASSUME AcceptInv, [Next]_vars PROVE AcceptInv'
  OBVIOUS
<1>1. ASSUME NEW u \in User, Leave(u) PROVE AcceptInv'
  BY <1>1 DEF Leave, AcceptInv, TypeOK, HeldOnce, HeldIsUnused, Holds, MemberRow
<1>2. ASSUME NEW i \in Invitation, Expire(i) PROVE AcceptInv'
  BY <1>2, ZenonT(60) DEF Expire, AcceptInv, TypeOK, HeldOnce, HeldIsUnused, Holds, InvitationRow
<1>3. CASE UNCHANGED vars
  BY <1>3 DEF vars, AcceptInv, TypeOK, HeldOnce, HeldIsUnused, Holds
<1> QED
  BY <1>1, <1>2, <1>3, RequestAccept DEF Next

LEMMA AcceptInvariant == Spec => []AcceptInv
  BY InitAccept, NextAccept, PTL DEF Spec

(* The rows of members, invitations and requests keep their types, and     *)
(* each request knows the invitation it works on.                          *)
THEOREM MembershipTypeCorrect == Spec => []TypeOK
<1>1. AcceptInv => TypeOK
  BY DEF AcceptInv
<1> QED
  BY <1>1, AcceptInvariant, PTL

------------------------------------------------------------------------------
(* An invitation that is used up has been inserted, so that no new row     *)
(* takes its place.                                                        *)
AcceptedExists == \A i \in Invitation : invitation[i].accepted => Exists(i)

MembershipInv == AcceptInv /\ AcceptedExists

(* Only a commit of acceptInvitation uses an invitation up, and only       *)
(* leaveOrganization changes members otherwise.                            *)
LEMMA OtherSteps ==
  ASSUME MembershipInv, [Next]_vars, \A q \in Request : ~CommitAccept(q)
  PROVE  /\ \A i \in Invitation : /\ invitation'[i].accepted = invitation[i].accepted
                                  /\ Exists(i) => invitation'[i].email = invitation[i].email
         /\ member' = member \/ \E u \in User : Leave(u)
<1> DEFINE Kept == \A i \in Invitation :
             /\ invitation'[i].accepted = invitation[i].accepted
             /\ Exists(i) => invitation'[i].email = invitation[i].email
<1>1. TypeOK
  BY DEF MembershipInv, AcceptInv
<1>2. ASSUME NEW i \in Invitation, NEW email \in User \cup {NoUser}, NEW role \in InvitableRole,
             CreateInvitation(i, email, role)
      PROVE  Kept /\ member' = member
  BY <1>1, <1>2 DEF CreateInvitation, TypeOK, InvitationRow, MembershipInv, AcceptedExists,
                    Exists, Absent
<1>3. ASSUME NEW q \in Request, RequestStep(q) PROVE Kept /\ member' = member
  <2>1. ASSUME NEW i \in Invitation, Invite(q, i) PROVE Kept /\ member' = member
    BY <2>1, <1>2 DEF Invite
  <2>2. ASSUME NEW i \in Invitation, Resend(q, i) PROVE Kept /\ member' = member
    <3>1. /\ invitation[request[q].old].email \in User \cup {NoUser}
          /\ invitation[request[q].old].role \in InvitableRole
      BY <1>1, <2>2 DEF Resend, TypeOK, RequestOK, InvitationRow
    <3> QED
      BY <2>2, <3>1, <1>2 DEF Resend
  <2>3. ASSUME RevokeInvitation(q) PROVE Kept /\ member' = member
    BY <1>1, <2>3 DEF RevokeInvitation, TypeOK, InvitationRow
  <2>4. ASSUME UNCHANGED <<member, invitation>> PROVE Kept /\ member' = member
    BY <2>4
  <2> QED
    BY <1>3, <2>1, <2>2, <2>3, <2>4
       DEF RequestStep, Authorize, ReadPrevious, AskRevoke, BeginAccept, Mailed, Abort
<1>4. ASSUME NEW u \in User, Leave(u) PROVE Kept
  BY <1>4 DEF Leave
<1>5. ASSUME NEW i \in Invitation, Expire(i) PROVE Kept /\ member' = member
  BY <1>1, <1>5 DEF Expire, TypeOK, InvitationRow
<1>6. CASE UNCHANGED vars
  BY <1>6 DEF vars
<1> QED
  BY <1>3, <1>4, <1>5, <1>6 DEF Next

(* What a commit does: user u uses up invitation i. *)
Joins(u, i) ==
  /\ invitation[i].email = u
  /\ ~invitation[i].accepted /\ ~invitation[i].revoked
  /\ invitation'[i].accepted
  /\ \A k \in Invitation : /\ invitation'[k].email = invitation[k].email
                           /\ k # i => invitation'[k] = invitation[k]
  /\ member'[u] = [role |-> invitation[i].role, active |-> TRUE]
  /\ \A v \in User \ {u} : member'[v] = member[v]

LEMMA CommitStep ==
  ASSUME MembershipInv, NEW q \in Request, CommitAccept(q)
  PROVE  \E u \in User, i \in Invitation : Joins(u, i)
<1>1. TypeOK
  BY DEF MembershipInv, AcceptInv
<1>2. request[q].inv \in Invitation /\ request[q].user \in User /\ Holds(q, request[q].inv)
  BY <1>1 DEF CommitAccept, TypeOK, RequestOK, Holds
<1>3. Joins(request[q].user, request[q].inv)
  BY <1>1, <1>2
     DEF Joins, CommitAccept, TypeOK, InvitationRow, MembershipInv, AcceptInv, HeldIsUnused
<1> QED
  BY <1>2, <1>3

LEMMA MembershipInvariant == Spec => []MembershipInv
<1>1. Init => AcceptedExists
  BY DEF Init, AcceptedExists, Absent
<1>2. ASSUME MembershipInv, AcceptInv', [Next]_vars PROVE AcceptedExists'
  <2>1. ASSUME NEW q \in Request, CommitAccept(q) PROVE AcceptedExists'
    <3>1. PICK u \in User, i \in Invitation : Joins(u, i)
      BY <1>2, <2>1, CommitStep
    <3> QED
      BY <3>1, <1>2, MembershipAssumption DEF Joins, MembershipInv, AcceptedExists, Exists
  <2>2. CASE \A q \in Request : ~CommitAccept(q)
    BY <2>2, <1>2, OtherSteps DEF MembershipInv, AcceptedExists, Exists
  <2> QED
    BY <2>1, <2>2
<1> QED
  BY <1>1, <1>2, AcceptInvariant, PTL DEF Spec, MembershipInv

------------------------------------------------------------------------------
(* A revoked invitation lets nobody join: the lock of acceptInvitation     *)
(* makes the revocation wait.                                              *)
THEOREM RevokedLinkIsDead == Spec => NoJoinAfterRevocation
<1>1. ASSUME MembershipInv, [Next]_vars
      PROVE  [\A i \in Invitation : invitation[i].revoked =>
                invitation'[i].accepted = invitation[i].accepted]_vars
  <2>1. ASSUME NEW q \in Request, CommitAccept(q), NEW i \in Invitation, invitation[i].revoked
        PROVE  invitation'[i].accepted = invitation[i].accepted
    BY <1>1, <2>1, CommitStep DEF Joins
  <2>2. CASE \A q \in Request : ~CommitAccept(q)
    BY <1>1, <2>2, OtherSteps
  <2> QED
    BY <2>1, <2>2
<1> QED
  BY <1>1, MembershipInvariant, PTL DEF Spec, NoJoinAfterRevocation

(* An invitation makes its addressee a member once, with its role.         *)
THEOREM InvitationsAreUsedOnce == Spec => JoiningUsesAnInvitation
<1> DEFINE UsesOne == \A u \in User : member'[u] # member[u] /\ member'[u].active =>
             \E i \in Invitation :
               /\ ~invitation[i].accepted /\ invitation'[i].accepted
               /\ invitation[i].email = u /\ invitation[i].role = member'[u].role
<1>1. ASSUME MembershipInv, [Next]_vars PROVE [UsesOne]_vars
  <2>1. ASSUME NEW q \in Request, CommitAccept(q) PROVE UsesOne
    <3>1. PICK v \in User, i \in Invitation : Joins(v, i)
      BY <1>1, <2>1, CommitStep
    <3> QED
      BY <3>1 DEF Joins
  <2>2. ASSUME NEW u \in User, Leave(u) PROVE UsesOne
    BY <1>1, <2>2 DEF Leave, MembershipInv, AcceptInv, TypeOK, MemberRow
  <2>3. CASE member' = member
    BY <2>3
  <2> QED
    BY <1>1, <2>1, <2>2, <2>3, OtherSteps
<1> QED
  BY <1>1, MembershipInvariant, PTL DEF Spec, JoiningUsesAnInvitation

------------------------------------------------------------------------------
(* Nobody but the founder is an owner, since invitations offer other roles *)
(* only; and he remains one until he has used an invitation.               *)
FounderInv ==
  /\ Owners \subseteq {Founder}
  /\ Founder \in Owners \/ \E i \in Invitation : invitation[i].accepted /\ invitation[i].email = Founder

(* Without an acceptance by the founder, the organization keeps an owner.  *)
THEOREM FounderStaysOwner == Spec => []OwnerUntilInvited
<1>1. Init => FounderInv
  BY MembershipAssumption DEF Init, FounderInv, Owners
<1>2. ASSUME MembershipInv, FounderInv, [Next]_vars PROVE FounderInv'
  <2>1. TypeOK /\ AcceptedExists
    BY <1>2 DEF MembershipInv, AcceptInv
  <2>2. ASSUME NEW q \in Request, CommitAccept(q) PROVE FounderInv'
    <3>1. PICK u \in User, i \in Invitation : Joins(u, i)
      BY <1>2, <2>2, CommitStep
    <3>2. invitation[i].role # "owner"
      BY <2>1 DEF TypeOK, InvitationRow
    <3>3. Owners' \subseteq Owners
      BY <3>1, <3>2 DEF Owners, Joins
    <3>4. CASE u = Founder
      BY <1>2, <3>1, <3>3, <3>4 DEF FounderInv, Joins
    <3>5. CASE u # Founder /\ Founder \in Owners
      BY <1>2, <3>1, <3>3, <3>5 DEF FounderInv, Owners, Joins
    <3>6. ASSUME NEW k \in Invitation, invitation[k].accepted, invitation[k].email = Founder
          PROVE  FounderInv'
      BY <1>2, <3>1, <3>3, <3>6 DEF FounderInv, Joins
    <3> QED
      BY <1>2, <3>4, <3>5, <3>6 DEF FounderInv
  <2>3. ASSUME NEW u \in User, Leave(u) PROVE FounderInv'
    <3>1. Cardinality({Founder}) = 1
      BY FS_Singleton
    <3>2. u \notin Owners
      <4> SUFFICES ASSUME u \in Owners PROVE FALSE
        OBVIOUS
      <4>1. Owners = {Founder} /\ Cardinality(Owners) > 1
        BY <1>2, <2>3 DEF FounderInv, Leave
      <4> QED
        BY <3>1, <4>1
    <3>3. Owners' = Owners /\ invitation' = invitation
      BY <2>1, <2>3, <3>2 DEF Leave, Owners, TypeOK, MemberRow
    <3> QED
      BY <1>2, <3>3 DEF FounderInv
  <2>4. CASE member' = member /\ \A q \in Request : ~CommitAccept(q)
    <3>1. Owners' = Owners
      BY <2>4 DEF Owners
    <3>2. \A i \in Invitation : invitation[i].accepted =>
             invitation'[i].accepted /\ invitation'[i].email = invitation[i].email
      BY <1>2, <2>1, <2>4, OtherSteps DEF AcceptedExists
    <3> QED
      BY <1>2, <3>1, <3>2 DEF FounderInv
  <2> QED
    BY <1>2, <2>2, <2>3, <2>4, OtherSteps
<1>3. FounderInv => OwnerUntilInvited
  BY DEF FounderInv, OwnerUntilInvited
<1> QED
  BY <1>1, <1>2, <1>3, MembershipInvariant, PTL DEF Spec

==============================================================================
