----------------------- MODULE OrganizationMembership ------------------------
(***************************************************************************)
(* One organization: its members and invitations, with the requests of     *)
(* src/auth/auth-http-api.ts and the queries of src/auth/auth-store.ts.  A *)
(* request awaits its queries one by one and other requests run between    *)
(* them.  acceptInvitation is a READ COMMITTED transaction that keeps the  *)
(* row lock of the invitation until it commits; leaveOrganization works on *)
(* rows it has locked and is one step; the other queries are statements of *)
(* their own.                                                              *)
(***************************************************************************)
EXTENDS Naturals, FiniteSets

CONSTANTS
  User,          (* users, each with one email address                     *)
  Founder,       (* the user who creates the organization                  *)
  Invitation,
  Request,       (* HTTP requests in progress                              *)
  NoUser,
  NoInvitation

ASSUME MembershipAssumption ==
  /\ Founder \in User
  /\ NoUser \notin User
  /\ NoInvitation \notin Invitation

VARIABLES
  member,      (* organization_members: role and status of each user       *)
  invitation,  (* organization_invitations                                 *)
  request      (* where each request is                                    *)

vars == <<member, invitation, request>>

Role == {"owner", "admin", "member"}

(* normalizeInvitableRole. *)
InvitableRole == {"admin", "member"}

(* A user who is no member has no row, or one with the status "removed".   *)
MemberRow == [role : Role, active : BOOLEAN]

(* email is NoUser as long as the row has not been inserted.               *)
InvitationRow ==
  [email : User \cup {NoUser}, role : InvitableRole,
   accepted : BOOLEAN, revoked : BOOLEAN, expired : BOOLEAN]

(* inv: the invitation a request works on; old: the one it sends again.    *)
RequestState ==
  [pc : {"idle", "authorized", "resending", "mailing", "revoking", "accepting"},
   user : User \cup {NoUser},
   inv : Invitation \cup {NoInvitation}, old : Invitation \cup {NoInvitation}]

Absent == [email |-> NoUser, role |-> "member",
           accepted |-> FALSE, revoked |-> FALSE, expired |-> FALSE]

Idle == [pc |-> "idle", user |-> NoUser, inv |-> NoInvitation, old |-> NoInvitation]

(* A request past its first queries knows the invitation it works on. *)
RequestOK(r) ==
  /\ r.pc \in {"mailing", "revoking", "accepting"} => r.inv \in Invitation
  /\ r.pc = "resending" => r.old \in Invitation
  /\ r.pc = "accepting" => r.user \in User

TypeOK ==
  /\ member \in [User -> MemberRow]
  /\ invitation \in [Invitation -> InvitationRow]
  /\ request \in [Request -> RequestState]
  /\ \A q \in Request : RequestOK(request[q])

(* createOrganization has inserted the founder. *)
Init ==
  /\ member = [u \in User |-> IF u = Founder THEN [role |-> "owner", active |-> TRUE]
                              ELSE [role |-> "member", active |-> FALSE]]
  /\ invitation = [i \in Invitation |-> Absent]
  /\ request = [q \in Request |-> Idle]
------------------------------------------------------------------------------
Owners == {u \in User : member[u].active /\ member[u].role = "owner"}

CanManage(u) == member[u].active /\ member[u].role \in {"owner", "admin"}

Exists(i) == invitation[i].email # NoUser

(* Bug: the invitation is read without FOR UPDATE. *)
NeverLocked(i) == FALSE

(* The row is held by a transaction that accepts the invitation. *)
Locked(i) == \E q \in Request : request[q].pc = "accepting" /\ request[q].inv = i

(* Bug: the acceptance of an invitation does not use it up. *)
AvailableAgain(i, u) ==
  /\ invitation[i].email = u
  /\ ~invitation[i].revoked /\ ~invitation[i].expired

(* The WHERE clause of acceptInvitation. *)
Available(i, u) ==
  /\ invitation[i].email = u
  /\ ~invitation[i].accepted /\ ~invitation[i].revoked /\ ~invitation[i].expired

Proceed(q, state) == request' = [request EXCEPT ![q] = state]
------------------------------------------------------------------------------
(* The status an invitation is shown with: revoked comes before accepted.  *)
ShownAccepted(i) == invitation[i].accepted /\ ~invitation[i].revoked

(* requireSession reads the memberships of the user who asks.  The body or *)
(* the invitation is awaited only then.                                    *)
Authorize(q, u) ==
  /\ request[q].pc = "idle" /\ CanManage(u)
  /\ Proceed(q, [Idle EXCEPT !.pc = "authorized"])
  /\ UNCHANGED <<member, invitation>>

(* createInvitation inserts a new row. *)
CreateInvitation(i, email, role) ==
  /\ ~Exists(i)
  /\ invitation' = [invitation EXCEPT ![i] = [Absent EXCEPT !.email = email, !.role = role]]
  /\ UNCHANGED member

(* POST .../invitations: nobody looks whether the address is a member's.   *)
Invite(q, i) ==
  /\ request[q].pc = "authorized"
  /\ \E email \in User, role \in InvitableRole : CreateInvitation(i, email, role)
  /\ Proceed(q, [Idle EXCEPT !.pc = "mailing", !.inv = i])

(* POST .../resend reads the previous invitation ... *)
ReadPrevious(q, i) ==
  /\ request[q].pc = "authorized"
  /\ Exists(i) /\ ~ShownAccepted(i)
  /\ Proceed(q, [Idle EXCEPT !.pc = "resending", !.old = i])
  /\ UNCHANGED <<member, invitation>>

(* ... and inserts a copy. *)
Resend(q, i) ==
  LET previous == invitation[request[q].old] IN
  /\ request[q].pc = "resending"
  /\ CreateInvitation(i, previous.email, previous.role)
  /\ Proceed(q, [request[q] EXCEPT !.pc = "mailing", !.inv = i])

(* The provider accepts the email, or fails; it may fail after delivery.   *)
Mailed(q) ==
  /\ request[q].pc = "mailing"
  /\ \/ request[q].old = NoInvitation /\ Proceed(q, Idle)
     \/ \E i \in {request[q].old, request[q].inv} \ {NoInvitation} :
          Proceed(q, [Idle EXCEPT !.pc = "revoking", !.inv = i])
  /\ UNCHANGED <<member, invitation>>

(* POST .../revoke reads the invitation before it revokes it. *)
AskRevoke(q, i) ==
  /\ request[q].pc = "authorized"
  /\ Exists(i) /\ ~ShownAccepted(i)
  /\ Proceed(q, [Idle EXCEPT !.pc = "revoking", !.inv = i])
  /\ UNCHANGED <<member, invitation>>

(* revokeInvitation: the UPDATE waits for the row and tests nothing.       *)
RevokeInvitation(q) ==
  /\ request[q].pc = "revoking"
  /\ ~Locked(request[q].inv)
  /\ invitation' = [invitation EXCEPT ![request[q].inv].revoked = TRUE]
  /\ Proceed(q, Idle)
  /\ UNCHANGED member
------------------------------------------------------------------------------
(* acceptInvitation: the UPDATE of the invitation ... *)
BeginAccept(q, u, i) ==
  /\ request[q].pc = "idle"
  /\ ~Locked(i) /\ Available(i, u)
  /\ Proceed(q, [Idle EXCEPT !.pc = "accepting", !.user = u, !.inv = i])
  /\ UNCHANGED <<member, invitation>>

(* ... the upsert of the member, and COMMIT. *)
CommitAccept(q) ==
  LET i == request[q].inv IN
  /\ request[q].pc = "accepting"
  /\ invitation' = [invitation EXCEPT ![i].accepted = TRUE]
  /\ member' = [member EXCEPT ![request[q].user] =
                  [role |-> invitation[i].role, active |-> TRUE]]
  /\ Proceed(q, Idle)

(* Bug: the owner who leaves is taken for another one that stays. *)
LeaveAnyway(u) ==
  /\ member[u].active
  /\ u \in Owners => Cardinality(Owners) > 0
  /\ member' = [member EXCEPT ![u].active = FALSE]
  /\ UNCHANGED <<invitation, request>>

(* leaveOrganization. *)
Leave(u) ==
  /\ member[u].active
  /\ u \in Owners => Cardinality(Owners) > 1
  /\ member' = [member EXCEPT ![u].active = FALSE]
  /\ UNCHANGED <<invitation, request>>

(* The request or its transaction is given up: a query failed, or the      *)
(* backend died.                                                           *)
Abort(q) ==
  /\ request[q].pc # "idle"
  /\ Proceed(q, Idle)
  /\ UNCHANGED <<member, invitation>>

(* Time passes expires_at. *)
Expire(i) ==
  /\ Exists(i)
  /\ invitation' = [invitation EXCEPT ![i].expired = TRUE]
  /\ UNCHANGED <<member, request>>

RequestStep(q) ==
  \/ \E u \in User : Authorize(q, u)
  \/ \E i \in Invitation :
       \/ Invite(q, i) \/ ReadPrevious(q, i) \/ Resend(q, i) \/ AskRevoke(q, i)
       \/ \E u \in User : BeginAccept(q, u, i)
  \/ Mailed(q) \/ RevokeInvitation(q) \/ CommitAccept(q) \/ Abort(q)

Next ==
  \/ \E q \in Request : RequestStep(q)
  \/ \E u \in User : Leave(u)
  \/ \E i \in Invitation : Expire(i)

Spec == Init /\ [][Next]_vars
------------------------------------------------------------------------------
(* Nobody joins with an invitation once it has been revoked, however the   *)
(* revocation overlaps with acceptances that have begun (auth-and-access-  *)
(* spec.md: a revoked link cannot be used to join).                        *)
NoJoinAfterRevocation ==
  [][\A i \in Invitation : invitation[i].revoked => invitation'[i].accepted = invitation[i].accepted]_vars

(* Whoever becomes a member, or gets another role, uses up an invitation   *)
(* sent to his address with that role: an invitation makes one user a      *)
(* member once, also when it is accepted twice at the same time.           *)
JoiningUsesAnInvitation ==
  [][\A u \in User : member'[u] # member[u] /\ member'[u].active =>
       \E i \in Invitation :
         /\ ~invitation[i].accepted /\ invitation'[i].accepted
         /\ invitation[i].email = u /\ invitation[i].role = member'[u].role]_vars

(* As long as the founder accepts no invitation, which would replace his   *)
(* role, the organization has an owner, whatever else happens.             *)
OwnerUntilInvited ==
  Owners # {} \/ \E i \in Invitation : invitation[i].accepted /\ invitation[i].email = Founder

==============================================================================
