------------------------------- MODULE Members -------------------------------
(****************************************************************************)
(* The members of one organization and the invitations to it (internal/org).*)
(*                                                                          *)
(* A request reads who is asking, then does its work in a transaction of    *)
(* its own.  A transaction that checks something before it writes is two    *)
(* steps: PostgreSQL runs it READ COMMITTED and nothing it reads is locked, *)
(* so other transactions commit between the check and the write.            *)
(****************************************************************************)
EXTENDS Naturals, FiniteSets

CONSTANTS
    User,
    Founder,     \* who made the organization
    Invitation,  \* the invitations anybody might send
    Request,     \* bound: how many requests are handled at once
    Assignable   \* bound: the roles anybody is ever given

Role == {"owner", "admin", "member", "viewer"}

ASSUME FounderIsUser == Founder \in User
ASSUME UsersFinite == IsFiniteSet(User)
ASSUME RolesKnown == Assignable \subseteq Role

VARIABLES
    role,        \* memberships.role of each user, "none" without a row
    invite,      \* the invitations table
    request,     \* what each request being handled has read so far
    admitted,    \* history: whom each invitation has admitted, and how often
    byOwner,     \* history: the requests under way that an owner began, as they then were
    fromOwner,   \* history: the invitations that wait and that such a request sent
    overlapped   \* history: whether a check was made between another's check and its write

\* Who had a hand in what, for the properties: nothing reads it.
hands == <<byOwner, fromOwner>>

memberVars == <<role, invite, request, admitted, byOwner, fromOwner, overlapped>>

InviteState ==
    [state : {"unsent", "waiting", "accepted", "deleted"},
     to : User, role : Role, expired : BOOLEAN]

\* An invitation of which nothing is recorded.
Blank(s) == [state |-> s, to |-> Founder, role |-> "viewer", expired |-> FALSE]

\* user is who asks; of a request that has checked what it must, whoever is to be
\* changed, with the role they are to have, "none" when they are to be removed.
RequestState ==
    [pc : {"idle", "resolved", "changing", "accepting"},
     user : User, role : Role \cup {"none"}, invitation : Invitation \cup {"none"}]

About(pc, u, ro) == [pc |-> pc, user |-> u, role |-> ro, invitation |-> "none"]

Idle == About("idle", Founder, "none")

MembersTypeOK ==
    /\ role \in [User -> Role \cup {"none"}]
    /\ invite \in [Invitation -> InviteState]
    /\ request \in [Request -> RequestState]
    /\ admitted \in [Invitation -> Nat]
    /\ byOwner \subseteq Request
    /\ fromOwner \subseteq Invitation
    /\ overlapped \in BOOLEAN

\* Create leaves the organization with the caller as its owner.
MembersInit ==
    /\ role = [u \in User |-> IF u = Founder THEN "owner" ELSE "none"]
    /\ invite = [i \in Invitation |-> Blank("unsent")]
    /\ request = [r \in Request |-> Idle]
    /\ admitted = [i \in Invitation |-> 0]
    /\ byOwner = {}
    /\ fromOwner = {}
    /\ overlapped = FALSE

(****************************************************************************)
(* The queries.                                                             *)
(****************************************************************************)

GetMembership(u) == role[u]

\* One membership of an organization to a user.
CreateMembership(u, ro) ==
    /\ role[u] = "none"
    /\ role' = [role EXCEPT ![u] = ro]

\* Neither of these touches a row that is gone.
UpdateMemberRole(u, ro) == role' = [role EXCEPT ![u] = IF @ = "none" THEN @ ELSE ro]

DeleteMembership(u) == role' = [role EXCEPT ![u] = "none"]

\* One invitation may wait for an address, expired or not.
CreateInvitation(i, u, ro) ==
    /\ invite[i].state = "unsent"
    /\ ~ \E j \in Invitation : invite[j].state = "waiting" /\ invite[j].to = u
    /\ invite' = [invite EXCEPT ![i] =
                    [state |-> "waiting", to |-> u, role |-> ro, expired |-> FALSE]]

AcceptInvitation(i) ==
    invite' = [invite EXCEPT ![i].state = IF @ = "deleted" THEN @ ELSE "accepted"]

\* Whatever has become of it.
DeleteInvitation(i) ==
    /\ invite[i].state \in {"waiting", "accepted"}
    /\ invite' = [invite EXCEPT ![i] = Blank("deleted")]

(****************************************************************************)
(* What may be done.                                                        *)
(****************************************************************************)

CanManageMembers(ro) == ro \in {"owner", "admin"}

\* A variant, for the runs to refute: whoever manages members gives any role.
MayGiveAny(standing, ro) == CanManageMembers(standing)

\* Only an owner may make another.
MayGive(standing, ro) ==
    /\ CanManageMembers(standing)
    /\ ro = "owner" => standing = "owner"

Owners == {u \in User : role[u] = "owner"}

CountOwners == Cardinality(Owners)

\* A variant, for the runs to refute: the count is compared with one too few.
GuardLastOwnerLate(u, ro) ==
    /\ GetMembership(u) # "none"
    /\ GetMembership(u) = "owner" /\ ro # "owner" => CountOwners > 0

\* What guardLastOwner lets through.
GuardLastOwner(u, ro) ==
    /\ GetMembership(u) # "none"
    /\ GetMembership(u) = "owner" /\ ro # "owner" => CountOwners > 1

Writing(r) == request[r].pc \in {"changing", "accepting"}

\* A check by request r: it overlaps any transaction yet to write.
Checks(r, state) ==
    /\ request' = [request EXCEPT ![r] = state]
    /\ overlapped' = (overlapped \/ \E q \in Request \ {r} : Writing(q))

Ends(r) ==
    /\ request' = [request EXCEPT ![r] = Idle]
    /\ byOwner' = byOwner \ {r}

(****************************************************************************)
(* Requests of a member.                                                    *)
(****************************************************************************)

\* Resolve: the caller's standing, which nothing reads again.
Resolve(r, u) ==
    /\ request[r].pc = "idle" /\ GetMembership(u) # "none"
    /\ request' = [request EXCEPT ![r] = About("resolved", u, GetMembership(u))]
    /\ byOwner' = IF u \in Owners THEN byOwner \cup {r} ELSE byOwner
    /\ UNCHANGED <<role, invite, admitted, fromOwner, overlapped>>

Standing(r) == request[r].role

Invite(r, i, u, ro) ==
    /\ request[r].pc = "resolved" /\ MayGive(Standing(r), ro)
    /\ CreateInvitation(i, u, ro)
    /\ fromOwner' = IF r \in byOwner THEN fromOwner \cup {i} ELSE fromOwner
    /\ Ends(r)
    /\ UNCHANGED <<role, admitted, overlapped>>

Revoke(r, i) ==
    /\ request[r].pc = "resolved" /\ CanManageMembers(Standing(r))
    /\ DeleteInvitation(i)
    /\ fromOwner' = fromOwner \ {i}
    /\ Ends(r)
    /\ UNCHANGED <<role, admitted, overlapped>>

\* ChangeRole, up to its write.
ChangeRole(r, u, ro) ==
    /\ request[r].pc = "resolved" /\ MayGive(Standing(r), ro)
    /\ GuardLastOwner(u, ro)
    /\ Checks(r, About("changing", u, ro))
    /\ UNCHANGED <<role, invite, admitted, hands>>

\* A variant, for the runs to refute: the write is given the empty role that stands
\* for removal.
RemoveMemberEmpty(r, u) ==
    /\ request[r].pc = "resolved" /\ CanManageMembers(Standing(r))
    /\ GuardLastOwner(u, "none")
    /\ Checks(r, About("changing", u, ""))
    /\ UNCHANGED <<role, invite, admitted, hands>>

\* RemoveMember, up to its write.
RemoveMember(r, u) ==
    /\ request[r].pc = "resolved" /\ CanManageMembers(Standing(r))
    /\ GuardLastOwner(u, "none")
    /\ Checks(r, About("changing", u, "none"))
    /\ UNCHANGED <<role, invite, admitted, hands>>

\* The write of either.
UpdateMember(r) ==
    /\ request[r].pc = "changing"
    /\ \/ request[r].role = "none" /\ DeleteMembership(request[r].user)
       \/ request[r].role # "none" /\ UpdateMemberRole(request[r].user, request[r].role)
    /\ Ends(r)
    /\ UNCHANGED <<invite, admitted, fromOwner, overlapped>>

(****************************************************************************)
(* Accepting an invitation, which needs no membership.                      *)
(****************************************************************************)

\* findInvitation, by whoever has the link: only one that waits, that has not
\* expired, and that is for the caller's address.
FindInvitation(r, i) ==
    /\ request[r].pc = "idle"
    /\ invite[i].state = "waiting" /\ ~ invite[i].expired
    /\ Checks(r, [pc |-> "accepting", user |-> invite[i].to,
                  role |-> invite[i].role, invitation |-> i])
    /\ byOwner' = IF i \in fromOwner THEN byOwner \cup {r} ELSE byOwner
    /\ UNCHANGED <<role, invite, admitted, fromOwner>>

\* A variant, for the runs to refute: the invitation is not marked.
AcceptUnmarked(r) ==
    LET a == request[r] IN
    /\ a.pc = "accepting"
    /\ CreateMembership(a.user, a.role)
    /\ admitted' = [admitted EXCEPT ![a.invitation] = @ + 1]
    /\ Ends(r)
    /\ UNCHANGED <<invite, fromOwner, overlapped>>

\* Accept: a membership, unless there is one, and the invitation marked if it is
\* still there.
Accept(r) ==
    LET a == request[r] IN
    /\ a.pc = "accepting"
    /\ CreateMembership(a.user, a.role)
    /\ AcceptInvitation(a.invitation)
    /\ admitted' = [admitted EXCEPT ![a.invitation] = @ + 1]
    /\ fromOwner' = fromOwner \ {a.invitation}
    /\ Ends(r)
    /\ UNCHANGED overlapped

\* A request refused, or given up on before it wrote anything.
Abandon(r) ==
    /\ request[r].pc # "idle"
    /\ Ends(r)
    /\ UNCHANGED <<role, invite, admitted, fromOwner, overlapped>>

\* Seven days pass.
Expire(i) ==
    /\ invite[i].state = "waiting" /\ ~ invite[i].expired
    /\ invite' = [invite EXCEPT ![i].expired = TRUE]
    /\ UNCHANGED <<role, request, admitted, hands, overlapped>>

MembersNext ==
    \/ \E r \in Request, u \in User :
         \/ Resolve(r, u) \/ RemoveMember(r, u)
         \/ \E ro \in Assignable : ChangeRole(r, u, ro)
         \/ \E i \in Invitation, ro \in Assignable : Invite(r, i, u, ro)
    \/ \E r \in Request, i \in Invitation : Revoke(r, i) \/ FindInvitation(r, i)
    \/ \E r \in Request : UpdateMember(r) \/ Accept(r) \/ Abandon(r)
    \/ \E i \in Invitation : Expire(i)

MembersSpec == MembersInit /\ [][MembersNext]_memberVars

(****************************************************************************)
(* Properties.                                                              *)
(****************************************************************************)

\* guardLastOwner keeps an owner, whatever roles are changed and whoever is removed,
\* as long as no check was made between another transaction's check and its write.
OwnerRemains == ~ overlapped => Owners # {}

\* guardLastOwner as its comment has it, with transactions that overlap: a change that
\* would leave the organization with no owner is refused.
OwnerAlways == Owners # {}

\* An invitation admits one person once: somebody removed does not come back on the
\* invitation they came with, again as long as checks and writes do not overlap.
AdmitsOnce == ~ overlapped => \A i \in Invitation : admitted[i] <= 1

\* Only owners make owners: whoever becomes one is made one by a request that somebody
\* who was an owner began, or by the acceptance of an invitation such a request sent, so
\* an admin cannot escalate past their role by any requests in any order.  Resolve reads
\* the caller's role and nothing reads it again: an owner demoted or removed in between
\* still makes an owner of somebody by the request begun before, or by an invitation left
\* behind, and never by a request begun after.
OwnersComeFromOwners ==
    [][\A u \in Owners' \ Owners :
          \E r \in byOwner : Writing(r) /\ request[r].user = u /\ request'[r] = Idle]_memberVars
=============================================================================
