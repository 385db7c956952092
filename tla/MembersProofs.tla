---------------------------- MODULE MembersProofs ----------------------------
(****************************************************************************)
(* What the members of an organization and its invitations keep true, for   *)
(* any number of users, invitations and requests.                           *)
(****************************************************************************)
EXTENDS Members, TLAPS, FiniteSetTheorems

USE FounderIsUser, UsersFinite, RolesKnown

\* Somebody other than u is an owner.
OwnerBeside(u) == \E o \in User : o # u /\ role[o] = "owner"

\* What a request has checked still holds when it writes.
ChecksStand ==
    /\ Owners # {}
    /\ \A r, q \in Request : Writing(r) /\ Writing(q) => r = q
    /\ \A r \in Request :
         request[r].pc = "changing" /\ request[r].role # "owner" => OwnerBeside(request[r].user)
    /\ \A i \in Invitation :
         /\ admitted[i] <= 1
         /\ invite[i].state \in {"unsent", "waiting"} => admitted[i] = 0
    /\ \A r \in Request :
         request[r].pc = "accepting" => admitted[request[r].invitation] = 0

AcceptsKnown ==
    \A r \in Request : request[r].pc = "accepting" => request[r].invitation \in Invitation

\* What would make an owner was begun by one.
HandsKnown ==
    /\ \A r \in Request : request[r].role = "owner" => r \in byOwner
    /\ \A i \in Invitation :
         invite[i].state = "waiting" /\ invite[i].role = "owner" => i \in fromOwner

MembersInv ==
    /\ MembersTypeOK
    /\ HandsKnown
    /\ AcceptsKnown
    /\ ~ overlapped => ChecksStand

\* The count that guardLastOwner compares: with more than one owner, there is another.
LEMMA MoreThanOneOwner ==
  ASSUME NEW u \in User, role[u] = "owner", CountOwners > 1
  PROVE  OwnerBeside(u)
<1>1. IsFiniteSet(Owners)
  BY FS_Subset DEF Owners
<1>2. Owners # {u}
  <2>1. Cardinality({u}) = 1
    BY FS_Singleton
  <2> QED BY <2>1 DEF CountOwners
<1>3. u \in Owners
  BY DEF Owners
<1>4. PICK o \in Owners : o # u
  BY <1>2, <1>3
<1> QED BY <1>4 DEF Owners, OwnerBeside

\* What guardLastOwner lets through leaves an owner.
LEMMA GuardLeavesOwner ==
  ASSUME NEW u \in User, NEW ro, ro # "owner", GuardLastOwner(u, ro), Owners # {}
  PROVE  OwnerBeside(u)
<1>1. CASE role[u] = "owner"
  BY <1>1, MoreThanOneOwner DEF GuardLastOwner, GetMembership
<1>2. CASE role[u] # "owner"
  BY <1>2 DEF Owners, OwnerBeside
<1> QED BY <1>1, <1>2

LEMMA LateTyped ==
  ASSUME NEW i \in InviteState PROVE [i EXCEPT !.expired = TRUE] \in InviteState
  BY DEF InviteState

LEMMA StepKeepsType ==
  ASSUME MembersTypeOK, AcceptsKnown, [MembersNext]_memberVars
  PROVE  MembersTypeOK' /\ AcceptsKnown'
<1> USE DEF MembersTypeOK, AcceptsKnown, RequestState, Idle, About, GetMembership,
           CreateMembership, UpdateMemberRole, DeleteMembership, CreateInvitation,
           AcceptInvitation, DeleteInvitation, hands
<1>1. ASSUME NEW r \in Request, NEW u \in User, Resolve(r, u)
      PROVE  MembersTypeOK' /\ AcceptsKnown'
  BY <1>1 DEF Resolve
<1>2. ASSUME NEW r \in Request, NEW u \in User, RemoveMember(r, u)
      PROVE  MembersTypeOK' /\ AcceptsKnown'
  BY <1>2 DEF RemoveMember, Checks
<1>3. ASSUME NEW r \in Request, NEW u \in User, NEW ro \in Assignable, ChangeRole(r, u, ro)
      PROVE  MembersTypeOK' /\ AcceptsKnown'
  BY <1>3 DEF ChangeRole, Checks
<1>4. ASSUME NEW r \in Request, NEW u \in User, NEW ro \in Assignable,
             NEW i \in Invitation, Invite(r, i, u, ro)
      PROVE  MembersTypeOK' /\ AcceptsKnown'
  BY <1>4 DEF Invite, Ends, InviteState
<1>5. ASSUME NEW r \in Request, NEW i \in Invitation, Revoke(r, i)
      PROVE  MembersTypeOK' /\ AcceptsKnown'
  BY <1>5 DEF Revoke, Ends, InviteState, Blank, Role
<1>6. ASSUME NEW r \in Request, NEW i \in Invitation, FindInvitation(r, i)
      PROVE  MembersTypeOK' /\ AcceptsKnown'
  BY <1>6 DEF FindInvitation, Checks, InviteState
<1>7. ASSUME NEW r \in Request, UpdateMember(r)
      PROVE  MembersTypeOK' /\ AcceptsKnown'
  BY <1>7 DEF UpdateMember, Ends
<1>8. ASSUME NEW r \in Request, Accept(r)
      PROVE  MembersTypeOK' /\ AcceptsKnown'
  BY <1>8 DEF Accept, Ends, InviteState
<1>9. ASSUME NEW r \in Request, Abandon(r)
      PROVE  MembersTypeOK' /\ AcceptsKnown'
  BY <1>9 DEF Abandon, Ends
<1>10. ASSUME NEW i \in Invitation, Expire(i)
       PROVE  MembersTypeOK' /\ AcceptsKnown'
  <2> DEFINE late == [invite[i] EXCEPT !.expired = TRUE]
  <2>1. late \in InviteState
    BY LateTyped
  <2>2. invite' = [invite EXCEPT ![i] = late] /\ UNCHANGED <<role, request, admitted, hands, overlapped>>
    BY <1>10 DEF Expire
  <2> HIDE DEF late
  <2> QED BY <2>1, <2>2
<1>11. CASE UNCHANGED memberVars
  BY <1>11 DEF memberVars
<1> QED BY <1>1, <1>2, <1>3, <1>4, <1>5, <1>6, <1>7, <1>8, <1>9, <1>10, <1>11 DEF MembersNext

\* A step after which no two transactions have overlapped keeps what was checked true.
LEMMA StepKeepsChecks ==
  ASSUME MembersInv, MembersTypeOK', [MembersNext]_memberVars, ~ overlapped'
  PROVE  ChecksStand'
<1> USE DEF GetMembership, CreateMembership, UpdateMemberRole, DeleteMembership,
           CreateInvitation, AcceptInvitation, DeleteInvitation
<1> USE DEF MembersInv, MembersTypeOK, AcceptsKnown, RequestState, Idle, About, ChecksStand, Writing,
            OwnerBeside, Owners
<1>1. ~ overlapped
  BY DEF MembersNext, memberVars, Resolve, RemoveMember, ChangeRole, Checks, Invite, Revoke,
         FindInvitation, UpdateMember, Accept, Abandon, Expire
<1>2. ChecksStand
  BY <1>1
<1>3. ASSUME NEW r \in Request, NEW u \in User, Resolve(r, u) PROVE ChecksStand'
  BY <1>2, <1>3 DEF Resolve
<1>4. ASSUME NEW r \in Request, NEW u \in User, RemoveMember(r, u) PROVE ChecksStand'
  <2>1. OwnerBeside(u)
    BY <1>2, <1>4, GuardLeavesOwner DEF RemoveMember
  <2>2. /\ request' = [request EXCEPT ![r] = About("changing", u, "none")]
        /\ UNCHANGED <<role, invite, admitted>>
    BY <1>4 DEF RemoveMember, Checks
  <2>3. \A q \in Request \ {r} : ~ Writing(q) /\ request'[q] = request[q]
    BY <1>4, <2>2 DEF RemoveMember, Checks
  <2>4. request'[r].pc = "changing" /\ request'[r].user = u
    BY <2>2
  <2> QED BY <1>2, <2>1, <2>2, <2>3, <2>4
<1>5. ASSUME NEW r \in Request, NEW u \in User, NEW ro \in Assignable, ChangeRole(r, u, ro)
      PROVE  ChecksStand'
  <2>1. ro # "owner" => OwnerBeside(u)
    BY <1>2, <1>5, GuardLeavesOwner DEF ChangeRole
  <2>2. /\ request' = [request EXCEPT ![r] = About("changing", u, ro)]
        /\ UNCHANGED <<role, invite, admitted>>
    BY <1>5 DEF ChangeRole, Checks
  <2>3. \A q \in Request \ {r} : ~ Writing(q) /\ request'[q] = request[q]
    BY <1>5, <2>2 DEF ChangeRole, Checks
  <2>4. request'[r].pc = "changing" /\ request'[r].user = u /\ request'[r].role = ro
    BY <2>2
  <2> QED BY <1>2, <2>1, <2>2, <2>3, <2>4
<1>6. ASSUME NEW r \in Request, NEW u \in User, NEW ro \in Assignable,
             NEW i \in Invitation, Invite(r, i, u, ro)
      PROVE  ChecksStand'
  BY <1>2, <1>6 DEF Invite, Ends, InviteState
<1>7. ASSUME NEW r \in Request, NEW i \in Invitation, Revoke(r, i) PROVE ChecksStand'
  BY <1>2, <1>7 DEF Revoke, Ends, Blank, InviteState
<1>8. ASSUME NEW r \in Request, NEW i \in Invitation, FindInvitation(r, i) PROVE ChecksStand'
  <2>1. admitted[i] = 0
    BY <1>2, <1>8 DEF FindInvitation
  <2>2. /\ request' = [request EXCEPT ![r] = [pc |-> "accepting", user |-> invite[i].to,
                                  role |-> invite[i].role, invitation |-> i]]
        /\ UNCHANGED <<role, invite, admitted>>
    BY <1>8 DEF FindInvitation, Checks
  <2>3. \A q \in Request \ {r} : ~ Writing(q) /\ request'[q] = request[q]
    BY <1>8, <2>2 DEF FindInvitation, Checks
  <2>4. request'[r].pc = "accepting" /\ request'[r].invitation = i
    BY <2>2
  <2> QED BY <1>2, <2>1, <2>2, <2>3, <2>4
<1>9. ASSUME NEW r \in Request, UpdateMember(r) PROVE ChecksStand'
  BY <1>2, <1>9 DEF UpdateMember, Ends
<1>10. ASSUME NEW r \in Request, Accept(r) PROVE ChecksStand'
  <2> DEFINE a == request[r]
  <2>4. a.pc = "accepting" /\ a.invitation \in Invitation /\ admitted[a.invitation] = 0
    BY <1>2, <1>10 DEF Accept
  <2>5. invite'[a.invitation].state \in {"deleted", "accepted"}
    BY <1>10, <2>4 DEF Accept
  <2>1. \A q \in Request : ~ Writing(q)'
    BY <1>2, <1>10 DEF Accept, Ends
  <2>2. Owners' # {}
    BY <1>2, <1>10 DEF Accept
  <2>3. \A i \in Invitation :
          /\ admitted'[i] <= 1
          /\ invite'[i].state \in {"unsent", "waiting"} => admitted'[i] = 0
    <3> DEFINE w == a.invitation
    <3>1. /\ admitted' = [admitted EXCEPT ![w] = @ + 1]
          /\ \A i \in Invitation \ {w} : invite'[i] = invite[i]
      BY <1>10 DEF Accept
    <3>2. w \in Invitation /\ admitted[w] = 0 /\ invite'[w].state \in {"deleted", "accepted"}
      BY <2>4, <2>5
    <3> HIDE DEF a, w
    <3>3. \A i \in Invitation \ {w} : admitted'[i] = admitted[i]
      BY <3>1
    <3>4. admitted'[w] = 1
      BY <3>1, <3>2
    <3> QED BY <1>2, <3>1, <3>2, <3>3, <3>4
  <2> QED BY <2>1, <2>2, <2>3
<1>11. ASSUME NEW r \in Request, Abandon(r) PROVE ChecksStand'
  BY <1>2, <1>11 DEF Abandon, Ends
<1>12. ASSUME NEW i \in Invitation, Expire(i) PROVE ChecksStand'
  BY <1>2, <1>12 DEF Expire, InviteState
<1>13. CASE UNCHANGED memberVars
  BY <1>2, <1>13 DEF memberVars
<1> QED BY <1>3, <1>4, <1>5, <1>6, <1>7, <1>8, <1>9, <1>10, <1>11, <1>12, <1>13 DEF MembersNext

\* Whatever comes to stand for an owner's doing was begun by one, and a step that makes
\* somebody an owner is such a request's write.
LEMMA StepShowsHands ==
  ASSUME MembersInv, MembersTypeOK', [MembersNext]_memberVars
  PROVE  /\ HandsKnown'
         /\ \A o \in Owners' \ Owners : \E r \in byOwner :
              Writing(r) /\ request[r].user = o /\ request'[r] = Idle
<1> USE DEF MembersInv, MembersTypeOK, HandsKnown, AcceptsKnown, RequestState, Idle, About, Owners,
           Writing, GetMembership, CreateMembership, UpdateMemberRole, DeleteMembership,
           CreateInvitation, AcceptInvitation, DeleteInvitation, hands
<1> DEFINE Shown == \A o \in Owners' \ Owners : \E r \in byOwner :
                      Writing(r) /\ request[r].user = o /\ request'[r] = Idle
<1>1. ASSUME NEW r \in Request, NEW u \in User, Resolve(r, u) PROVE HandsKnown' /\ Shown
  BY <1>1 DEF Resolve
<1>2. ASSUME NEW r \in Request, NEW u \in User, RemoveMember(r, u) PROVE HandsKnown' /\ Shown
  BY <1>2 DEF RemoveMember, Checks
<1>3. ASSUME NEW r \in Request, NEW u \in User, NEW ro \in Assignable, ChangeRole(r, u, ro)
      PROVE  HandsKnown' /\ Shown
  BY <1>3 DEF ChangeRole, Checks, MayGive, Standing
<1>4. ASSUME NEW r \in Request, NEW u \in User, NEW ro \in Assignable,
             NEW i \in Invitation, Invite(r, i, u, ro)
      PROVE  HandsKnown' /\ Shown
  BY <1>4 DEF Invite, Ends, MayGive, Standing, InviteState
<1>5. ASSUME NEW r \in Request, NEW i \in Invitation, Revoke(r, i) PROVE HandsKnown' /\ Shown
  BY <1>5 DEF Revoke, Ends, Blank, InviteState
<1>6. ASSUME NEW r \in Request, NEW i \in Invitation, FindInvitation(r, i)
      PROVE  HandsKnown' /\ Shown
  BY <1>6 DEF FindInvitation, Checks, InviteState
<1>7. ASSUME NEW r \in Request, UpdateMember(r) PROVE HandsKnown' /\ Shown
  BY <1>7 DEF UpdateMember, Ends
<1>8. ASSUME NEW r \in Request, Accept(r) PROVE HandsKnown' /\ Shown
  BY <1>8 DEF Accept, Ends, InviteState
<1>9. ASSUME NEW r \in Request, Abandon(r) PROVE HandsKnown' /\ Shown
  BY <1>9 DEF Abandon, Ends
<1>10. ASSUME NEW i \in Invitation, Expire(i) PROVE HandsKnown' /\ Shown
  BY <1>10 DEF Expire, InviteState
<1>11. CASE UNCHANGED memberVars
  BY <1>11 DEF memberVars
<1> QED BY <1>1, <1>2, <1>3, <1>4, <1>5, <1>6, <1>7, <1>8, <1>9, <1>10, <1>11 DEF MembersNext

LEMMA InitHolds == ASSUME MembersInit PROVE MembersInv
<1>1. MembersTypeOK
  BY DEF MembersInit, MembersTypeOK, Blank, Idle, About, InviteState, RequestState, Role
<1>2. AcceptsKnown /\ HandsKnown
  BY DEF MembersInit, AcceptsKnown, HandsKnown, Idle, About, Blank
<1>3. Founder \in Owners
  BY DEF MembersInit, Owners
<1>4. ChecksStand
  BY <1>3 DEF MembersInit, ChecksStand, Writing, Idle, About
<1> QED BY <1>1, <1>2, <1>4 DEF MembersInv

\* The inductive invariant: types, and, as long as no check came between another's
\* check and its write, that whatever a request has checked is still so.
THEOREM MembersInvariant == MembersSpec => []MembersInv
<1>1. MembersInv /\ [MembersNext]_memberVars => MembersInv'
  BY StepKeepsType, StepKeepsChecks, StepShowsHands DEF MembersInv
<1> QED BY <1>1, InitHolds, PTL DEF MembersSpec

\* The state of an organization keeps its type.
THEOREM MembersTypeCorrect == MembersSpec => []MembersTypeOK
<1>1. MembersInv => MembersTypeOK
  BY DEF MembersInv
<1> QED BY <1>1, MembersInvariant, PTL

\* guardLastOwner is enough when checks and writes do not overlap.
THEOREM OwnerIsKept == MembersSpec => []OwnerRemains
<1>1. MembersInv => OwnerRemains
  BY DEF MembersInv, ChecksStand, OwnerRemains
<1> QED BY <1>1, MembersInvariant, PTL

\* An invitation admits once when checks and writes do not overlap.
THEOREM InvitationAdmitsOnce == MembersSpec => []AdmitsOnce
<1>1. MembersInv => AdmitsOnce
  BY DEF MembersInv, ChecksStand, AdmitsOnce
<1> QED BY <1>1, MembersInvariant, PTL

\* An admin cannot escalate past their role: whoever becomes an owner is made one by a
\* request that an owner began, or by an invitation such a request sent.
THEOREM OnlyOwnersMakeOwners == MembersSpec => OwnersComeFromOwners
<1>1. ASSUME MembersInv, MembersInv', [MembersNext]_memberVars
      PROVE  [\A u \in Owners' \ Owners : \E r \in byOwner :
                Writing(r) /\ request[r].user = u /\ request'[r] = Idle]_memberVars
  BY <1>1, StepShowsHands DEF MembersInv
<1> QED BY <1>1, MembersInvariant, PTL DEF MembersSpec, OwnersComeFromOwners
==============================================================================
