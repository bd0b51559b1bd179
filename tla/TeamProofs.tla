----------------------------- MODULE TeamProofs -----------------------------
(***************************************************************************)
(* Proofs about Team, for any limit, any finite sets of members and        *)
(* invitations and any number of requests.                                 *)
(***************************************************************************)
EXTENDS Team, FiniteSetTheorems, TLAPS

(* Pending, or expired with the workspace: whoever holds the workspace row *)
(* may still accept these.                                                 *)
Waiting == {i \in Invited : ~invitations[i].accepted /\ ~invitations[i].revoked}

Seats == Cardinality(ActiveMembers) + Cardinality(Waiting)

(* What the checks of a request established and the lock, or the fact that *)
(* rows are never deleted, keeps true until its commit.                    *)
InvitersAreChecked ==
    \A q \in Requests : requests[q].step = "inviting" =>
        /\ requests[q].email \in Emails
        /\ Seats < Limit
        /\ \A i \in Waiting : invitations[i].email # requests[q].email

AccepterIsChecked ==
    \A q \in Requests : requests[q].step = "accepting" => requests[q].invitation \in Waiting

EditorsAreJoined ==
    \A q \in Requests : requests[q].step = "renaming" =>
        requests[q].email \in Emails /\ requests[q].member \in Joined

WaitingEmailsDistinct ==
    \A i, j \in Waiting : invitations[i].email = invitations[j].email => i = j

TeamInv ==
    /\ TypeOK
    /\ InvitersAreChecked
    /\ AccepterIsChecked
    /\ EditorsAreJoined
    /\ Seats <= Limit
    /\ OneMemberPerInvitation
    /\ WaitingEmailsDistinct

-----------------------------------------------------------------------------
LEMMA SetsAreFinite ==
    /\ IsFiniteSet(Joined) /\ Cardinality(Joined) \in Nat
    /\ IsFiniteSet(Accepted) /\ Cardinality(Accepted) \in Nat
    /\ IsFiniteSet(ActiveMembers) /\ Cardinality(ActiveMembers) \in Nat
    /\ IsFiniteSet(Waiting) /\ Cardinality(Waiting) \in Nat
<1>1. /\ Joined \subseteq Members /\ ActiveMembers \subseteq Members
      /\ Accepted \subseteq Invitations /\ Waiting \subseteq Invitations
    BY DEF Joined, ActiveMembers, Accepted, Waiting, Invited
<1>2. IsFiniteSet(Members) /\ IsFiniteSet(Invitations)
    BY TeamAssumption
<1> QED BY <1>1, <1>2, FS_Subset, FS_CardinalityType

LEMMA PendingIsWaiting ==
    /\ PendingInvitations \subseteq Waiting
    /\ open => PendingInvitations = Waiting
    BY DEF PendingInvitations, Waiting

(* Requests that change no row of either table.                            *)
LEMMA RowsKeepSets ==
    ASSUME UNCHANGED <<members, invitations>>
    PROVE  /\ Joined' = Joined /\ ActiveMembers' = ActiveMembers
           /\ Accepted' = Accepted /\ Waiting' = Waiting
           /\ Seats' = Seats
           /\ OneMemberPerInvitation' = OneMemberPerInvitation
           /\ WaitingEmailsDistinct' = WaitingEmailsDistinct
    BY DEF Joined, ActiveMembers, Accepted, Waiting, Invited, Seats,
           OneMemberPerInvitation, WaitingEmailsDistinct

LEMMA InitTeamInv == Init => TeamInv
<1> SUFFICES ASSUME Init PROVE TeamInv
    OBVIOUS
<1> USE TeamAssumption
<1>1. TypeOK
    BY DEF Init, TypeOK, MemberRow, InvitationRow, RequestRow, Idle
<1>2. Joined = {Owner} /\ ActiveMembers = {Owner}
    BY DEF Init, Joined, ActiveMembers
<1>3. Invited = {} /\ Accepted = {} /\ Waiting = {}
    BY DEF Init, Invited, Accepted, Waiting
<1>4. Cardinality({Owner}) = 1 /\ Cardinality({}) = 0
    BY FS_Singleton, FS_EmptySet
<1>5. Seats <= Limit /\ OneMemberPerInvitation /\ WaitingEmailsDistinct
    BY <1>2, <1>3, <1>4 DEF Seats, OneMemberPerInvitation, WaitingEmailsDistinct
<1>6. InvitersAreChecked /\ AccepterIsChecked /\ EditorsAreJoined
    BY DEF Init, Idle, InvitersAreChecked, AccepterIsChecked, EditorsAreJoined
<1> QED BY <1>1, <1>5, <1>6 DEF TeamInv

-----------------------------------------------------------------------------
(* Types, action by action.                                                *)
LEMMA MemberRowUpdates ==
    ASSUME NEW f \in [Members -> MemberRow], NEW m \in Members, NEW e \in Emails \cup {None}
    PROVE  /\ [f EXCEPT ![m].active = FALSE] \in [Members -> MemberRow]
           /\ [f EXCEPT ![m].email = e] \in [Members -> MemberRow]
           /\ [f EXCEPT ![m] = [email |-> e, active |-> TRUE]] \in [Members -> MemberRow]
    BY DEF MemberRow

LEMMA InvitationRowUpdates ==
    ASSUME NEW f \in [Invitations -> InvitationRow], NEW i \in Invitations, NEW e \in Emails \cup {None}
    PROVE  /\ [f EXCEPT ![i] = [email |-> e, accepted |-> FALSE, revoked |-> FALSE]] \in [Invitations -> InvitationRow]
           /\ [f EXCEPT ![i].accepted = TRUE] \in [Invitations -> InvitationRow]
           /\ [f EXCEPT ![i].revoked = TRUE] \in [Invitations -> InvitationRow]
    BY DEF InvitationRow

LEMMA TypesPreserved == TypeOK /\ AccepterIsChecked /\ EditorsAreJoined /\ [Next]_vars => TypeOK'
<1> SUFFICES ASSUME TypeOK, AccepterIsChecked, EditorsAreJoined, [Next]_vars PROVE TypeOK'
    OBVIOUS
<1>0. /\ members \in [Members -> MemberRow]
      /\ invitations \in [Invitations -> InvitationRow]
    BY DEF TypeOK
<1> USE TeamAssumption DEF TypeOK, RequestRow, Idle, Enter, Leave
<1>1. ASSUME NEW q \in Requests, NEW e \in Emails, Invite(q, e) PROVE TypeOK'
    BY <1>1 DEF Invite
<1>2. ASSUME NEW q \in Requests, NEW i \in Invitations, CommitInvite(q, i) PROVE TypeOK'
  <2>1. requests[q].email \in Emails \cup {None}
      OBVIOUS
  <2>2. invitations' \in [Invitations -> InvitationRow]
      BY <1>0, <1>2, <2>1, InvitationRowUpdates DEF CommitInvite
  <2> QED BY <1>2, <2>2 DEF CommitInvite
<1>3. ASSUME NEW q \in Requests, NEW i \in Invitations, FindInvitation(q, i) PROVE TypeOK'
    BY <1>3 DEF FindInvitation
<1>4. ASSUME NEW i \in Invitations, Revoke(i) PROVE TypeOK'
  <2>1. invitations' \in [Invitations -> InvitationRow]
      BY <1>0, <1>4, InvitationRowUpdates DEF Revoke
  <2> QED BY <1>4, <2>1 DEF Revoke
<1>5. ASSUME NEW q \in Requests, Accept(q) PROVE TypeOK'
    BY <1>5 DEF Accept
<1>6. ASSUME NEW q \in Requests, AcceptRefused(q) PROVE TypeOK'
    BY <1>6 DEF AcceptRefused
<1>7. ASSUME NEW q \in Requests, CommitProfile(q) PROVE TypeOK'
  <2>1. requests[q].member \in Members /\ requests[q].email \in Emails
      BY <1>7 DEF CommitProfile, EditorsAreJoined, Joined
  <2>2. members' \in [Members -> MemberRow]
      BY <1>0, <1>7, <2>1, MemberRowUpdates DEF CommitProfile
  <2> QED BY <1>7, <2>2 DEF CommitProfile
<1>8. ASSUME NEW q \in Requests, Abort(q) PROVE TypeOK'
    BY <1>8 DEF Abort
<1>9. ASSUME NEW q \in Requests, NEW m \in Members, CommitAccept(q, m) PROVE TypeOK'
  <2>1. requests[q].invitation \in Invitations
      BY <1>9 DEF CommitAccept, AccepterIsChecked, Waiting, Invited
  <2>2. invitations[requests[q].invitation].email \in Emails \cup {None}
      BY <1>0, <2>1 DEF InvitationRow
  <2>3. members' \in [Members -> MemberRow]
      BY <1>0, <1>9, <2>2, MemberRowUpdates DEF CommitAccept
  <2>4. invitations' \in [Invitations -> InvitationRow]
      BY <1>0, <1>9, <2>1, InvitationRowUpdates DEF CommitAccept
  <2> QED BY <1>9, <2>3, <2>4 DEF CommitAccept
<1>10. ASSUME NEW m \in Members, RemoveMember(m) PROVE TypeOK'
  <2>1. members' \in [Members -> MemberRow]
      BY <1>0, <1>10, MemberRowUpdates DEF RemoveMember
  <2> QED BY <1>10, <2>1 DEF RemoveMember
<1>11. ASSUME NEW q \in Requests, NEW m \in Members, NEW e \in Emails, EditProfile(q, m, e) PROVE TypeOK'
    BY <1>11 DEF EditProfile
<1>12. ASSUME Expire PROVE TypeOK'
    BY <1>12 DEF Expire
<1>13. CASE UNCHANGED vars
    BY <1>13 DEF vars
<1> QED BY <1>1, <1>2, <1>3, <1>4, <1>5, <1>6, <1>7, <1>8, <1>9, <1>10, <1>11, <1>12, <1>13 DEF Next

-----------------------------------------------------------------------------
(* What each step that writes a table does to the seats.                   *)
LEMMA CommitInviteSeats ==
    ASSUME TypeOK, InvitersAreChecked, NEW q \in Requests, NEW i \in Invitations, CommitInvite(q, i)
    PROVE  /\ i \notin Waiting /\ Waiting' = Waiting \cup {i}
           /\ Accepted' = Accepted /\ Joined' = Joined /\ ActiveMembers' = ActiveMembers
           /\ invitations'[i].email = requests[q].email
           /\ \A j \in Waiting : invitations'[j].email = invitations[j].email
<1>1. requests[q].email \in Emails
    BY DEF InvitersAreChecked, CommitInvite
<1>2. invitations' = [invitations EXCEPT ![i] =
                        [email |-> requests[q].email, accepted |-> FALSE, revoked |-> FALSE]]
    BY DEF CommitInvite
<1>3. \A j \in Invitations : invitations'[j] =
          IF j = i THEN [email |-> requests[q].email, accepted |-> FALSE, revoked |-> FALSE]
                   ELSE invitations[j]
    BY <1>2 DEF TypeOK
<1>4. Invited' = Invited \cup {i} /\ i \notin Invited
    BY <1>1, <1>3, TeamAssumption DEF Invited, CommitInvite
<1>5. Waiting' = Waiting \cup {i} /\ i \notin Waiting /\ Accepted' = Accepted
    BY <1>3, <1>4 DEF Waiting, Accepted, Invited
<1>6. Joined' = Joined /\ ActiveMembers' = ActiveMembers
    BY DEF CommitInvite, Joined, ActiveMembers
<1>7. \A j \in Waiting : j # i /\ j \in Invitations
    BY <1>5 DEF Waiting, Invited
<1> QED BY <1>3, <1>5, <1>6, <1>7

LEMMA RevokeSeats ==
    ASSUME TypeOK, NEW i \in Invitations, Revoke(i)
    PROVE  /\ Waiting' = Waiting \ {i}
           /\ Accepted' = Accepted /\ Joined' = Joined /\ ActiveMembers' = ActiveMembers
           /\ \A j \in Invitations : /\ invitations'[j].email = invitations[j].email
                                     /\ invitations'[j].accepted = invitations[j].accepted
<1>1. invitations' = [invitations EXCEPT ![i].revoked = TRUE]
    BY DEF Revoke
<1>2. \A j \in Invitations :
          /\ invitations'[j].email = invitations[j].email
          /\ invitations'[j].accepted = invitations[j].accepted
          /\ invitations'[j].revoked = (j = i \/ invitations[j].revoked)
    BY <1>1 DEF TypeOK, InvitationRow
<1>3. Invited' = Invited
    BY <1>2 DEF Invited
<1> QED BY <1>2, <1>3 DEF Waiting, Accepted, Joined, ActiveMembers, Revoke, Invited

LEMMA CommitAcceptSeats ==
    ASSUME TypeOK, AccepterIsChecked, NEW q \in Requests, NEW m \in Members, CommitAccept(q, m)
    PROVE  LET i == requests[q].invitation
           IN  /\ i \in Waiting /\ Waiting' = Waiting \ {i}
               /\ i \notin Accepted /\ Accepted' = Accepted \cup {i}
               /\ m \notin Joined /\ Joined' = Joined \cup {m}
               /\ ActiveMembers' = ActiveMembers \cup {m}
               /\ \A j \in Invitations : invitations'[j].email = invitations[j].email
<1> DEFINE i == requests[q].invitation
<1>1. i \in Waiting /\ i \in Invitations /\ i \notin Accepted
    BY DEF AccepterIsChecked, CommitAccept, Waiting, Accepted, Invited
<1>2. \A j \in Invitations :
          /\ invitations'[j].email = invitations[j].email
          /\ invitations'[j].accepted = (j = i \/ invitations[j].accepted)
          /\ invitations'[j].revoked = invitations[j].revoked
    BY <1>1 DEF CommitAccept, TypeOK, InvitationRow
<1>3. invitations[i].email # None
    BY <1>1 DEF Waiting, Invited
<1>4. \A n \in Members : members'[n] =
          IF n = m THEN [email |-> invitations[i].email, active |-> TRUE] ELSE members[n]
    BY DEF CommitAccept, TypeOK
<1>5. m \notin Joined
    BY DEF CommitAccept
<1>6. Joined' = Joined \cup {m}
    BY <1>3, <1>4 DEF Joined
<1>7. ActiveMembers' = ActiveMembers \cup {m}
    BY <1>4, <1>6 DEF ActiveMembers, Joined
<1>8. Invited' = Invited
    BY <1>2 DEF Invited
<1>9. Waiting' = Waiting \ {i} /\ Accepted' = Accepted \cup {i}
    BY <1>1, <1>2, <1>8 DEF Waiting, Accepted, Invited
<1> QED BY <1>1, <1>2, <1>5, <1>6, <1>7, <1>9

LEMMA RemoveMemberSeats ==
    ASSUME TypeOK, NEW m \in Members, RemoveMember(m)
    PROVE  /\ Joined' = Joined /\ ActiveMembers' = ActiveMembers \ {m}
           /\ Accepted' = Accepted /\ Waiting' = Waiting /\ invitations' = invitations
<1>1. \A n \in Members : /\ members'[n].email = members[n].email
                         /\ members'[n].active = (n # m /\ members[n].active)
    BY DEF RemoveMember, TypeOK, MemberRow
<1>2. invitations' = invitations
    BY DEF RemoveMember
<1>3. Joined' = Joined
    BY <1>1 DEF Joined
<1> QED BY <1>1, <1>2, <1>3 DEF Joined, ActiveMembers, Accepted, Waiting, Invited

LEMMA CommitProfileSeats ==
    ASSUME TypeOK, EditorsAreJoined, NEW q \in Requests, CommitProfile(q)
    PROVE  /\ Joined' = Joined /\ ActiveMembers' = ActiveMembers
           /\ Accepted' = Accepted /\ Waiting' = Waiting /\ invitations' = invitations
           /\ \A n \in Members : members'[n].active = members[n].active
<1> DEFINE m == requests[q].member
<1>1. m \in Joined /\ m \in Members /\ requests[q].email # None
    BY TeamAssumption DEF EditorsAreJoined, CommitProfile, Joined
<1>2. \A n \in Members :
          /\ members'[n].email = IF n = m THEN requests[q].email ELSE members[n].email
          /\ members'[n].active = members[n].active
    BY <1>1 DEF CommitProfile, TypeOK, MemberRow
<1>3. Joined' = Joined
    BY <1>1, <1>2 DEF Joined
<1>4. invitations' = invitations
    BY DEF CommitProfile
<1> QED BY <1>2, <1>3, <1>4 DEF Joined, ActiveMembers, Accepted, Waiting, Invited

-----------------------------------------------------------------------------
(* The invariant.  Nobody else commits an invitation or an acceptance while *)
(* a request holds the workspace row; removals and profiles only lower the *)
(* count.                                                                  *)
LEMMA FreeLockChecksNobody ==
    TypeOK /\ lock = None => InvitersAreChecked /\ AccepterIsChecked
    BY TeamAssumption DEF TypeOK, InvitersAreChecked, AccepterIsChecked

LEMMA JoiningEditors ==
    ASSUME TypeOK, EditorsAreJoined, Joined \subseteq Joined', NEW q \in Requests,
           \/ requests' = requests
           \/ Leave(q)
           \/ \E e, i, m : \E step \in {"inviting", "found", "accepting"} : Enter(q, step, e, i, m)
    PROVE  EditorsAreJoined'
    BY DEF TypeOK, EditorsAreJoined, Leave, Enter, Idle

(* Requests that change no row but may enter or leave a step.              *)
LEMMA QuietRequests ==
    ASSUME TeamInv, UNCHANGED <<members, invitations>>,
           InvitersAreChecked', AccepterIsChecked', EditorsAreJoined', TypeOK'
    PROVE  TeamInv'
<1>1. Seats' <= Limit /\ OneMemberPerInvitation' /\ WaitingEmailsDistinct'
    BY RowsKeepSets DEF TeamInv
<1> QED BY <1>1 DEF TeamInv

LEMMA CommitInvitePreserves ==
    ASSUME TeamInv, TypeOK', NEW q \in Requests, NEW i \in Invitations, CommitInvite(q, i)
    PROVE  TeamInv'
<1> USE DEF TeamInv
<1>1. /\ i \notin Waiting /\ Waiting' = Waiting \cup {i}
      /\ Accepted' = Accepted /\ Joined' = Joined /\ ActiveMembers' = ActiveMembers
      /\ invitations'[i].email = requests[q].email
      /\ \A j \in Waiting : invitations'[j].email = invitations[j].email
    BY CommitInviteSeats
<1>2. Seats < Limit /\ \A j \in Waiting : invitations[j].email # requests[q].email
    BY DEF InvitersAreChecked, CommitInvite
<1>3. Cardinality(Waiting \cup {i}) = Cardinality(Waiting) + 1
    BY <1>1, SetsAreFinite, FS_AddElement
<1>4. Seats' <= Limit
    BY <1>1, <1>2, <1>3, SetsAreFinite, TeamAssumption DEF Seats
<1>5. OneMemberPerInvitation'
    BY <1>1 DEF OneMemberPerInvitation
<1>6. WaitingEmailsDistinct'
    BY <1>1, <1>2 DEF WaitingEmailsDistinct
<1>7. InvitersAreChecked' /\ AccepterIsChecked'
  <2>1. (TypeOK /\ lock = None)'
      BY DEF CommitInvite
  <2> QED BY <2>1, FreeLockChecksNobody, PTL
<1>8. EditorsAreJoined'
    BY <1>1, JoiningEditors DEF CommitInvite
<1> QED BY <1>4, <1>5, <1>6, <1>7, <1>8

LEMMA RevokePreserves ==
    ASSUME TeamInv, TypeOK', NEW i \in Invitations, Revoke(i)
    PROVE  TeamInv'
<1> USE DEF TeamInv
<1>1. /\ Waiting' = Waiting \ {i}
      /\ Accepted' = Accepted /\ Joined' = Joined /\ ActiveMembers' = ActiveMembers
      /\ \A j \in Invitations : invitations'[j].email = invitations[j].email
    BY RevokeSeats
<1>2. IsFiniteSet(Waiting) /\ Waiting' \subseteq Waiting /\ Waiting \subseteq Invitations
    BY <1>1, SetsAreFinite DEF Waiting, Invited
<1>3. Cardinality(Waiting') <= Cardinality(Waiting) /\ Cardinality(Waiting') \in Nat
    BY <1>2, FS_Subset, FS_CardinalityType
<1>4. Seats' <= Limit
    BY <1>1, <1>3, SetsAreFinite, TeamAssumption DEF Seats
<1>5. OneMemberPerInvitation'
    BY <1>1 DEF OneMemberPerInvitation
<1>6. WaitingEmailsDistinct'
    BY <1>1, <1>2 DEF WaitingEmailsDistinct
<1>7. InvitersAreChecked' /\ AccepterIsChecked'
  <2>1. (TypeOK /\ lock = None)'
      BY DEF Revoke
  <2> QED BY <2>1, FreeLockChecksNobody, PTL
<1>8. EditorsAreJoined'
    BY <1>1 DEF EditorsAreJoined, Revoke
<1> QED BY <1>4, <1>5, <1>6, <1>7, <1>8

LEMMA CommitAcceptPreserves ==
    ASSUME TeamInv, TypeOK', NEW q \in Requests, NEW m \in Members, CommitAccept(q, m)
    PROVE  TeamInv'
<1> USE DEF TeamInv
<1>1. PICK i \in Invitations :
          /\ i \in Waiting /\ Waiting' = Waiting \ {i}
          /\ i \notin Accepted /\ Accepted' = Accepted \cup {i}
          /\ m \notin Joined /\ Joined' = Joined \cup {m}
          /\ ActiveMembers' = ActiveMembers \cup {m}
          /\ \A j \in Invitations : invitations'[j].email = invitations[j].email
  <2>1. requests[q].invitation \in Invitations
      BY DEF AccepterIsChecked, CommitAccept, Waiting, Invited
  <2> QED BY <2>1, CommitAcceptSeats
<1>2. m \notin ActiveMembers
    BY <1>1 DEF ActiveMembers
<1>3. /\ Cardinality(Waiting') = Cardinality(Waiting) - 1
      /\ Cardinality(Accepted') = Cardinality(Accepted) + 1
      /\ Cardinality(Joined') = Cardinality(Joined) + 1
      /\ Cardinality(ActiveMembers') = Cardinality(ActiveMembers) + 1
    BY <1>1, <1>2, SetsAreFinite, FS_AddElement, FS_RemoveElement
<1>4. Seats' <= Limit
    BY <1>3, SetsAreFinite, TeamAssumption DEF Seats
<1>5. OneMemberPerInvitation'
    BY <1>3, SetsAreFinite DEF OneMemberPerInvitation
<1>6. WaitingEmailsDistinct'
  <2>1. Waiting \subseteq Invitations
      BY DEF Waiting, Invited
  <2> QED BY <1>1, <2>1 DEF WaitingEmailsDistinct
<1>7. InvitersAreChecked' /\ AccepterIsChecked'
  <2>1. (TypeOK /\ lock = None)'
      BY DEF CommitAccept
  <2> QED BY <2>1, FreeLockChecksNobody, PTL
<1>8. EditorsAreJoined'
    BY <1>1, JoiningEditors DEF CommitAccept
<1> QED BY <1>4, <1>5, <1>6, <1>7, <1>8

LEMMA RemoveMemberPreserves ==
    ASSUME TeamInv, TypeOK', NEW m \in Members, RemoveMember(m)
    PROVE  TeamInv'
<1> USE DEF TeamInv
<1>1. /\ Joined' = Joined /\ ActiveMembers' = ActiveMembers \ {m}
      /\ Accepted' = Accepted /\ Waiting' = Waiting /\ invitations' = invitations
      /\ requests' = requests
    BY RemoveMemberSeats DEF RemoveMember
<1>2. Cardinality(ActiveMembers') <= Cardinality(ActiveMembers) /\ Cardinality(ActiveMembers') \in Nat
    BY <1>1, SetsAreFinite, FS_Subset, FS_CardinalityType
<1>3. Seats' <= Seats /\ Seats' \in Nat /\ Seats \in Nat
    BY <1>1, <1>2, SetsAreFinite DEF Seats
<1>4. Seats' <= Limit
    BY <1>3, TeamAssumption
<1>5. OneMemberPerInvitation' /\ WaitingEmailsDistinct'
    BY <1>1 DEF OneMemberPerInvitation, WaitingEmailsDistinct
<1>6. InvitersAreChecked'
    BY <1>1, <1>3, TeamAssumption DEF InvitersAreChecked
<1>7. AccepterIsChecked' /\ EditorsAreJoined'
    BY <1>1 DEF AccepterIsChecked, EditorsAreJoined
<1> QED BY <1>4, <1>5, <1>6, <1>7

LEMMA CommitProfilePreserves ==
    ASSUME TeamInv, TypeOK', NEW q \in Requests, CommitProfile(q)
    PROVE  TeamInv'
<1> USE DEF TeamInv
<1>1. /\ Joined' = Joined /\ ActiveMembers' = ActiveMembers
      /\ Accepted' = Accepted /\ Waiting' = Waiting /\ invitations' = invitations
    BY CommitProfileSeats
<1>2. Seats' = Seats
    BY <1>1 DEF Seats
<1>3. OneMemberPerInvitation' /\ WaitingEmailsDistinct'
    BY <1>1 DEF OneMemberPerInvitation, WaitingEmailsDistinct
<1>4. requests' = [requests EXCEPT ![q] = Idle]
    BY DEF CommitProfile, Leave
<1>5. InvitersAreChecked' /\ AccepterIsChecked'
    BY <1>1, <1>2, <1>4 DEF InvitersAreChecked, AccepterIsChecked, TypeOK, Idle
<1>6. EditorsAreJoined'
    BY <1>1, <1>4 DEF EditorsAreJoined, TypeOK, Idle
<1> QED BY <1>2, <1>3, <1>5, <1>6

(* Steps of a request that write neither table.                            *)
LEMMA QuietPreserves ==
    ASSUME TeamInv, TypeOK', NEW q \in Requests,
           \/ \E e \in Emails : Invite(q, e)
           \/ \E i \in Invitations : FindInvitation(q, i)
           \/ Accept(q)
           \/ AcceptRefused(q)
           \/ \E m \in Members, e \in Emails : EditProfile(q, m, e)
           \/ Abort(q)
    PROVE  TeamInv'
<1> USE DEF TeamInv
<1>1. UNCHANGED <<members, invitations>>
    BY DEF Invite, FindInvitation, Accept, AcceptRefused, EditProfile, Abort
<1>2. Joined' = Joined /\ Waiting' = Waiting /\ Seats' = Seats
    BY <1>1, RowsKeepSets
<1>3. \A p \in Requests \ {q} : requests'[p] = requests[p]
    BY DEF Invite, FindInvitation, Accept, AcceptRefused, EditProfile, Abort, Enter, Leave, TypeOK
<1>4. requests'[q].step = "inviting" =>
          /\ requests'[q].email \in Emails
          /\ Seats < Limit
          /\ \A i \in Waiting : invitations[i].email # requests'[q].email
    BY PendingIsWaiting DEF Invite, FindInvitation, Accept, AcceptRefused, EditProfile, Abort, Enter, Leave,
       Idle, TypeOK, Seats
<1>5. InvitersAreChecked'
    BY <1>1, <1>2, <1>3, <1>4 DEF InvitersAreChecked
<1>6. requests'[q].step = "accepting" => requests'[q].invitation \in Waiting
    BY PendingIsWaiting DEF Invite, FindInvitation, Accept, AcceptRefused, EditProfile, Abort, Enter, Leave,
       Idle, TypeOK, StillAvailable
<1>7. AccepterIsChecked'
    BY <1>2, <1>3, <1>6 DEF AccepterIsChecked
<1>8. requests'[q].step = "renaming" => requests'[q].email \in Emails /\ requests'[q].member \in Joined
  <2>1. CASE \E m \in Members, e \in Emails : EditProfile(q, m, e)
    <3>1. PICK m \in Members, e \in Emails : EditProfile(q, m, e)
        BY <2>1
    <3>2. requests'[q].email = e /\ requests'[q].member = m
        BY <3>1 DEF EditProfile, Enter, TypeOK
    <3>3. m \in Joined
        BY <3>1 DEF EditProfile, ActiveMembers
    <3> QED BY <3>2, <3>3
  <2>2. CASE ~ \E m \in Members, e \in Emails : EditProfile(q, m, e)
      BY <2>2 DEF Invite, FindInvitation, Accept, AcceptRefused, Abort, Enter, Leave, Idle, TypeOK
  <2> QED BY <2>1, <2>2
<1>9. EditorsAreJoined'
    BY <1>2, <1>3, <1>8 DEF EditorsAreJoined
<1> QED BY <1>1, <1>5, <1>7, <1>9, QuietRequests

(* The workspace expires, or nothing happens.                              *)
LEMMA RestPreserves ==
    ASSUME TeamInv, TypeOK', Expire \/ UNCHANGED vars
    PROVE  TeamInv'
<1>1. UNCHANGED <<members, invitations, requests>>
    BY DEF Expire, vars
<1>2. Joined' = Joined /\ Waiting' = Waiting /\ Seats' = Seats
    BY <1>1, RowsKeepSets
<1>3. InvitersAreChecked' /\ AccepterIsChecked' /\ EditorsAreJoined'
    BY <1>1, <1>2 DEF TeamInv, InvitersAreChecked, AccepterIsChecked, EditorsAreJoined
<1> QED BY <1>1, <1>3, QuietRequests

LEMMA TeamInvPreserved == TeamInv /\ [Next]_vars => TeamInv'
<1> SUFFICES ASSUME TeamInv, [Next]_vars PROVE TeamInv'
    OBVIOUS
<1>1. TypeOK'
    BY TypesPreserved DEF TeamInv
<1>2. ASSUME NEW q \in Requests, NEW i \in Invitations, CommitInvite(q, i) PROVE TeamInv'
    BY <1>1, <1>2, CommitInvitePreserves
<1>3. ASSUME NEW i \in Invitations, Revoke(i) PROVE TeamInv'
    BY <1>1, <1>3, RevokePreserves
<1>4. ASSUME NEW q \in Requests, NEW m \in Members, CommitAccept(q, m) PROVE TeamInv'
    BY <1>1, <1>4, CommitAcceptPreserves
<1>5. ASSUME NEW m \in Members, RemoveMember(m) PROVE TeamInv'
    BY <1>1, <1>5, RemoveMemberPreserves
<1>6. ASSUME NEW q \in Requests, CommitProfile(q) PROVE TeamInv'
    BY <1>1, <1>6, CommitProfilePreserves
<1>7. ASSUME NEW q \in Requests,
             \/ \E e \in Emails : Invite(q, e)
             \/ \E i \in Invitations : FindInvitation(q, i)
             \/ Accept(q)
             \/ AcceptRefused(q)
             \/ \E m \in Members, e \in Emails : EditProfile(q, m, e)
             \/ Abort(q)
      PROVE TeamInv'
    BY <1>1, <1>7, QuietPreserves
<1>8. ASSUME Expire \/ UNCHANGED vars PROVE TeamInv'
    BY <1>1, <1>8, RestPreserves
<1> QED BY <1>2, <1>3, <1>4, <1>5, <1>6, <1>7, <1>8 DEF Next

LEMMA TeamInvHolds == Spec => []TeamInv
<1> QED BY InitTeamInv, TeamInvPreserved, PTL DEF Spec

-----------------------------------------------------------------------------
(* Rows keep their types and the workspace row has at most one holder, the *)
(* request between its checks and its commit.                              *)
THEOREM TeamIsTyped == Spec => []TypeOK
<1>1. TeamInv => TypeOK
    BY DEF TeamInv
<1> QED BY <1>1, TeamInvHolds, PTL

(* The seats never exceed the limit (product.py:142).                      *)
THEOREM SeatsStayWithinLimit == Spec => []WithinLimit
<1>1. TeamInv => WithinLimit
  <2> SUFFICES ASSUME TeamInv PROVE WithinLimit
      OBVIOUS
  <2>1. PendingInvitations \subseteq Waiting
      BY PendingIsWaiting
  <2>2. Cardinality(PendingInvitations) <= Cardinality(Waiting) /\ Cardinality(PendingInvitations) \in Nat
      BY <2>1, SetsAreFinite, FS_Subset, FS_CardinalityType
  <2> QED BY <2>2, SetsAreFinite, TeamAssumption DEF TeamInv, Seats, WithinLimit
<1> QED BY <1>1, TeamInvHolds, PTL

(* A link admits one person, however many follow it (product.py:255).      *)
THEOREM InvitationsAdmitOne == Spec => []OneMemberPerInvitation
<1>1. TeamInv => OneMemberPerInvitation
    BY DEF TeamInv
<1> QED BY <1>1, TeamInvHolds, PTL

(* No address has two links that can be followed (product.py:155).         *)
THEOREM AddressesAreInvitedOnce == Spec => []PendingEmailsDistinct
<1>1. TeamInv => PendingEmailsDistinct
    BY PendingIsWaiting DEF TeamInv, WaitingEmailsDistinct, PendingEmailsDistinct
<1> QED BY <1>1, TeamInvHolds, PTL

(* A revoked invitation stays as it is (product.py:256).                   *)
THEOREM RevocationIsFinal == Spec => RevokedAdmitsNobody
<1> DEFINE Final == \A i \in Invited : invitations[i].revoked => invitations'[i].accepted = invitations[i].accepted
<1>1. TeamInv /\ [Next]_vars => [Final]_vars
  <2> SUFFICES ASSUME TeamInv, Next, NEW i \in Invited, invitations[i].revoked
               PROVE  invitations'[i].accepted = invitations[i].accepted
      BY DEF vars
  <2> USE DEF TeamInv
  <2>0. i \in Invitations /\ i \notin Waiting
      BY DEF Invited, Waiting
  <2>1. ASSUME NEW q \in Requests, NEW j \in Invitations, CommitInvite(q, j)
        PROVE  invitations'[i].accepted = invitations[i].accepted
      BY <2>0, <2>1 DEF TypeOK, CommitInvite
  <2>2. ASSUME NEW j \in Invitations, Revoke(j)
        PROVE  invitations'[i].accepted = invitations[i].accepted
      BY <2>0, <2>2, RevokeSeats
  <2>3. ASSUME NEW q \in Requests, NEW m \in Members, CommitAccept(q, m)
        PROVE  invitations'[i].accepted = invitations[i].accepted
    <3>1. requests[q].invitation \in Waiting
        BY <2>3 DEF AccepterIsChecked, CommitAccept
    <3>2. i # requests[q].invitation
        BY <2>0, <3>1
    <3> QED BY <2>0, <2>3, <3>2 DEF CommitAccept, TypeOK
  <2>4. ASSUME UNCHANGED invitations
        PROVE  invitations'[i].accepted = invitations[i].accepted
      BY <2>4
  <2> QED BY <2>1, <2>2, <2>3, <2>4 DEF Next, Invite, FindInvitation, Accept, AcceptRefused,
             CommitProfile, Abort, RemoveMember, EditProfile, Expire
<1> QED BY <1>1, TeamInvHolds, PTL DEF Spec, RevokedAdmitsNobody

(* Nobody who was removed comes back by a request of before (product.py:210). *)
THEOREM RemovalIsFinal == Spec => RemovedStayOut
<1> DEFINE Final == \A m \in Joined : ~members[m].active => ~members'[m].active
<1>1. TeamInv /\ [Next]_vars => [Final]_vars
  <2> SUFFICES ASSUME TeamInv, Next, NEW m \in Joined, ~members[m].active
               PROVE  ~members'[m].active
      BY DEF vars
  <2> USE DEF TeamInv
  <2>0. m \in Members
      BY DEF Joined
  <2>1. ASSUME NEW q \in Requests, NEW n \in Members, CommitAccept(q, n)
        PROVE  ~members'[m].active
      BY <2>0, <2>1 DEF CommitAccept, TypeOK
  <2>2. ASSUME NEW n \in Members, RemoveMember(n)
        PROVE  ~members'[m].active
      BY <2>0, <2>2 DEF RemoveMember, TypeOK, MemberRow
  <2>3. ASSUME NEW q \in Requests, CommitProfile(q)
        PROVE  ~members'[m].active
      BY <2>0, <2>3, CommitProfileSeats
  <2>4. ASSUME UNCHANGED members
        PROVE  ~members'[m].active
      BY <2>4
  <2> QED BY <2>1, <2>2, <2>3, <2>4 DEF Next, Invite, CommitInvite, Revoke, FindInvitation, Accept,
             AcceptRefused, Abort, EditProfile, Expire
<1> QED BY <1>1, TeamInvHolds, PTL DEF Spec, RemovedStayOut
=============================================================================
