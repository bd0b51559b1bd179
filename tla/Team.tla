-------------------------------- MODULE Team --------------------------------
(***************************************************************************)
(* The people of one workspace: the owner invites by email, an invitation  *)
(* is accepted once by whoever holds its link, invitations are revoked and *)
(* members removed, and every member edits an own profile (product.py).    *)
(* Requests run at the same time.  Inviting and accepting keep the         *)
(* workspace row locked from their checks to their commit; removing and    *)
(* editing a profile take no lock.  The workspace ends with all its        *)
(* invitations (invite copies the workspace's expires_at).                 *)
(*                                                                         *)
(* Tokens, names and the roles reviewer and viewer are left out: the row   *)
(* of the owner is the constant Owner, and no invitation carries that role *)
(* (a check constraint of the invitation table).                           *)
(***************************************************************************)
EXTENDS Integers, FiniteSets

CONSTANTS
    Members,      \* identities of members
    Owner,        \* the member that create_session seeds
    Invitations,  \* identities of invitations
    Emails,       \* addresses, in lower case
    OwnerEmail,   \* the address the owner is seeded with
    Requests,     \* requests served at the same time
    None,         \* nobody, a row that does not exist yet, a free lock
    Limit         \* members and pending invitations: 10

ASSUME TeamAssumption ==
    /\ IsFiniteSet(Members) /\ IsFiniteSet(Invitations)
    /\ Owner \in Members
    /\ OwnerEmail \in Emails
    /\ None \notin Members \cup Invitations \cup Emails \cup Requests
    /\ Limit \in Nat \ {0}

VARIABLES
    members,      \* the member table, keyed by id; email = None: no such row yet
    invitations,  \* the invitation table, keyed by id; email = None: no such row yet
    open,         \* the workspace has not expired
    lock,         \* the request that holds the workspace row
    requests      \* where each request stands

vars == <<members, invitations, open, lock, requests>>

MemberRow == [email: Emails \cup {None}, active: BOOLEAN]

InvitationRow == [email: Emails \cup {None}, accepted: BOOLEAN, revoked: BOOLEAN]

(* inviting, accepting: checked, the workspace row locked; found: the link *)
(* was looked up without a lock; renaming: the profile's email was checked *)
(* without a lock.                                                         *)
RequestRow ==
    [step: {"idle", "inviting", "found", "accepting", "renaming"},
     email: Emails \cup {None},
     invitation: Invitations \cup {None},
     member: Members \cup {None}]

Idle == [step |-> "idle", email |-> None, invitation |-> None, member |-> None]

Init ==
    /\ members = [m \in Members |->
                    IF m = Owner THEN [email |-> OwnerEmail, active |-> TRUE]
                                 ELSE [email |-> None, active |-> FALSE]]
    /\ invitations = [i \in Invitations |-> [email |-> None, accepted |-> FALSE, revoked |-> FALSE]]
    /\ open = TRUE
    /\ lock = None
    /\ requests = [q \in Requests |-> Idle]

-----------------------------------------------------------------------------
Joined == {m \in Members : members[m].email # None}

Invited == {i \in Invitations : invitations[i].email # None}

Accepted == {i \in Invited : invitations[i].accepted}

(* What team lists. *)
ActiveMembers == {m \in Joined : members[m].active}

PendingInvitations ==
    {i \in Invited : open /\ ~invitations[i].accepted /\ ~invitations[i].revoked}

HasAccess(e) == \E m \in ActiveMembers : members[m].email = e

Enter(q, step, email, invitation, member) ==
    requests' = [requests EXCEPT ![q] =
        [step |-> step, email |-> email, invitation |-> invitation, member |-> member]]

Leave(q) == requests' = [requests EXCEPT ![q] = Idle]

-----------------------------------------------------------------------------
(* invite, up to its checks; a request that fails one of them is refused   *)
(* and changes nothing.                                                    *)

(* Mutated form of Invite: the workspace row is read without a lock. *)
InviteUnlocked(q, e) ==
    /\ requests[q].step = "idle"
    /\ open
    /\ Cardinality(ActiveMembers) + Cardinality(PendingInvitations) < Limit
    /\ ~HasAccess(e)
    /\ \A i \in PendingInvitations : invitations[i].email # e
    /\ Enter(q, "inviting", e, None, None)
    /\ UNCHANGED <<members, invitations, open, lock>>

(* Mutated form of Invite: an email may be invited while it is pending. *)
InviteTwice(q, e) ==
    /\ requests[q].step = "idle"
    /\ open /\ lock = None
    /\ Cardinality(ActiveMembers) + Cardinality(PendingInvitations) < Limit
    /\ ~HasAccess(e)
    /\ lock' = q
    /\ Enter(q, "inviting", e, None, None)
    /\ UNCHANGED <<members, invitations, open>>

Invite(q, e) ==
    /\ requests[q].step = "idle"
    /\ open /\ lock = None
    /\ Cardinality(ActiveMembers) + Cardinality(PendingInvitations) < Limit
    /\ ~HasAccess(e)
    /\ \A i \in PendingInvitations : invitations[i].email # e
    /\ lock' = q
    /\ Enter(q, "inviting", e, None, None)
    /\ UNCHANGED <<members, invitations, open>>

CommitInvite(q, i) ==
    /\ requests[q].step = "inviting"
    /\ i \notin Invited
    /\ invitations' = [invitations EXCEPT ![i] =
          [email |-> requests[q].email, accepted |-> FALSE, revoked |-> FALSE]]
    /\ lock' = None
    /\ Leave(q)
    /\ UNCHANGED <<members, open>>

(* revoke_invitation asks only whether the invitation exists. *)
Revoke(i) ==
    /\ open /\ lock = None
    /\ i \in Invited
    /\ invitations' = [invitations EXCEPT ![i].revoked = TRUE]
    /\ UNCHANGED <<members, open, lock, requests>>

-----------------------------------------------------------------------------
(* accept_invitation.  preview_invitation ends after the same lookup.      *)

(* find_invitation, without a lock. *)
FindInvitation(q, i) ==
    /\ requests[q].step = "idle"
    /\ i \in PendingInvitations
    /\ Enter(q, "found", None, i, None)
    /\ UNCHANGED <<members, invitations, open, lock>>

(* Mutated form of StillAvailable: the row read before the lock is trusted. *)
StillAvailableStale(i) == i \in Invited

(* db.refresh and the test that follows it. *)
StillAvailable(i) == i \in PendingInvitations

Accept(q) ==
    /\ requests[q].step = "found"
    /\ lock = None
    /\ StillAvailable(requests[q].invitation)
    /\ ~HasAccess(invitations[requests[q].invitation].email)
    /\ lock' = q
    /\ Enter(q, "accepting", None, requests[q].invitation, None)
    /\ UNCHANGED <<members, invitations, open>>

AcceptRefused(q) ==
    /\ requests[q].step = "found"
    /\ lock = None
    /\ \/ ~StillAvailable(requests[q].invitation)
       \/ HasAccess(invitations[requests[q].invitation].email)
    /\ Leave(q)
    /\ UNCHANGED <<members, invitations, open, lock>>

CommitAccept(q, m) ==
    /\ requests[q].step = "accepting"
    /\ m \notin Joined
    /\ members' = [members EXCEPT ![m] =
          [email |-> invitations[requests[q].invitation].email, active |-> TRUE]]
    /\ invitations' = [invitations EXCEPT ![requests[q].invitation].accepted = TRUE]
    /\ lock' = None
    /\ Leave(q)
    /\ UNCHANGED open

-----------------------------------------------------------------------------
(* remove_member; the row stays for the history it signed. *)
RemoveMember(m) ==
    /\ open
    /\ m \in Joined \ {Owner}
    /\ members' = [members EXCEPT ![m].active = FALSE]
    /\ UNCHANGED <<invitations, open, lock, requests>>

(* update_profile: the session admits an active member, the email is       *)
(* looked up among the others; then the row is written, whatever happened  *)
(* to it or to the others meanwhile.                                       *)
EditProfile(q, m, e) ==
    /\ requests[q].step = "idle"
    /\ open
    /\ m \in ActiveMembers
    /\ \A other \in ActiveMembers \ {m} : members[other].email # e
    /\ Enter(q, "renaming", e, None, m)
    /\ UNCHANGED <<members, invitations, open, lock>>

(* Mutated form of CommitProfile: the whole row is written as it was read. *)
CommitProfileWholeRow(q) ==
    /\ requests[q].step = "renaming"
    /\ members' = [members EXCEPT ![requests[q].member] = [email |-> requests[q].email, active |-> TRUE]]
    /\ Leave(q)
    /\ UNCHANGED <<invitations, open, lock>>

CommitProfile(q) ==
    /\ requests[q].step = "renaming"
    /\ members' = [members EXCEPT ![requests[q].member].email = requests[q].email]
    /\ Leave(q)
    /\ UNCHANGED <<invitations, open, lock>>

(* The connection or the process ends; the database rolls back. *)
Abort(q) ==
    /\ requests[q].step # "idle"
    /\ lock' = IF lock = q THEN None ELSE lock
    /\ Leave(q)
    /\ UNCHANGED <<members, invitations, open>>

(* The session hours are over. *)
Expire ==
    /\ open
    /\ open' = FALSE
    /\ UNCHANGED <<members, invitations, lock, requests>>

Next ==
    \/ \E q \in Requests, e \in Emails : Invite(q, e)
    \/ \E q \in Requests, i \in Invitations : CommitInvite(q, i) \/ FindInvitation(q, i)
    \/ \E i \in Invitations : Revoke(i)
    \/ \E q \in Requests : Accept(q) \/ AcceptRefused(q) \/ CommitProfile(q) \/ Abort(q)
    \/ \E q \in Requests, m \in Members : CommitAccept(q, m)
    \/ \E m \in Members : RemoveMember(m)
    \/ \E q \in Requests, m \in Members, e \in Emails : EditProfile(q, m, e)
    \/ Expire

Spec == Init /\ [][Next]_vars

-----------------------------------------------------------------------------
(* Types; the request that holds the workspace row is inviting or accepting. *)
TypeOK ==
    /\ members \in [Members -> MemberRow]
    /\ invitations \in [Invitations -> InvitationRow]
    /\ open \in BOOLEAN
    /\ lock \in Requests \cup {None}
    /\ requests \in [Requests -> RequestRow]
    /\ \A q \in Requests : requests[q].step \in {"inviting", "accepting"} <=> lock = q

(* The limit that invite refuses beyond (product.py:142) holds whatever is *)
(* invited, accepted and removed at the same time, although accept does    *)
(* not count.                                                              *)
WithinLimit == Cardinality(ActiveMembers) + Cardinality(PendingInvitations) <= Limit

(* Every member but the owner came by an invitation of an own: a link      *)
(* followed twice at the same time admits one person (product.py:255).     *)
OneMemberPerInvitation == Cardinality(Joined) = Cardinality(Accepted) + 1

(* No two links for one address can be followed (product.py:155).          *)
PendingEmailsDistinct ==
    \A i, j \in PendingInvitations : invitations[i].email = invitations[j].email => i = j

(* An invitation that was revoked before it was accepted is never accepted *)
(* (product.py:256).                                                       *)
RevokedAdmitsNobody ==
    [][\A i \in Invited : invitations[i].revoked => invitations'[i].accepted = invitations[i].accepted]_vars

(* Whoever was removed stays out, also when an own request was under way   *)
(* (product.py:210).                                                       *)
RemovedStayOut ==
    [][\A m \in Joined : ~members[m].active => ~members'[m].active]_vars

(* What the profile and the acceptance of an invitation refuse: an address *)
(* that another active member uses (product.py:77, product.py:265).        *)
ActiveEmailsDistinct ==
    \A m, n \in ActiveMembers : members[m].email = members[n].email => m = n
=============================================================================
