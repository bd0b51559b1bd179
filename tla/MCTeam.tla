------------------------------- MODULE MCTeam -------------------------------
(* Team on small sets of people, addresses and requests.                   *)
EXTENDS Team, TLC

TeamSymmetry ==
    Permutations(Members \ {Owner}) \cup Permutations(Invitations)
        \cup Permutations(Emails \ {OwnerEmail}) \cup Permutations(Requests)
=============================================================================
