------------------------------ MODULE MCIntake ------------------------------
(* Intake on small sets of workspaces, documents and requests.             *)
EXTENDS Intake, TLC

IntakeSymmetry ==
    Permutations(Workspaces) \cup Permutations(Invoices)
        \cup Permutations(Documents) \cup Permutations(Requests)
=============================================================================
