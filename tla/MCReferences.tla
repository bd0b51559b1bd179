---------------------------- MODULE MCReferences ----------------------------
(* References on small sets of documents and requests.                     *)
EXTENDS References, TLC

ReferencesSymmetry ==
    Permutations(Documents) \cup Permutations(Digests) \cup Permutations(Requests)
=============================================================================
