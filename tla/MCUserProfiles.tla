---------------------------- MODULE MCUserProfiles ----------------------------
(* An instance of UserProfiles for TLC: two subjects, one or both of them     *)
(* administrators, and two requests at a time.                                *)
EXTENDS UserProfiles, TLC

Interchangeable == Permutations(Users) \cup Permutations(Requests)
=============================================================================
