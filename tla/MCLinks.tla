------------------------------- MODULE MCLinks -------------------------------
(* Small instance of Links for TLC. *)
EXTENDS Links, TLC

Symmetry ==
  Permutations(Requests) \union Permutations(EntryIds) \union Permutations(RelIds)
    \union Permutations(AttIds) \union Permutations(Urls)
=============================================================================
