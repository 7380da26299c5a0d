--------------------------- MODULE MCClaimApiDrop ---------------------------
(* Small instances of ClaimApiDrop for TLC. *)
EXTENDS ClaimApiDrop, TLC

\* Nothing tells calls, keys, accounts or hashes apart.
Interchangeable ==
  Permutations(Call) \cup Permutations(Key) \cup Permutations(Account) \cup Permutations(Hash)

=============================================================================
