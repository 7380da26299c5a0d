---------------------------- MODULE MCPinataDrop ----------------------------
(* Small instances of PinataDrop for TLC. *)
EXTENDS PinataDrop, TLC

\* Nothing tells calls, keys, accounts or hashes apart.
Interchangeable ==
  Permutations(Call) \cup Permutations(Key) \cup Permutations(Account) \cup Permutations(Hash)

=============================================================================
