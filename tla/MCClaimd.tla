------------------------------ MODULE MCClaimd ------------------------------
(* Small instances of Claimd for TLC; the cfgs choose what is in them. *)
EXTENDS Claimd, TLC

\* Accounts, addresses, handlers and hashes are interchangeable; request ids are ordered.
Interchangeable ==
  Permutations(Recipient) \cup Permutations(Ip) \cup Permutations(Handler) \cup Permutations(Hash)

=============================================================================
