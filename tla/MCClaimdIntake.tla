--------------------------- MODULE MCClaimdIntake ---------------------------
(* A small instance of ClaimdIntake for TLC. *)
EXTENDS ClaimdIntake, TLC

\* Handlers are interchangeable; request ids are ordered.
Interchangeable == Permutations(Handler)

=============================================================================
