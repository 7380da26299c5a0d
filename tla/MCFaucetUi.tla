----------------------------- MODULE MCFaucetUi -----------------------------
(* Small instances of FaucetUi for TLC. *)
EXTENDS FaucetUi

=============================================================================
