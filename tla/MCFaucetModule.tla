--------------------------- MODULE MCFaucetModule ---------------------------
(* Small instances of FaucetModule for TLC. *)
EXTENDS FaucetModule, TLC

CONSTANTS a, b   \* two threads of the host

\* One thread starts and stops, the other asks about what was started; both request drops.
TwoCallers ==
  a :> {"configure", "info", "drop", "shutdown"} @@ b :> {"drop", "cancel", "status", "ack"}

\* One thread polls a drop while another shuts the module down.
Polling == a :> {"configure", "drop", "shutdown"} @@ b :> {"status"}

=============================================================================
