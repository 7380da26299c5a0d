---------------------------- MODULE MCDropGates ----------------------------
(* A small instance of DropGates for TLC. *)
EXTENDS DropGates

=============================================================================
