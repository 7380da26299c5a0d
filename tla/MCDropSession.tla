--------------------------- MODULE MCDropSession ---------------------------
(* A small instance of DropSession for TLC. *)
EXTENDS DropSession

\* The phases the model tells apart.
Phases == {"inspecting", "solving", "refreshing", "submitting"}

=============================================================================
