--------------------------- MODULE MCJsonFileStore ---------------------------
(* A small instance of JsonFileStore for TLC. *)
EXTENDS JsonFileStore

CONSTANTS c1, c2, c3
=============================================================================
