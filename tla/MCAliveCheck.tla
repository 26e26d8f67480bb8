---------------------------- MODULE MCAliveCheck ----------------------------
(* Two agents of which the table lists both, one agent it does not list, and *)
(* one listed address from which no agent connects.                          *)
EXTENDS AliveCheck
CONSTANTS a, b, c, d
MCIds  == {a, b, c}
MCRows == {a, b, d}
=============================================================================
