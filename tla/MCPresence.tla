----------------------------- MODULE MCPresence -----------------------------
(* Two connections: one the server may still hold on to, one to retry with. *)
EXTENDS Presence

\* Behind UTC, at UTC and ahead of it, by more than any timeout.
MCZones == {-9, 0, 9}
=============================================================================
