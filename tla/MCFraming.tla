----------------------------- MODULE MCFraming ------------------------------
(* Framing with two-valued bytes: a uint32 has 16 values, so a payload of 7 *)
(* bytes makes the longest frame whose length does not wrap.                *)
EXTENDS Framing

\* An empty heartbeat response, and two payloads, one at the limit.
MCMsgs == {[type |-> 2, data |-> << >>],
           [type |-> 4, data |-> <<1, 0>>],
           [type |-> 5, data |-> <<1, 0, 1, 1, 0, 0, 1>>]}
=============================================================================
