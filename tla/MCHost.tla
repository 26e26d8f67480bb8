------------------------------- MODULE MCHost -------------------------------
(* Two keys: the switch, and one that is also collected while the agent runs. *)
EXTENDS Host

MCInfos == <<"os", "pcapswitch">>
=============================================================================
