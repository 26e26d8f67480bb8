------------------------------ MODULE MCAgent -------------------------------
(* The agent with one of its two detectors, which are the same loop. *)
EXTENDS Agent

MCFive == <<"Heartbeat", "Listen", "TcpDetct", "PcapDump", "DataCollect">>
=============================================================================
