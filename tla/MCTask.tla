------------------------------ MODULE MCTask ------------------------------
(* Two agents, one whose address starts with the other's. *)
EXTENDS Task

CONSTANTS s1, s2, p1, f1, ip1, ip11

MCKind == [r \in Requests |-> CASE r = p1 -> "script" [] r = f1 -> "file" [] OTHER -> "shell"]
MCIpList ==
  [r \in Requests |-> CASE r = s1 -> <<ip1, Empty, ip1>> [] r = s2 -> <<ip1, ip11>>
                        [] r = p1 -> <<Empty, ip11>> [] r = f1 -> <<ip1>>]
MCIps == {ip1, ip11}
MCPrefix == {<<ip1, ip11>>}
MCRank == [ip \in Ips |-> IF ip = ip1 THEN 1 ELSE 2]

\* Two shell commands, to the address that starts with the other among them.
MCShells == {s1, s2}

\* A shell command, and what its agents may have to run before it.
MCMixed == {s1, p1, f1}
===========================================================================
