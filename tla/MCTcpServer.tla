---------------------------- MODULE MCTcpServer -----------------------------
(* Two connections of one agent, one of another agent, and one whose        *)
(* address GetConnId cannot split.                                          *)
EXTENDS TcpServer, TLC

CONSTANTS a1, a2, b1, x1, idA, idB, k1, k2

MCIdOf == (a1 :> idA) @@ (a2 :> idA) @@ (b1 :> idB) @@ (x1 :> NoId)

\* Both agents, one of them named twice.
MCIpLists == {<<idB, idA, idB>>}

\* The first agent alone, for the liveness properties and the refinement.
MCIdOfOne   == (a1 :> idA) @@ (a2 :> idA)
MCIpListOne == {<<idA, idA>>}

\* Callers of Multicast are interchangeable.
MCSymmetry == Permutations({k1, k2})
=============================================================================
