--------------------------- MODULE MCProjectHost ---------------------------
(* Small instances of ProjectHost for TLC. *)
EXTENDS ProjectHost, TLC

CONSTANTS g1, g2, c1, c2, a1, a2, p1, p2

\* One Agent, two WebSockets (a reconnect), two asks.
OneAgentOfConn == [c \in Conn |-> g1]
OneAgentOf == [a \in Ask |-> g1]
OneProjectOf == [g \in Agent |-> p1]
DistinctIds == [a \in Ask |-> a]
OneId == [a \in Ask |-> "req"]

Symmetry == Permutations(Ask) \cup Permutations(Conn)
=============================================================================
