------------------------------ MODULE MCDevice ------------------------------
(* A small instance of Device for TLC. *)
EXTENDS Device

CONSTANTS d1, d2, d3, home, away, g1

ThreeCommands == {d1, d2, d3}
OneLocal == {home}
OneRemote == {away}
OneAgent == {g1}
=============================================================================
