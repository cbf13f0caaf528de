----------------------------- MODULE MCReconnect -----------------------------
(* Small instances of Reconnect for TLC. *)
EXTENDS Reconnect

CONSTANTS e1, e2, e3, c1, c2

TwoAddresses == {e1, e2}
ThreeAddresses == {e1, e2, e3}
OneInvited == <<e1>>
TwoInvited == <<e1, e2>>
TwoCalls == {c1, c2}
=============================================================================
