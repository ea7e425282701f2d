---------------------------- MODULE MCNavigation ----------------------------
(* Navigation over three real addresses; the sentinel as an address, which a  *)
(* user can type into the goto dialog, is among the addresses of MCApp.       *)
EXTENDS Navigation

CONSTANTS a1, a2, a3

RealAddr == {a1, a2, a3}
=============================================================================
