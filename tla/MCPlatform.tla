----------------------------- MODULE MCPlatform -----------------------------
(* Two sizes, a third without height, and three files in drops of up to three. *)
EXTENDS Platform

MCSize == {<<2, 1>>, <<3, 2>>, <<3, 0>>}
=============================================================================
