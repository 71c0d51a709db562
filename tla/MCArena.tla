------------------------------ MODULE MCArena -------------------------------
(* Arena with a generation counter that wraps within the bound: a slot has *)
(* three generations and one slot can be issued five times.                *)
EXTENDS Arena

MCIds == {1, 2, 3}
=============================================================================
