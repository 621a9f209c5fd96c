------------------------------ MODULE VideoMC -------------------------------
(***************************************************************************)
(* A screen of two rows of three groups, the lower row below the limit of  *)
(* the mixed modes.  The program writes neighbouring groups of the first   *)
(* page, a cell of the lower row and one of the second page.               *)
(***************************************************************************)
EXTENDS Video

MCPokes == {<<1, 0, 0>>, <<1, 0, 1>>, <<1, 1, 0>>, <<2, 0, 1>>}

=============================================================================
