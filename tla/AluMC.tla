------------------------------- MODULE AluMC --------------------------------
(***************************************************************************)
(* Numbers made of the bytes at which signs, digits and carries change.    *)
(***************************************************************************)
EXTENDS Alu

MCSamples == {0, 1, 5, 9, 16, 21, 25, 80, 127, 128, 149, 153, 255}

=============================================================================
