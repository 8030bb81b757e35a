------------------------- MODULE MCTransferChannels -------------------------
(* Constants of the checks of TransferChannels. *)
EXTENDS TransferChannels, TLC

JobSymmetry == Permutations(Jobs)
=============================================================================
