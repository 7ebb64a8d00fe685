--------------------------- MODULE MCTransferWindow ---------------------------
(***************************************************************************)
(* TransferWindow on a batch of two children with one transfer window.     *)
(***************************************************************************)
EXTENDS TransferWindow

CONSTANT sub
MCSubs == {sub}
=============================================================================
