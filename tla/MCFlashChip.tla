----------------------------- MODULE MCFlashChip -----------------------------
(* A chip of two sectors of one page each, for TLC.                           *)
EXTENDS ChipStore

=============================================================================
