---------------------------- MODULE MCRadioFaults ----------------------------
(***************************************************************************)
(* RadioFaults for TLC: a frame on a dynamic pipe and one on a pipe of     *)
(* fixed size, which drain_fifo_() reads without asking for the width.     *)
(***************************************************************************)
EXTENDS RadioFaults

CONSTANTS dynamic, fixed
=============================================================================
