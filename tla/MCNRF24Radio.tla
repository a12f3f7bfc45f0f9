---------------------------- MODULE MCNRF24Radio ----------------------------
(***************************************************************************)
(* NRF24Radio for TLC.  Three frames are enough to tell apart everything   *)
(* drain_fifo_() tells apart: one on a dynamic pipe, one whose width the   *)
(* chip reports wrongly, and one with that same fault on a pipe of fixed   *)
(* size, where the width is not asked for.  They differ, so that a frame   *)
(* handed over twice or out of order shows.                                *)
(***************************************************************************)
EXTENDS NRF24Radio

CONSTANTS dynamic, fixed, corrupt
=============================================================================
