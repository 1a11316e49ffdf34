---------------------------- MODULE MCSinkBlocks ----------------------------
(***************************************************************************)
(* Four samples, buffers and bursts of one to three, and a channel of one  *)
(* batch: the channel fills, and a flush at the end meets it full.         *)
(***************************************************************************)
EXTENDS SinkBlocks
=============================================================================
