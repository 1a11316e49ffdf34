-------------------------- MODULE MCHttpConnection --------------------------
(***************************************************************************)
(* Two reader tasks, so that one left behind shows beside the next one.    *)
(***************************************************************************)
EXTENDS HttpConnection

MCReaders == {1, 2}
=============================================================================
