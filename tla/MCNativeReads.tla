--------------------------- MODULE MCNativeReads ---------------------------
(***************************************************************************)
(* Empty packets, packets a read takes whole and packets it splits; one    *)
(* geometry and none.                                                      *)
(***************************************************************************)
EXTENDS NativeReads

MCGeometries == {"none", "a"}
=============================================================================
