--------------------------- MODULE MCServiceCache ---------------------------
(***************************************************************************)
(* Small instances for the runs of ServiceCache.                           *)
(***************************************************************************)
EXTENDS ServiceCache, TLC

CONSTANTS u1, b1
=============================================================================
