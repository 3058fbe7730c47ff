---------------------------- MODULE MCDeployment ----------------------------
(***************************************************************************)
(* A small instance of Deployment: an image whose model passes the startup *)
(* checks, and one that holds other weights than its model card names.     *)
(***************************************************************************)
EXTENDS Deployment

Good == [weights |-> TRUE, card |-> "read", sha256 |-> "matches", test_top1 |-> "reached"]

MCImages == {Good, [Good EXCEPT !.sha256 = "differs"]}
=============================================================================
