---------------------------- MODULE MCUserAdmin ----------------------------
(***************************************************************************)
(* Small user tables for the runs of UserAdmin.  u4 and u5 register with   *)
(* one email.                                                              *)
(***************************************************************************)
EXTENDS UserAdmin, TLC

CONSTANTS u1, u2, u3, u4, u5, e1, e2, e3, e4

AllEmailOf == u1 :> e1 @@ u2 :> e2 @@ u3 :> e3 @@ u4 :> e4 @@ u5 :> e4

MCEmailOf == [u \in User |-> AllEmailOf[u]]
=============================================================================
