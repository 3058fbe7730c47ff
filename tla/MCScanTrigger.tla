--------------------------- MODULE MCScanTrigger ---------------------------
(***************************************************************************)
(* A small SFTP tree for the run of ScanTrigger.  The vendor's files are   *)
(* f1, f4, which has the basename of f1 below another batch and names its  *)
(* document, and f6, on which PIL raises and which may take the place of   *)
(* f1; the trigger uploads to p4, where the bytes it has written at first  *)
(* are not yet a TIFF.                                                     *)
(***************************************************************************)
EXTENDS ScanTrigger, TLC

CONSTANTS f1, f4, f6, part, whole, p1, p3, p4, n1, n4, k1, k3, k4, b1, b2, b4, d1, d4

AllPathOf == f1 :> p1 @@ f6 :> p1 @@ f4 :> p3 @@ part :> p4 @@ whole :> p4

AllVerdict == f1 :> "ok" @@ f6 :> "raises" @@ f4 :> "ok" @@ part :> "invalid" @@ whole :> "ok"

MCPathOf == [f \in File |-> AllPathOf[f]]
MCVerdict == [f \in File |-> AllVerdict[f]]
MCNameOf == p1 :> n1 @@ p3 :> n1 @@ p4 :> n4
MCKeyOf == p1 :> k1 @@ p3 :> k3 @@ p4 :> k4
MCBatchOf == p1 :> b1 @@ p3 :> b2 @@ p4 :> b4
MCDocOf == p1 :> d1 @@ p3 :> d1 @@ p4 :> d4
MCPartOf == p4 :> part
MCWholeOf == p4 :> whole
=============================================================================
