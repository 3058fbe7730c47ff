---------------------------- MODULE MCSftpIngest ----------------------------
(***************************************************************************)
(* Small SFTP trees for the runs of SftpIngest.  f1 and f2 are two drops   *)
(* at one path; f3 names a second document of the batch and is not a TIFF; *)
(* f4 has the basename of f1 below another batch, so it names a document   *)
(* that may already belong to the first one; on f5 PIL raises an exception *)
(* that is not an UnidentifiedImageError.                                  *)
(***************************************************************************)
EXTENDS SftpIngest, TLC

CONSTANTS f1, f2, f3, f4, f5, p1, p2, p3, n1, n2, k1, k2, k3, b1, b2, d1, d2

\* Symmetry is not used: every content has its own role.
AllPathOf == f1 :> p1 @@ f2 :> p1 @@ f3 :> p2 @@ f4 :> p3 @@ f5 :> p2
AllVerdict == f1 :> "ok" @@ f2 :> "ok" @@ f3 :> "invalid" @@ f4 :> "ok" @@ f5 :> "raises"

MCPathOf == [f \in File |-> AllPathOf[f]]
MCVerdict == [f \in File |-> AllVerdict[f]]
MCNameOf == p1 :> n1 @@ p2 :> n2 @@ p3 :> n1
MCKeyOf == p1 :> k1 @@ p2 :> k2 @@ p3 :> k3
MCBatchOf == p1 :> b1 @@ p2 :> b1 @@ p3 :> b2
MCDocOf == p1 :> d1 @@ p2 :> d2 @@ p3 :> d1
=============================================================================
