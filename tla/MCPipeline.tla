----------------------------- MODULE MCPipeline -----------------------------
(***************************************************************************)
(* Small instances of Pipeline.  f1 and f2 are two drops of one document   *)
(* whose file extension differs, so both can be moved out of incoming/ and *)
(* the second replaces the first's object; f3 is a document whose pixels   *)
(* do not decode; f4 names the document of f1 in another batch; f5 is what *)
(* a writer puts in the place of f1, and validation rejects it.            *)
(***************************************************************************)
EXTENDS Pipeline, TLC

CONSTANTS f1, f2, f3, f4, f5, p1, p2, p3, p4, n1, n2, n3, k1, k2, k3, b1, b2, d1, d2

AllPathOf == f1 :> p1 @@ f2 :> p2 @@ f3 :> p3 @@ f4 :> p4 @@ f5 :> p1

MCPathOf == [f \in File |-> AllPathOf[f]]
MCVerdict == [f \in File |-> IF f = f5 THEN "invalid" ELSE "ok"]
MCDecodes == [f \in File |-> f # f3]
MCNameOf == [p \in Path |-> CASE p = p1 -> n1 [] p = p2 -> n2 [] p = p3 -> n3 [] p = p4 -> n1]
MCKeyOf == [p \in Path |-> CASE p \in {p1, p2} -> k1 [] p = p3 -> k2 [] p = p4 -> k3]
MCBatchOf == [p \in Path |-> IF p = p4 THEN b2 ELSE b1]
MCDocOf == [p \in Path |-> IF p = p3 THEN d2 ELSE d1]
=============================================================================
