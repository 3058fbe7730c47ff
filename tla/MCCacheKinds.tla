---------------------------- MODULE MCCacheKinds ----------------------------
(***************************************************************************)
(* An instance of ServiceCache with all four kinds of view.  In a          *)
(* behaviour clients ask for two of them: for batches and the list, which  *)
(* a request can take for one another, or for profiles and the recent      *)
(* predictions.  Views of different pairs share no name; only the changes, *)
(* all of which are possible in every behaviour, concern both pairs.       *)
(***************************************************************************)
EXTENDS MCServiceCache

VARIABLE kinds  \* bound: the kinds of view that clients ask for

MCInit == Init /\ kinds \in {{"batch", "list"}, {"user", "recent"}}

MCNext ==
  /\ Next
  /\ \A r \in Reader : reader'[r] # NoRead => reader'[r].kind \in kinds
  /\ UNCHANGED kinds

MCSpec == MCInit /\ [][MCNext]_<<vars, kinds>> /\ Fairness
=============================================================================
