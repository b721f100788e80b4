----------------------------- MODULE MCCreation -----------------------------
(***************************************************************************)
(* Two tabs, and two drafts for one native address: campaign and stream.   *)
(***************************************************************************)
EXTENDS CreationProperties, TLC

CONSTANTS d1, s

MCSupply == (d1 :> 2) @@ (s :> 1)
=============================================================================
