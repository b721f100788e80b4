----------------------------- MODULE MCService -----------------------------
(***************************************************************************)
(* Two visits of the editor, in one tab after the other or in two at once, *)
(* and three roots: the beneficiary b is in the first two.                 *)
(***************************************************************************)
EXTENDS ServiceProperties, TLC

CONSTANTS first, second, other, b, v1, v2

MCMembers == (first :> {b}) @@ (second :> {b}) @@ (other :> {})
MCRotations == {v1, v2}
=============================================================================
