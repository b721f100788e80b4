------------------------------- MODULE MCGate -------------------------------
(***************************************************************************)
(* Two instances, two requests at a time, one browser; the unit of time is *)
(* two minutes for the nonce, and the limiter's window two units.          *)
(***************************************************************************)
EXTENDS GateProperties, TLC

CONSTANTS i1, i2, r1, r2, w1, w2

MCInstances == {i1, i2}
MCRequests  == {r1, r2}
MCWallets   == {w1, w2}
MCSkews     == {-1, 1}
Symmetry    == Permutations(MCInstances) \cup Permutations(MCRequests)
                 \cup Permutations(MCWallets)
=============================================================================
