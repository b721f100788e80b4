------------------------------- MODULE MCDraft ------------------------------
(***************************************************************************)
(* Entries with and without times, two of which are late by the time they  *)
(* are built, and files that are in order, out of order, doubled, without  *)
(* times, with five rows, or only fit one of the two tokens.  Numbers have *)
(* nine binary places, ten below a quarter, so that 2.3 and 2.3 make more  *)
(* than 4.6.                                                               *)
(***************************************************************************)
EXTENDS DraftProperties

CONSTANTS alice, bob, carol, sol, usd

MCDecimals == (sol :> 2) @@ (usd :> 1)

MCLargest == 360000
MCDouble ==
    [x \in 0 .. MCLargest |->
        LET step == IF x < 12800 THEN 50 ELSE 100 IN step * ((x + step \div 2) \div step)]

Typed(who, amount, start, cliff, end) ==
    [recipient |-> who, amount |-> amount, start |-> start, cliff |-> cliff, end |-> end]

MCEntries ==
    (Linear    :> {Typed(alice, 230, None, None, 4), Typed(bob, 25, 3, 5, 7),
                   Typed(bob, 230, None, 3, 5)}) @@
    (Cliff     :> {Typed(alice, 230, None, 4, None), Typed(bob, 25, 2, 4, None),
                   Typed(bob, 50, 3, None, None)}) @@
    (Milestone :> {Typed(None, 230, None, None, None), Typed(None, 25, None, 1, None)})

Line(who, amount, type, start, cliff, end, idx) ==
    [beneficiary |-> who, amount |-> amount, release_type |-> type, start |-> start,
     cliff |-> cliff, end |-> end, idx |-> idx]

MCFiles ==
    (Linear :> {<<Line(alice, 230, Linear, 3, None, 7, 0), Line(bob, 50, Linear, 3, 5, 7, 0)>>,
                <<Line(alice, 230, Linear, 3, 7, 5, 0)>>}) @@
    (Cliff  :> {<<Line(alice, 25, Cliff, 3, 5, None, 0), Line(bob, 230, Cliff, 3, 5, 5, 0)>>,
                <<Line(alice, 230, Cliff, 3, 5, 5, 0), Line(alice, 50, Cliff, 3, 5, 5, 0)>>}) @@
    (Milestone :> {<<Line(alice, 230, Milestone, None, None, None, 0)>>,
                   <<Line(alice, 230, Milestone, None, 5, None, 0),
                     Line(alice, 50, Milestone, None, 5, None, 0)>>,
                   <<Line(alice, 230, Milestone, None, 5, None, 0),
                     Line(alice, 25, Milestone, 3, 5, 5, 1),
                     Line(bob, 50, Milestone, None, 6, None, 0),
                     Line(bob, 100, Milestone, None, 6, None, 1),
                     Line(carol, 50, Milestone, None, 6, None, 0)>>})
=============================================================================
