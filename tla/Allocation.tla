----------------------------- MODULE Allocation -----------------------------
(***************************************************************************)
(* What becomes of the allocations somebody writes down: amounts with a    *)
(* decimal point into the units of a mint, entries and CSV rows into       *)
(* leaves, and the checks they pass on the way: of the pages               *)
(* (lib/validation/stream-form.ts, lib/campaign/bulk.ts), of the prepare   *)
(* route and of the program.                                               *)
(*                                                                         *)
(* A written amount is counted in the smallest unit anybody can write,     *)
(* that of DefaultDecimals; None is an empty field.                        *)
(***************************************************************************)
EXTENDS Merkle, FiniteSetsExt, TLC

CONSTANTS
    Tokens,             \* the mints of the token picker
    Native,             \* the one that stands for native SOL
    Decimals,           \* [Tokens -> Nat]
    DefaultDecimals,    \* what a page takes while it does not know the mint's
    Minute,             \* sixty seconds
    PerLeafCap,         \* cliff and linear leaves that a ClaimRecord has slots for
    MaxMilestone        \* 255 in the code

ASSUME AllocationAssumption ==
    /\ None \notin Int \cup Tokens
    /\ Native \in Tokens
    /\ DefaultDecimals \in Nat
    /\ Decimals \in [Tokens -> 0 .. DefaultDecimals]
    /\ Minute \in Nat \ {0} /\ PerLeafCap \in Nat \ {0} /\ MaxMilestone \in Nat

Unit == 10^DefaultDecimals

(* Arithmetic: no power of ten is zero, and a smaller one divides it.      *)
ASSUME PowersOfTen == \A d \in 0 .. DefaultDecimals :
                        10^d \in Nat \ {0} /\ Unit \in Nat \ {0} /\ Unit % 10^d = 0
-----------------------------------------------------------------------------
(* ------------------------------- amounts ------------------------------- *)
(* Mutant: taken for an amount of the default decimals. *)
RawByDefault(written, decimals) == written

(* toRawAmount cuts off what the mint cannot express. *)
Raw(written, decimals) == (written * 10^decimals) \div Unit

(* rawToDisplayDecimal *)
Written(raw, decimals) == (raw * Unit) \div 10^decimals

ValidAmount(written, decimals) ==
    /\ written # None /\ written > 0
    /\ (written * 10^decimals) % Unit = 0
-----------------------------------------------------------------------------
(* ------------------------------ schedules ------------------------------ *)
(* Mutant: the order of cliff and end is not looked at. *)
ValidStart(start, cliff, end, type) ==
    /\ None \notin {start, cliff, end}
    /\ start <= cliff

(* Equal times are fine, but a cliff less than a minute after the start is *)
(* too close.                                                              *)
ValidSchedule(start, cliff, end, type) ==
    /\ None \notin {start, cliff, end}
    /\ start <= cliff /\ cliff <= end
    /\ cliff = start \/ cliff - start >= Minute
    /\ type \in {Cliff, Milestone} => end = cliff

(* The times of an entry of each of the three pages, at the time now.      *)
LinearTimes(entry, now) ==
    LET start == IF entry.start = None THEN now ELSE entry.start
    IN  [start |-> start, cliff |-> IF entry.cliff = None THEN start ELSE entry.cliff,
         end |-> entry.end]

CliffTimes(entry, now) ==
    [start |-> IF entry.start = None THEN Earlier(now, entry.cliff) ELSE entry.start,
     cliff |-> entry.cliff, end |-> entry.cliff]

MilestoneTimes(entry, now) ==
    LET unlock == IF entry.cliff = None THEN now + Minute ELSE entry.cliff
    IN  [start |-> now - Minute, cliff |-> unlock, end |-> unlock]

Times(page, entry, now) ==
    CASE page = Linear    -> LinearTimes(entry, now)
      [] page = Cliff     -> CliffTimes(entry, now)
      [] page = Milestone -> MilestoneTimes(entry, now)

(* The times of a CSV row: the milestone page fills what is left empty     *)
(* with zero, and a linear row without a cliff has it at its start.        *)
RowTimes(page, row) ==
    LET Given(cell) == IF cell = None /\ page = Milestone THEN 0 ELSE cell
        cliff == IF row.release_type = Linear /\ row.cliff \in {None, 0}
                 THEN Given(row.start) ELSE Given(row.cliff)
        end   == IF row.end # None THEN row.end ELSE row.cliff
    IN  [start |-> Given(row.start), cliff |-> cliff,
         end |-> IF end = None /\ page = Milestone THEN cliff ELSE end]
-----------------------------------------------------------------------------
(* --------------------------------- rows -------------------------------- *)
Leaf(beneficiary, amount, type, times, idx) ==
    [beneficiary |-> beneficiary, amount |-> amount, release_type |-> type,
     start_time |-> times.start, cliff_time |-> times.cliff, end_time |-> times.end,
     milestone_idx |-> idx]

(* One row per wallet, or on the milestone page per wallet and index.      *)
NoDoubles(page, rows) ==
    IsInjective([i \in DOMAIN rows |->
        <<rows[i].beneficiary, IF page = Milestone THEN rows[i].idx ELSE 0>>])

RowFits(page, decimals, row) ==
    /\ row.release_type = page
    /\ ValidAmount(row.amount, decimals)
    /\ LET t == RowTimes(page, row) IN ValidSchedule(t.start, t.cliff, t.end, page)
    /\ row.idx \in 0 .. MaxMilestone /\ (page # Milestone => row.idx = 0)

(* parseBulkCsv: the rows, or none of them if there is anything to object. *)
ParseBulkCsv(page, text, decimals) ==
    IF (\A i \in DOMAIN text : RowFits(page, decimals, text[i])) /\ NoDoubles(page, text)
    THEN [i \in DOMAIN text |->
            Leaf(text[i].beneficiary, Raw(text[i].amount, decimals), page,
                 RowTimes(page, text[i]), text[i].idx)]
    ELSE <<>>

(* What the three pages require of what is typed in. *)
EntryFits(page, entry, decimals, now) ==
    /\ ValidAmount(entry.amount, decimals)
    /\ page # Milestone =>
        /\ entry.recipient # None
        /\ (IF page = Linear THEN entry.end ELSE entry.cliff) # None
        /\ LET t == Times(page, entry, now)
           IN  ValidSchedule(t.start, t.cliff, t.end, page)

EntriesFit(page, entries, decimals, now) ==
    /\ \A i \in DOMAIN entries : EntryFits(page, entries[i], decimals, now)
    /\ page # Milestone => IsInjective([i \in DOMAIN entries |-> entries[i].recipient])

(* The milestone page has one recipient for all milestones, and numbers    *)
(* them in their order.                                                    *)
RowsOf(page, entries, recipient, decimals, now) ==
    [i \in DOMAIN entries |->
        Leaf(IF page = Milestone THEN recipient ELSE entries[i].recipient,
             Raw(entries[i].amount, decimals), page, Times(page, entries[i], now),
             IF page = Milestone THEN i - 1 ELSE 0)]
-----------------------------------------------------------------------------
(* ------------------------------- the tree ------------------------------ *)
(* A leaf's encoding has one byte for the index of its milestone. *)
Encodable(rows) == \A i \in DOMAIN rows : rows[i].milestone_idx <= MaxMilestone
Buildable(rows) == Encodable(rows) /\ FitsTree(rows)

Added(amounts) ==
    LET sum[i \in 0 .. Len(amounts)] == IF i = 0 THEN 0 ELSE sum[i - 1] + amounts[i]
    IN  sum[Len(amounts)]
TotalOf(rows)  == Added([i \in DOMAIN rows |-> rows[i].amount])

(* prepareBulkCampaign, prepareCampaign: leaves numbered from 0 as they come. *)
Indexed(row, index) ==
    [leaf_index |-> index, beneficiary |-> row.beneficiary, amount |-> row.amount,
     release_type |-> row.release_type, start_time |-> row.start_time,
     cliff_time |-> row.cliff_time, end_time |-> row.end_time,
     milestone_idx |-> row.milestone_idx]

Prepared(rows) ==
    [leaves         |-> [i \in DOMAIN rows |-> Indexed(rows[i], i - 1)],
     total_supply   |-> TotalOf(rows),
     min_cliff_time |-> Min({rows[i].cliff_time : i \in DOMAIN rows})]

(* ------------------------------ the server ----------------------------- *)
(* lib/api/validators.ts.  A leaf on its own may have its times in any     *)
(* order, those of a recipient may not; numbers are written with digits    *)
(* alone.                                                                  *)
LeafValid(leaf, proof) ==
    /\ {leaf.leaf_index, leaf.amount, leaf.start_time, leaf.cliff_time, leaf.end_time} \subseteq Nat
    /\ leaf.release_type \in {Cliff, Linear, Milestone}
    /\ leaf.milestone_idx \in 0 .. MaxMilestone
    /\ Len(proof) <= 32

LeavesValid(prepared) ==
    /\ prepared.leaf_count >= 1 /\ prepared.leaves # <<>>
    /\ \A i \in DOMAIN prepared.leaves : LeafValid(prepared.leaves[i], prepared.proofs[i])

CampaignRequestValid(prepared)    == LeavesValid(prepared)
RootVersionRequestValid(prepared) == LeavesValid(prepared) /\ prepared.min_cliff_time > 0

RecipientValid(row) ==
    /\ {row.amount, row.start_time, row.cliff_time, row.end_time} \subseteq Nat
    /\ row.amount # 0
    /\ row.release_type \in {Cliff, Linear, Milestone}
    /\ row.start_time <= row.cliff_time /\ row.cliff_time <= row.end_time
    /\ row.milestone_idx \in 0 .. MaxMilestone

(* POST /api/campaigns/import: the rows of a file that are valid, of each  *)
(* beneficiary's cliff and linear ones no more than there are slots for.   *)
Imported(rows) ==
    LET valid == {i \in DOMAIN rows : RecipientValid(rows[i])}
        Slots(i) == {j \in valid : /\ j <= i /\ rows[j].beneficiary = rows[i].beneficiary
                                   /\ rows[j].release_type # Milestone}
        over  == {i \in valid : rows[i].release_type # Milestone
                                 /\ Cardinality(Slots(i)) > PerLeafCap}
    IN  [validRows |-> Cardinality(valid) - Cardinality(over),
         errors    |-> Len(rows) - Cardinality(valid) + Cardinality(over)]

(* POST /api/campaigns/prepare, which the editor uses and the pages do not. *)
PrepareAccepts(rows) ==
    /\ \A i \in DOMAIN rows : RecipientValid(rows[i])
    /\ LET Some(P(_)) == {i \in DOMAIN rows : P(rows[i])}
       IN  /\ \A i, j \in Some(LAMBDA r : r.release_type = Milestone) :
                rows[i].beneficiary = rows[j].beneficiary
                  /\ rows[i].milestone_idx = rows[j].milestone_idx => i = j
           /\ \A i \in DOMAIN rows :
                Cardinality(Some(LAMBDA r : r.release_type # Milestone
                                         /\ r.beneficiary = rows[i].beneficiary)) <= PerLeafCap

(* create_campaign sees the root and the sums, create_stream the leaf, and *)
(* update_root of the new tree its root, its size and its earliest cliff.  *)
CreateAccepts(prepared) == prepared.total_supply > 0 /\ prepared.min_cliff_time # 0

CreateStreamAccepts(leaf) == leaf.amount > 0 /\ WellFormed(leaf)

UpdateAccepts(prepared, leaves) ==
    prepared.leaves # leaves /\ prepared.min_cliff_time # 0
=============================================================================
