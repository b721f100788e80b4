------------------------------- MODULE Editor -------------------------------
(***************************************************************************)
(* The allocation editor of a campaign (components/campaign/detail/        *)
(* AllocationEditor.tsx) on its page (app/(app)/campaign/[id]/allocations):*)
(* four answers arrive in any order, the table of recipients appears,      *)
(* disappears and is filled as they do, and what stands in it in the end   *)
(* becomes the campaign's next tree.                                       *)
(*                                                                         *)
(* Service has the same page from the rotation on, with every way in which *)
(* it fails; here a rotation and its POST succeed together or not at all.  *)
(***************************************************************************)
EXTENDS Form

CONSTANTS
    Amounts,        \* amounts that may be written
    MaxRows,        \* bound: leaves of a campaign that is edited; one row
                    \* more than there are can be added to them
    MaxEdits,       \* bound: edits of fields
    MaxRotations    \* bound: rotations

VARIABLES
    editor,         \* the page, or None
    stored          \* the leaves that /leaves serves

EditRow == [beneficiary : Wallets \cup {None}, amount : Nat \cup {None}, release_type : Pages,
            start_time : Nat \cup {None}, cliff_time : Nat \cup {None},
            end_time : Nat \cup {None}, milestone_idx : Nat,
            from : Nat \cup {None}, locked : BOOLEAN]

EmptyRow ==
    [beneficiary |-> None, amount |-> None, release_type |-> Cliff, start_time |-> None,
     cliff_time |-> None, end_time |-> None, milestone_idx |-> 0, from |-> None, locked |-> FALSE]

(* from is a history: the leaf whose amount still stands in the row.       *)
Opened ==
    [loading |-> TRUE,          \* the tree's account is being fetched
     refetching |-> TRUE,       \* the campaign's details are
     detail |-> None,           \* of them, the number of leaves
     fetched |-> TRUE,          \* the leaves were, or there is no need yet
     leaves |-> <<>>,
     decimals |-> None,         \* those of the mint, when known
     rows |-> None,             \* the table, when there is one
     shownWith |-> None,        \* decimals it was filled with (history)
     synced |-> FALSE, edits |-> 0, rotations |-> 0,
     sending |-> None]          \* the recipients on their way

PageType == [loading : BOOLEAN, refetching : BOOLEAN, detail : Nat \cup {None},
             fetched : BOOLEAN, leaves : Seq(TreeLeaf), decimals : Nat \cup {None},
             rows : Seq(EditRow) \cup {None}, shownWith : Nat \cup {None},
             synced : BOOLEAN, edits : Nat, rotations : Nat,
             sending : {None} \cup [rows : Seq(Allocated), late : BOOLEAN,
                                   from : Seq(Nat \cup {None})]]

ASSUME EditorAssumption ==
    /\ Amounts \subseteq Nat
    /\ MaxRows \in Nat /\ MaxEdits \in Nat /\ MaxRotations \in Nat
    /\ None \notin PageType
-----------------------------------------------------------------------------
KnownDecimals(e) == IF e.decimals = None THEN DefaultDecimals ELSE e.decimals

(* initialRows *)
InitialRows(e) ==
    IF e.leaves = <<>> THEN <<EmptyRow>>
    ELSE [i \in DOMAIN e.leaves |->
            LET leaf == e.leaves[i]
            IN  [beneficiary |-> leaf.beneficiary, from |-> i, locked |-> FALSE,
                 amount |-> Written(leaf.amount, KnownDecimals(e)),
                 release_type |-> leaf.release_type, start_time |-> leaf.start_time,
                 cliff_time |-> leaf.cliff_time, end_time |-> leaf.end_time,
                 milestone_idx |-> leaf.milestone_idx]]

(* Without the campaign's details nothing says that leaves are awaited.    *)
Mounted(e) == ~e.loading /\ (e.detail # None => e.fetched)

(* A table that appears takes the rows of then.                            *)
Mount(e) ==
    IF ~Mounted(e) THEN [e EXCEPT !.rows = None, !.synced = FALSE]
    ELSE IF e.rows = None
         THEN [e EXCEPT !.rows = InitialRows(e), !.shownWith = KnownDecimals(e)]
         ELSE e

(* Once, at the first time that its first row has no wallet, be that when  *)
(* it appears empty or when somebody clears the field, the table takes the *)
(* initial rows again and locks the types of those that have a wallet.     *)
Sync(e) ==
    IF e.rows # None /\ ~e.synced /\ e.rows[1].beneficiary = None
    THEN [e EXCEPT !.synced = TRUE, !.shownWith = KnownDecimals(e),
                   !.rows = [i \in DOMAIN InitialRows(e) |->
                     [InitialRows(e)[i] EXCEPT !.locked = InitialRows(e)[i].beneficiary # None]]]
    ELSE e

Render(e) == editor' = Sync(Mount(e)) /\ UNCHANGED <<vars, stored>>
-----------------------------------------------------------------------------
(* canRotateRoot asks for more than one leaf.  The creation page is left.  *)
(* Bounds: a campaign that is funded, in its own token alone, and not      *)
(* before the clock has stopped, as nothing here looks at it.              *)
OpenEditor ==
    /\ editor = None /\ flow = None /\ now = MaxTime
    /\ chain # None /\ Len(chain.leaves) \in 2 .. MaxRows
    /\ chain.pools[chain.mint] = chain.total_supply /\ ~chain.card
    /\ editor' = Opened
    /\ stored' = chain.leaves
    /\ mode' = "single" /\ mint' = None /\ entries' = <<Blank>>
    /\ csvText' = None /\ csvResult' = None /\ txState' = Idle
    /\ UNCHANGED <<now, kind, recipient, flow, chain>>

TreeArrives == editor.loading /\ Render([editor EXCEPT !.loading = FALSE])

(* Leaves are fetched whenever their number is another than before.        *)
DetailArrives ==
    /\ editor.refetching
    /\ LET e == [editor EXCEPT !.refetching = FALSE, !.detail = Len(stored)]
       IN  Render(IF Len(stored) = editor.detail THEN e
                  ELSE [e EXCEPT !.leaves = <<>>, !.fetched = FALSE])

(* The answer, or none. *)
LeavesArrive ==
    /\ editor.detail # None /\ ~editor.fetched
    /\ \E leaves \in {stored, <<>>} :
         Render([editor EXCEPT !.leaves = leaves, !.fetched = TRUE])

DecimalsArrive ==
    /\ editor.detail # None /\ editor.decimals = None
    /\ Render([editor EXCEPT !.decimals = Decimals[chain.mint]])
-----------------------------------------------------------------------------
(* Bound: the table rests while its recipients are on their way; they were *)
(* taken when the button was pressed.                                      *)
Edit(rows) ==
    /\ editor.edits < MaxEdits /\ editor.sending = None
    /\ Render([editor EXCEPT !.rows = rows, !.edits = @ + 1])

EditWallet(i, wallet) == Edit([editor.rows EXCEPT ![i].beneficiary = wallet])

EditAmount(i, amount) == Edit([editor.rows EXCEPT ![i].amount = amount, ![i].from = None])

EditType(i, type) ==
    ~editor.rows[i].locked /\ Edit([editor.rows EXCEPT ![i].release_type = type])

(* A new row takes type and times of the last, not its milestone index.    *)
AddRow ==
    /\ Len(editor.rows) <= MaxRows /\ editor.sending = None
    /\ Render([editor EXCEPT !.rows =
         Append(@, [@[Len(@)] EXCEPT !.beneficiary = None, !.amount = None,
                                     !.milestone_idx = 0, !.from = None,
                                     !.locked = FALSE])])

RemoveRow(i) ==
    /\ Len(editor.rows) > 1
    /\ Edit(SubSeq(editor.rows, 1, i - 1) \o SubSeq(editor.rows, i + 1, Len(editor.rows)))
-----------------------------------------------------------------------------
Recipients ==
    [i \in DOMAIN editor.rows |->
        LET row == editor.rows[i]
        IN  Leaf(row.beneficiary, Raw(row.amount, KnownDecimals(editor)), row.release_type,
                 [start |-> row.start_time, cliff |-> row.cliff_time, end |-> row.end_time],
                 row.milestone_idx)]

WithinSupply(rows) == TotalOf(rows) <= chain.total_supply

(* The button wants wallets and amounts in all rows, handleSubmit times,   *)
(* and both that the sum stays within the supply.                          *)
SubmitRows ==
    /\ editor.sending = None /\ editor.detail # None
    /\ editor.rotations < MaxRotations
    /\ \A i \in DOMAIN editor.rows :
         /\ editor.rows[i].beneficiary # None /\ editor.rows[i].amount \notin {None, 0}
         /\ None \notin {editor.rows[i].start_time, editor.rows[i].cliff_time,
                         editor.rows[i].end_time}
    /\ WithinSupply(Recipients)
    /\ Render([editor EXCEPT !.sending =
                [rows |-> Recipients, late |-> KnownDecimals(editor) # editor.shownWith,
                 from |-> [i \in DOMAIN editor.rows |-> editor.rows[i].from]]])

(* Afterwards tree and details are fetched again, which takes the table    *)
(* away, and the leaves if there are more or fewer of them.                *)
Rotate ==
    /\ editor.sending # None
    /\ PrepareAccepts(editor.sending.rows) /\ Buildable(editor.sending.rows)
    /\ UpdateAccepts(Prepared(editor.sending.rows), chain.leaves)
    /\ chain' = [chain EXCEPT !.leaves = Prepared(editor.sending.rows).leaves]
    /\ stored' = Prepared(editor.sending.rows).leaves
    /\ editor' = Mount([editor EXCEPT !.sending = None, !.loading = TRUE, !.refetching = TRUE,
                                      !.rotations = @ + 1])
    /\ UNCHANGED <<now, form, flow>>

RotationFails == editor.sending # None /\ Render([editor EXCEPT !.sending = None])

EditorNext ==
    /\ editor # None
    /\ \/ TreeArrives \/ DetailArrives \/ LeavesArrive \/ DecimalsArrive
       \/ Rotate \/ RotationFails
       \/ editor.rows # None /\
            \/ AddRow \/ SubmitRows
            \/ \E i \in DOMAIN editor.rows :
                 \/ RemoveRow(i)
                 \/ \E wallet \in Wallets \cup {None} : EditWallet(i, wallet)
                 \/ \E amount \in Amounts : EditAmount(i, amount)
                 \/ \E type \in Pages : EditType(i, type)

Next ==
    \/ editor = None /\ FormNext /\ UNCHANGED <<editor, stored>>
    \/ OpenEditor
    \/ EditorNext

Init == FormInit /\ editor = None /\ stored = <<>>

Spec == Init /\ [][Next]_<<vars, editor, stored>>
=============================================================================
