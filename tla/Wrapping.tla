------------------------------ MODULE Wrapping ------------------------------
(***************************************************************************)
(* The token picker of a creation page and the dialog in it that wraps and *)
(* unwraps SOL: the list of the wallet's tokens that all pages share       *)
(* (WalletTokensProvider), the two balances that the dialog reads for      *)
(* itself (useWrapSol), and the transaction it sends, against a wallet     *)
(* that may be changed and whose money may move elsewhere.                 *)
(***************************************************************************)
EXTENDS Integers

CONSTANTS
    Wallets,
    Rent,       \* of a token account
    Fee,        \* of one signature
    Minimum,    \* what a wallet that is not empty must keep
    Margin,     \* the 0.003 SOL that a wrap leaves
    Cent,       \* 0.0001 SOL: what an amount is rounded to where it is shown
    Amounts,    \* amounts that may be typed in
    MostSol, MostWsol,  \* bounds: what a wallet has to begin with
    MaxMoves,   \* bound: operations begun, and times that money moves elsewhere
    MaxSwitches,    \* bound: times that the wallet is changed
    None

(* 2,039,280 + 5,000 + 890,880 lamports are less than 3,000,000. *)
ASSUME WrappingAssumption ==
    /\ Rent \in Nat /\ Fee \in Nat /\ Minimum \in Nat
    /\ Margin \in Nat /\ Rent + Fee + Minimum <= Margin
    /\ Cent \in Nat \ {0} /\ Amounts \subseteq Nat \ {0} /\ MostSol \in Nat /\ MostWsol \in Nat
    /\ MaxMoves \in Nat /\ MaxSwitches \in Nat
    /\ None \notin Wallets \cup Nat

VARIABLES
    sol, wsol,  \* on the chain, of each wallet; wsol is None without an account
    wallet,     \* publicKey, None if there is none
    tokens,     \* the list: that of which wallet, None if it is empty
    reading,    \* fetchingRef: whose list is being read, or None
    failed,     \* the last time that was not answered
    shown,      \* solBalance and wsolBalance of the dialog
    asking,     \* fetchInFlightRef: which balance it waits for, and whose
    recent,     \* a read of them ended less than 1.5 s ago
    picker,     \* the picker is open
    dialog,     \* isOpen, mode, amount, success and closedRef
    op,         \* wrapSol or unwrapSol, while isLoading
    lost        \* a transaction that went out of sight and may still land

(* What happened. *)
VARIABLES
    moves, switches,
    crossed     \* the wallet was changed while its list was read

chain    == <<sol, wsol>>
provider == <<tokens, reading, failed>>
hook     == <<shown, asking, recent, op>>
history  == <<moves, switches, crossed>>
vars     == <<chain, wallet, provider, hook, picker, dialog, lost, history>>

(* An operation is what handleSubmit has captured, how far it is, and, as  *)
(* a history, whether the balances were true when it began, whether        *)
(* nothing else moved since, and what its transaction moved.               *)
Held(w) == IF wsol[w] = None THEN 0 ELSE wsol[w]

Init ==
    /\ sol \in [Wallets -> {MostSol}] /\ wsol \in [Wallets -> {None, MostWsol}]
    /\ wallet = None
    /\ tokens = None /\ reading = None /\ failed = FALSE
    /\ shown = [sol |-> 0, wsol |-> 0] /\ asking = None /\ recent = FALSE
    /\ picker = FALSE
    /\ dialog = [open |-> FALSE, mode |-> "wrap", amount |-> 0, success |-> None, closed |-> FALSE]
    /\ op = None /\ lost = None
    /\ moves = 0 /\ switches = 0 /\ crossed = FALSE
-----------------------------------------------------------------------------
(* ------------------------- the list of the tokens ----------------------- *)
(* refetch: one read at a time, of whichever wallet there was. *)
Refetch(w) ==
    IF w = None \/ reading # None THEN UNCHANGED <<reading, failed>>
    ELSE reading' = w /\ failed' = FALSE

(* The wallet connects, disconnects or is another.  Bound: not while the   *)
(* dialog is open or has something under way.                              *)
SwitchWallet(w) ==
    /\ w # wallet /\ switches < MaxSwitches
    /\ ~dialog.open /\ op = None /\ asking = None
    /\ wallet' = w
    /\ tokens' = IF w = None THEN None ELSE tokens
    /\ Refetch(w)
    /\ switches' = switches + 1 /\ crossed' = (crossed \/ reading # None)
    /\ UNCHANGED <<chain, hook, picker, dialog, lost, moves>>

(* The answer, or its error or the timeout, after which it is not heard. *)
ListArrives ==
    /\ reading # None
    /\ tokens' = reading
    /\ reading' = None /\ failed' = FALSE
    /\ UNCHANGED <<chain, wallet, hook, picker, dialog, lost, history>>

ListFails ==
    /\ reading # None
    /\ reading' = None /\ failed' = TRUE
    /\ UNCHANGED <<chain, wallet, tokens, hook, picker, dialog, lost, history>>

OpenPicker ==
    /\ ~picker /\ picker' = TRUE
    /\ Refetch(wallet)
    /\ UNCHANGED <<chain, wallet, tokens, hook, dialog, lost, history>>

(* With the token that is picked, or without. *)
ClosePicker ==
    /\ picker /\ ~dialog.open /\ picker' = FALSE
    /\ UNCHANGED <<chain, wallet, provider, hook, dialog, lost, history>>

(* The Refresh and Retry buttons. *)
RefreshList ==
    /\ picker /\ reading = None
    /\ Refetch(wallet)
    /\ UNCHANGED <<chain, wallet, tokens, hook, picker, dialog, lost, history>>
-----------------------------------------------------------------------------
(* ------------------------------ the balances ---------------------------- *)
(* fetchBalances: a second call waits for the first, and one within 1.5 s  *)
(* of the last is dropped.                                                 *)
FetchBalances(w) ==
    asking' = IF w = None \/ asking # None \/ recent THEN asking
              ELSE [of |-> w, step |-> "sol"]

SolArrives ==
    /\ asking # None /\ asking.step = "sol"
    /\ shown' = [shown EXCEPT !.sol = sol[asking.of]]
    /\ asking' = [asking EXCEPT !.step = "wsol"]
    /\ UNCHANGED <<chain, wallet, provider, recent, op, picker, dialog, lost, history>>

Asked == asking' = None /\ recent' = TRUE

SolFails ==
    /\ asking # None /\ asking.step = "sol"
    /\ Asked
    /\ UNCHANGED <<chain, wallet, provider, shown, op, picker, dialog, lost, history>>

(* No account and no answer look the same. *)
WsolArrives(answered) ==
    /\ asking # None /\ asking.step = "wsol"
    /\ shown' = [shown EXCEPT !.wsol = IF answered THEN Held(asking.of) ELSE 0]
    /\ Asked
    /\ UNCHANGED <<chain, wallet, provider, op, picker, dialog, lost, history>>

TimePasses ==
    /\ recent /\ recent' = FALSE
    /\ UNCHANGED <<chain, wallet, provider, shown, asking, op, picker, dialog, lost, history>>

(* The Retry button. *)
RetryBalances ==
    /\ dialog.open /\ dialog.success = None
    /\ asking = None /\ shown = [sol |-> 0, wsol |-> 0]
    /\ FetchBalances(wallet)
    /\ UNCHANGED <<chain, wallet, provider, shown, recent, op, picker, dialog, lost, history>>
-----------------------------------------------------------------------------
(* ------------------------------- the dialog ----------------------------- *)
OpenDialog ==
    /\ picker /\ ~dialog.open
    /\ dialog' = [dialog EXCEPT !.open = TRUE, !.amount = 0, !.success = None, !.closed = FALSE]
    /\ FetchBalances(wallet)
    /\ UNCHANGED <<chain, wallet, provider, shown, recent, op, picker, lost, history>>

CloseDialog ==
    /\ dialog.open
    /\ dialog' = [dialog EXCEPT !.open = FALSE]
    /\ UNCHANGED <<chain, wallet, provider, hook, picker, lost, history>>

SetDialog(next) ==
    /\ dialog.open /\ dialog.success = None
    /\ dialog' = next
    /\ UNCHANGED <<chain, wallet, provider, hook, picker, lost, history>>

Type(amount) == op = None /\ SetDialog([dialog EXCEPT !.amount = amount])

(* Neither the tabs nor Max are disabled while an operation is under way.  *)
SetMode(mode) == SetDialog([dialog EXCEPT !.mode = mode, !.amount = 0])

\* formatSol: toFixed(4), half a cent up
FormatSol(v) == ((2 * v + Cent) \div (2 * Cent)) * Cent

SetMax ==
    LET most == IF dialog.mode = "unwrap" THEN shown.wsol
                ELSE IF shown.sol > Margin THEN shown.sol - Margin ELSE 0
    IN  SetDialog([dialog EXCEPT !.amount = FormatSol(most)])

(* canSubmit, which the hook asks once more; and without its margin. *)
CanSubmitAll ==
    /\ dialog.amount > 0
    /\ IF dialog.mode = "wrap" THEN dialog.amount <= shown.sol ELSE dialog.amount <= shown.wsol

CanSubmit ==
    /\ dialog.amount > 0
    /\ IF dialog.mode = "wrap" THEN dialog.amount <= shown.sol - Margin
                               ELSE dialog.amount <= shown.wsol

(* handleSubmit.  The product of an amount and a billion may fall short of *)
(* the lamports that were meant by one.                                    *)
Submit(dust) ==
    /\ dialog.open /\ dialog.success = None /\ wallet # None
    /\ CanSubmit /\ op = None /\ moves < MaxMoves
    /\ op' = [step |-> "building", of |-> wallet, mode |-> dialog.mode, amount |-> dialog.amount,
              full |-> dialog.mode = "unwrap" /\ dialog.amount >= shown.wsol,
              create |-> FALSE, lamports |-> dialog.amount - dust,
              true |-> shown = [sol |-> sol[wallet], wsol |-> Held(wallet)],
              alone |-> TRUE, moved |-> 0]
    /\ moves' = moves + 1
    /\ UNCHANGED <<chain, wallet, provider, shown, asking, recent, picker, dialog, lost,
                   switches, crossed>>
-----------------------------------------------------------------------------
(* ---------------------------- the transaction --------------------------- *)
Proceed(next) ==
    /\ op' = next
    /\ UNCHANGED <<chain, wallet, provider, shown, asking, recent, picker, dialog, lost, history>>

(* Who wraps looks whether there is an account first. *)
Build ==
    /\ op # None /\ op.step = "building"
    /\ Proceed([op EXCEPT !.step = "signing",
                          !.create = op.mode = "wrap" /\ wsol[op.of] = None])

(* What its instructions need, all of them or none. *)
Needed(tx) ==
    IF tx.mode = "wrap" THEN Fee + tx.lamports + (IF tx.create THEN Rent ELSE 0)
    ELSE IF tx.full THEN Fee ELSE 2 * Fee + Rent

Executes(tx) ==
    /\ sol[tx.of] >= Needed(tx)
    /\ tx.mode = "wrap" =>
         /\ tx.create <=> wsol[tx.of] = None
         /\ sol[tx.of] - Needed(tx) \in {0} \cup {rest \in 0 .. sol[tx.of] : rest >= Minimum}
    /\ tx.mode = "unwrap" =>
         /\ wsol[tx.of] # None
         /\ ~tx.full => wsol[tx.of] >= tx.lamports

(* What it leaves, and how much it moved.  The rent of the account in      *)
(* between comes back, with the one that is closed for good its own too.   *)
Moves(tx) == IF tx.full THEN Held(tx.of) ELSE tx.lamports

Execute(tx) ==
    /\ wsol' = [wsol EXCEPT ![tx.of] =
                  IF tx.mode = "wrap" THEN Held(tx.of) + tx.lamports
                  ELSE IF tx.full THEN None ELSE Held(tx.of) - tx.lamports]
    /\ sol' = [sol EXCEPT ![tx.of] =
                  IF tx.mode = "wrap" THEN sol[tx.of] - Needed(tx)
                  ELSE IF tx.full THEN sol[tx.of] + Held(tx.of) + Rent - Fee
                  ELSE sol[tx.of] + tx.lamports - 2 * Fee]

(* The wallet signs what passes its simulation. *)
Sign ==
    /\ op # None /\ op.step = "signing" /\ Executes(op)
    /\ Proceed([op EXCEPT !.step = "sent"])

(* It is refused by the wallet or its owner, a question is not answered,   *)
(* or the transaction expires: an error, and the dialog as it was.         *)
Refused ==
    /\ op # None /\ op.step \in {"building", "signing", "sent"}
    /\ Proceed(None)

(* It does what it says or nothing, for which a fee is taken too. *)
Land(tx) ==
    IF Executes(tx) THEN Execute(tx)
    ELSE /\ sol' = [sol EXCEPT ![tx.of] = IF @ > Fee THEN @ - Fee ELSE 0]
         /\ UNCHANGED wsol

(* Confirmed, whether or not it did what it should: confirmTransaction     *)
(* returns its error, and nobody looks at it.                              *)
Lands ==
    /\ op # None /\ op.step = "sent"
    /\ Land(op)
    /\ op' = [op EXCEPT !.step = "confirmed", !.moved = IF Executes(op) THEN Moves(op) ELSE 0]
    /\ UNCHANGED <<wallet, provider, shown, asking, recent, picker, dialog, lost, history>>

(* Its confirmation does not come back; it may land all the same.  Bound:  *)
(* one of these at a time.                                                 *)
LoseSight ==
    /\ op # None /\ op.step = "sent" /\ lost = None
    /\ lost' = op /\ op' = None
    /\ UNCHANGED <<chain, wallet, provider, shown, asking, recent, picker, dialog, history>>

Disturbed(w) == IF op # None /\ op.of = w THEN [op EXCEPT !.alone = FALSE] ELSE op

(* It lands in the end, or expires. *)
LostEnds ==
    /\ lost # None /\ lost' = None
    /\ \/ Land(lost) /\ op' = Disturbed(lost.of)
       \/ UNCHANGED <<chain, op>>
    /\ UNCHANGED <<wallet, provider, shown, asking, recent, picker, dialog, history>>

(* The balances are read again before it says that it succeeded. *)
Refresh ==
    /\ op # None /\ op.step = "confirmed"
    /\ op' = [op EXCEPT !.step = "refreshing"]
    /\ FetchBalances(op.of)
    /\ UNCHANGED <<chain, wallet, provider, shown, recent, picker, dialog, lost, history>>

Succeed ==
    /\ op # None /\ op.step = "refreshing" /\ asking = None
    /\ op' = None
    /\ dialog' = [dialog EXCEPT !.success = op]
    /\ UNCHANGED <<chain, wallet, provider, shown, asking, recent, picker, lost, history>>

(* Two seconds later, unless it was opened again; then the picker reads    *)
(* its list anew.                                                          *)
TimerFires ==
    /\ dialog.success # None /\ ~dialog.closed
    /\ dialog' = [dialog EXCEPT !.closed = TRUE, !.open = FALSE]
    /\ Refetch(wallet)
    /\ UNCHANGED <<chain, wallet, tokens, hook, picker, lost, history>>

(* The wallet's money elsewhere: more or less of either, an account opened *)
(* or closed.                                                              *)
MoveElsewhere(w, amount, held) ==
    /\ moves < MaxMoves /\ <<amount, held>> # <<sol[w], wsol[w]>>
    /\ sol' = [sol EXCEPT ![w] = amount] /\ wsol' = [wsol EXCEPT ![w] = held]
    /\ op' = Disturbed(w)
    /\ moves' = moves + 1
    /\ UNCHANGED <<wallet, provider, shown, asking, recent, picker, dialog, lost, switches, crossed>>

ListNext ==
    \/ \E w \in Wallets \cup {None} : SwitchWallet(w)
    \/ ListArrives \/ ListFails
    \/ OpenPicker \/ ClosePicker \/ RefreshList

DialogNext ==
    \/ SolArrives \/ SolFails \/ (\E answered \in BOOLEAN : WsolArrives(answered))
    \/ TimePasses \/ RetryBalances
    \/ OpenDialog \/ CloseDialog
    \/ (\E amount \in Amounts : Type(amount))
    \/ (\E mode \in {"wrap", "unwrap"} : SetMode(mode))
    \/ SetMax
    \/ (\E dust \in {0, 1} : Submit(dust))
    \/ Build \/ Sign \/ Refused \/ Lands \/ LoseSight \/ LostEnds
    \/ Refresh \/ Succeed \/ TimerFires

Next ==
    \/ ListNext \/ DialogNext
    \/ \E w \in Wallets, amount \in {0, Minimum, MostSol}, held \in {None, 0, MostWsol} :
         MoveElsewhere(w, amount, held)

Spec == Init /\ [][Next]_vars
-----------------------------------------------------------------------------
(* A wrap that the balances let through, when they were true and nothing   *)
(* else moved since, is never refused for want of SOL or for the account   *)
(* that it opens or does not open, in whichever order the balances, an     *)
(* earlier transaction that went out of sight and the clicks come: the     *)
(* 0.003 SOL of WrapSolModal.canSubmit are enough.                         *)
LetThroughExecutes ==
    op # None /\ op.mode = "wrap" /\ op.true /\ op.alone
      /\ op.step \in {"signing", "sent"} => Executes(op)

(* Whoever reads that a wrap or an unwrap succeeded is told, to a lamport, *)
(* what it moved, all of an account that was closed included, when nothing *)
(* else moved and the tab is still the one it was submitted from.          *)
SuccessIsSo ==
    LET done == dialog.success
    IN  done # None /\ done.alone /\ (done.full => done.true) /\ dialog.mode = done.mode =>
          done.moved \in {done.amount - 1, done.amount}

(* The list of the picker, once it was read without an error, is that of   *)
(* the connected wallet (WalletTokensProvider.refetch).                    *)
ListIsOfWallet ==
    tokens # None /\ reading = None /\ ~failed => tokens = wallet

(* What the picker and its dialog may be relied on for, on whatever        *)
(* schedule their reads and transactions end: a wrap that was let through  *)
(* goes through, a success is one, and the list is the wallet's unless the *)
(* wallet was changed while it was read.                                   *)
DialogKeepsItsWord ==
    /\ LetThroughExecutes
    /\ SuccessIsSo
    /\ ~crossed => ListIsOfWallet
=============================================================================
