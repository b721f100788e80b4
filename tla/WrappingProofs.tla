--------------------------- MODULE WrappingProofs ---------------------------
(***************************************************************************)
(* Theorems about Wrapping, for any wallets and balances, any number of    *)
(* operations and whatever rent, fee and least balance the margin covers.  *)
(***************************************************************************)
EXTENDS Wrapping, TLAPS

Modes == {"wrap", "unwrap"}
Steps == {"building", "signing", "sent", "confirmed", "refreshing"}

Operation == [step : Steps, of : Wallets, mode : Modes, amount : Nat, full : BOOLEAN,
              create : BOOLEAN, lamports : Nat, true : BOOLEAN, alone : BOOLEAN, moved : Nat]

Dialog == [open : BOOLEAN, mode : Modes, amount : Nat, success : Operation \cup {None},
           closed : BOOLEAN]

TypeOK ==
    /\ sol \in [Wallets -> Nat] /\ wsol \in [Wallets -> Nat \cup {None}]
    /\ wallet \in Wallets \cup {None}
    /\ tokens \in Wallets \cup {None} /\ reading \in Wallets \cup {None} /\ failed \in BOOLEAN
    /\ shown \in [sol : Nat, wsol : Nat]
    /\ asking \in [of : Wallets, step : {"sol", "wsol"}] \cup {None} /\ recent \in BOOLEAN
    /\ picker \in BOOLEAN /\ dialog \in Dialog
    /\ op \in Operation \cup {None} /\ lost \in Operation \cup {None}
    /\ moves \in Nat /\ switches \in Nat /\ crossed \in BOOLEAN

(* An operation of which nothing is to be said: something else moved, or   *)
(* it closes an account that did not hold what was shown.                  *)
Meant(tx) == tx.alone /\ (tx.full => tx.true)

Told(tx) == tx.moved \in {tx.amount - 1, tx.amount}

(* Until it lands, what was true of an operation's balances still is, and  *)
(* what was simulated still executes, unless something else moved.         *)
Pending(tx) ==
    /\ tx.step \in {"building", "signing", "sent"} /\ tx.true /\ tx.alone =>
         /\ tx.mode = "wrap" => tx.amount + Margin <= sol[tx.of]
         /\ tx.full => tx.amount = Held(tx.of)
    /\ tx.step \in {"signing", "sent"} /\ tx.alone /\ tx.mode = "wrap" =>
         (tx.create <=> wsol[tx.of] = None)
    /\ tx.step = "sent" /\ tx.alone => Executes(tx)

(* What stays of an operation whatever moves: its lamports are its amount  *)
(* or one less, and once it landed it moved what it says.                  *)
Kept(tx) ==
    /\ tx.lamports \in {tx.amount - 1, tx.amount}
    /\ tx.full => tx.mode = "unwrap"
    /\ tx.step \in {"confirmed", "refreshing"} /\ Meant(tx) => Told(tx)

OperationSound == op # None => Kept(op) /\ Pending(op)

SuccessSound == dialog.success # None /\ Meant(dialog.success) => Told(dialog.success)

(* The list that is on its way is that of the wallet as well. *)
ListSound ==
    ~crossed => (reading # None => reading = wallet) /\ ListIsOfWallet

WrappingInv == TypeOK /\ OperationSound /\ SuccessSound /\ ListSound

USE DEF Modes, Steps

(* ------------------------- what the operators return -------------------- *)
LEMMA RoundedType ==
    ASSUME NEW v \in Nat
    PROVE  FormatSol(v) \in Nat
<1>1. Cent \in Nat \ {0}
  BY WrappingAssumption
<1>2. PICK d \in Nat \ {0} : d = 2 * Cent
  BY <1>1
<1>3. PICK n \in Nat : n = 2 * v + Cent
  BY <1>1
<1>4. PICK q \in Nat : q = n \div d
  BY <1>2, <1>3
<1>5. q * Cent \in Nat
  BY <1>1, <1>4
<1> QED BY <1>2, <1>3, <1>4, <1>5 DEF FormatSol

LEMMA HeldType ==
    ASSUME TypeOK, NEW w \in Wallets
    PROVE  Held(w) \in Nat /\ sol[w] \in Nat /\ wsol[w] \in Nat \cup {None}
BY WrappingAssumption DEF TypeOK, Held

LEMMA ListReadType ==
    ASSUME TypeOK, NEW w \in Wallets \cup {None}, Refetch(w) \/ UNCHANGED <<reading, failed>>
    PROVE  reading' \in Wallets \cup {None} /\ failed' \in BOOLEAN
BY DEF TypeOK, Refetch

LEMMA BalancesAskedType ==
    ASSUME TypeOK, NEW w \in Wallets \cup {None}, FetchBalances(w)
    PROVE  asking' \in [of : Wallets, step : {"sol", "wsol"}] \cup {None}
BY DEF TypeOK, FetchBalances

(* A transaction takes and moves what is there. *)
LEMMA LandType ==
    ASSUME TypeOK, NEW tx \in Operation, Land(tx)
    PROVE  /\ sol' \in [Wallets -> Nat] /\ wsol' \in [Wallets -> Nat \cup {None}]
           /\ \A w \in Wallets : w # tx.of => sol'[w] = sol[w] /\ wsol'[w] = wsol[w]
<1>1. /\ tx.of \in Wallets /\ tx.lamports \in Nat /\ tx.mode \in {"wrap", "unwrap"}
      /\ sol[tx.of] \in Nat /\ wsol[tx.of] \in Nat \cup {None} /\ Held(tx.of) \in Nat
      /\ Fee \in Nat /\ Rent \in Nat /\ None \notin Nat
  BY HeldType, WrappingAssumption DEF Operation
<1>2. CASE ~Executes(tx)
  <2>1. PICK n \in Nat : n = IF sol[tx.of] > Fee THEN sol[tx.of] - Fee ELSE 0
    BY <1>1
  <2>2. sol' = [sol EXCEPT ![tx.of] = n] /\ wsol' = wsol
    BY <1>2, <2>1 DEF Land
  <2> QED BY <1>1, <2>1, <2>2 DEF TypeOK
<1>3. CASE Executes(tx)
  <2>1. PICK n : n = IF tx.mode = "wrap" THEN sol[tx.of] - Needed(tx)
                     ELSE IF tx.full THEN sol[tx.of] + Held(tx.of) + Rent - Fee
                     ELSE sol[tx.of] + tx.lamports - 2 * Fee
    OBVIOUS
  <2>2. PICK h : h = IF tx.mode = "wrap" THEN Held(tx.of) + tx.lamports
                     ELSE IF tx.full THEN None ELSE Held(tx.of) - tx.lamports
    OBVIOUS
  <2>3. sol' = [sol EXCEPT ![tx.of] = n] /\ wsol' = [wsol EXCEPT ![tx.of] = h]
    BY <1>3, <2>1, <2>2 DEF Land, Execute
  <2>4. n \in Nat
    BY <1>1, <1>3, <2>1 DEF Executes, Needed
  <2>5. h \in Nat \cup {None}
    BY <1>1, <1>3, <2>2 DEF Executes, Held
  <2> QED BY <1>1, <2>3, <2>4, <2>5 DEF TypeOK
<1> QED BY <1>2, <1>3

(* What an operation that has not moved anything yet becomes when somebody *)
(* else moves the money of its wallet.                                     *)
LEMMA DisturbedKept ==
    ASSUME TypeOK, OperationSound, NEW w \in Wallets, op' = Disturbed(w)
    PROVE  /\ op' \in Operation \cup {None}
           /\ op' # None => Kept(op')
           /\ op' = op \/ (op' # None => ~op'.alone)
           /\ op' # None /\ op'.alone => op' = op /\ op.of # w
<1>1. CASE op = None \/ op.of # w
  <2>1. op' = op
    BY <1>1 DEF Disturbed
  <2> QED BY <1>1, <2>1 DEF TypeOK, OperationSound, Operation
<1>2. CASE op # None /\ op.of = w
  <2>1. PICK new : new = [op EXCEPT !.alone = FALSE]
    OBVIOUS
  <2>2. op' = new
    BY <1>2, <2>1 DEF Disturbed
  <2>3. op \in Operation
    BY <1>2 DEF TypeOK
  <2>4. /\ new \in Operation /\ ~new.alone /\ new.lamports = op.lamports
        /\ new.amount = op.amount /\ new.full = op.full /\ new.mode = op.mode
    BY <2>1, <2>3 DEF Operation
  <2>5. Kept(new)
    BY <1>2, <2>4 DEF OperationSound, Kept, Meant
  <2> QED BY <2>2, <2>4, <2>5
<1> QED BY <1>1, <1>2

(* Money moved at one wallet by somebody else. *)
LEMMA DisturbedSound ==
    ASSUME TypeOK, OperationSound, NEW w \in Wallets, op' = Disturbed(w),
           \A v \in Wallets : v # w => sol'[v] = sol[v] /\ wsol'[v] = wsol[v]
    PROVE  op' \in Operation \cup {None} /\ OperationSound'
<1>1. op' \in Operation \cup {None} /\ (op' # None => Kept(op'))
  BY DisturbedKept
<1>2. CASE op' = None
  BY <1>1, <1>2 DEF OperationSound
<1>3. CASE op' # None /\ ~op'.alone
  BY <1>1, <1>3 DEF OperationSound, Pending, Kept, Meant, Told
<1>4. CASE op' # None /\ op'.alone
  <2>1. op' = op /\ op.of # w /\ op.of \in Wallets
    BY <1>4, DisturbedKept DEF TypeOK, Operation
  <2>2. sol'[op.of] = sol[op.of] /\ wsol'[op.of] = wsol[op.of]
    BY <2>1
  <2>3. Kept(op) /\ Pending(op)
    BY <1>4, <2>1 DEF OperationSound
  <2> QED BY <1>1, <2>1, <2>2, <2>3
          DEF OperationSound, Kept, Meant, Told, Pending, Held, Executes, Needed
<1> QED BY <1>2, <1>3, <1>4
-----------------------------------------------------------------------------
(* ----------------------------- the invariant ---------------------------- *)
LEMMA InitInv == Init => WrappingInv
<1> SUFFICES ASSUME Init PROVE WrappingInv
  OBVIOUS
<1>1. TypeOK
  BY WrappingAssumption DEF Init, TypeOK, Dialog
<1> QED BY <1>1 DEF Init, WrappingInv, OperationSound, SuccessSound, ListSound, ListIsOfWallet

(* The steps that neither move money nor touch the operation.              *)
LEMMA ListSteps ==
    ASSUME WrappingInv, ListNext
    PROVE  WrappingInv'
<1>1. UNCHANGED <<chain, hook, lost, moves>> /\ dialog' = dialog
  BY DEF ListNext, SwitchWallet, ListArrives, ListFails, OpenPicker, ClosePicker, RefreshList,
         history, provider
<1>2. /\ wallet' \in Wallets \cup {None} /\ tokens' \in Wallets \cup {None}
      /\ reading' \in Wallets \cup {None} /\ failed' \in BOOLEAN /\ picker' \in BOOLEAN
      /\ switches' \in Nat /\ crossed' \in BOOLEAN /\ ListSound'
  <2>0. /\ wallet \in Wallets \cup {None} /\ tokens \in Wallets \cup {None}
        /\ reading \in Wallets \cup {None} /\ failed \in BOOLEAN /\ picker \in BOOLEAN
        /\ switches \in Nat /\ crossed \in BOOLEAN /\ ListSound
    BY DEF WrappingInv, TypeOK
  <2>1. ASSUME NEW w \in Wallets \cup {None}, SwitchWallet(w)
        PROVE  /\ wallet' \in Wallets \cup {None} /\ tokens' \in Wallets \cup {None}
               /\ reading' \in Wallets \cup {None} /\ failed' \in BOOLEAN /\ picker' \in BOOLEAN
               /\ switches' \in Nat /\ crossed' \in BOOLEAN /\ ListSound'
    <3>1. /\ wallet' \in Wallets \cup {None} /\ tokens' \in Wallets \cup {None}
          /\ reading' \in Wallets \cup {None} /\ picker' = picker /\ switches' \in Nat
      BY <2>0, <2>1 DEF SwitchWallet, Refetch
    <3>2. failed' \in BOOLEAN
      BY <2>0, <2>1, Zenon DEF SwitchWallet, Refetch
    <3>3. crossed' \in BOOLEAN
      <4>1. CASE crossed' = TRUE
        BY <4>1
      <4>2. CASE crossed' # TRUE
        BY <2>0, <2>1, <4>2, Zenon DEF SwitchWallet
      <4> QED BY <4>1, <4>2
    <3>4. CASE reading # None
      BY <2>0, <2>1, <3>1, <3>2, <3>3, <3>4 DEF SwitchWallet, ListSound
    <3>5. CASE reading = None
      <4>1. /\ wallet' = w /\ crossed' = crossed
            /\ tokens' = IF w = None THEN None ELSE tokens
            /\ w = None => reading' = None
            /\ w # None => reading' = w
        BY <2>0, <2>1, <3>5 DEF SwitchWallet, Refetch
      <4> QED BY <2>0, <3>1, <3>2, <3>3, <4>1 DEF ListSound, ListIsOfWallet
    <3> QED BY <3>4, <3>5
  <2>2. CASE ListArrives \/ ListFails
    BY <2>0, <2>2 DEF ListArrives, ListFails, ListSound, ListIsOfWallet, history
  <2>3. CASE OpenPicker \/ RefreshList
    BY <2>0, <2>3 DEF OpenPicker, RefreshList, Refetch, ListSound, ListIsOfWallet, history
  <2>4. CASE ClosePicker
    BY <2>0, <2>4 DEF ClosePicker, ListSound, ListIsOfWallet, history, provider
  <2> QED BY <2>1, <2>2, <2>3, <2>4 DEF ListNext
<1>3. TypeOK'
  BY <1>1, <1>2 DEF WrappingInv, TypeOK, chain, hook
<1>4. OperationSound' /\ SuccessSound'
  BY <1>1 DEF WrappingInv, OperationSound, SuccessSound, Kept, Pending, Meant, Told, Held,
              Executes, Needed, chain, hook
<1> QED BY <1>2, <1>3, <1>4 DEF WrappingInv

(* Balances that arrive and what is done in the dialog. *)
LEMMA QuietSteps ==
    ASSUME WrappingInv, UNCHANGED <<chain, wallet, provider, picker, lost, history, op>>,
           shown' \in [sol : Nat, wsol : Nat],
           asking' \in [of : Wallets, step : {"sol", "wsol"}] \cup {None}, recent' \in BOOLEAN,
           dialog' \in Dialog, dialog'.success \in {None, dialog.success}
    PROVE  WrappingInv'
<1>1. TypeOK'
  BY DEF WrappingInv, TypeOK, chain, provider, history
<1>2. OperationSound'
  BY DEF WrappingInv, OperationSound, Kept, Pending, Meant, Told, Held, Executes, Needed, chain
<1>3. SuccessSound'
  BY DEF WrappingInv, SuccessSound, Meant, Told
<1>4. ListSound'
  BY DEF WrappingInv, ListSound, ListIsOfWallet, provider, history
<1> QED BY <1>1, <1>2, <1>3, <1>4 DEF WrappingInv

LEMMA BalanceSteps ==
    ASSUME WrappingInv,
           \/ SolArrives \/ SolFails \/ (\E answered \in BOOLEAN : WsolArrives(answered))
           \/ TimePasses \/ RetryBalances
    PROVE  WrappingInv'
<1>1. /\ TypeOK /\ shown \in [sol : Nat, wsol : Nat]
      /\ asking \in [of : Wallets, step : {"sol", "wsol"}] \cup {None} /\ recent \in BOOLEAN
      /\ dialog \in Dialog /\ wallet \in Wallets \cup {None}
  BY DEF WrappingInv, TypeOK
<1>2. CASE SolArrives
  <2>1. PICK w \in Wallets : w = asking.of /\ asking = [of |-> w, step |-> "sol"]
    BY <1>1, <1>2 DEF SolArrives
  <2>2. sol[w] \in Nat
    BY <1>1, HeldType
  <2>3. /\ shown' = [shown EXCEPT !.sol = sol[w]]
        /\ asking' = [asking EXCEPT !.step = "wsol"]
        /\ UNCHANGED <<chain, wallet, provider, recent, op, picker, dialog, lost, history>>
    BY <1>2, <2>1 DEF SolArrives
  <2>4. asking' = [of |-> w, step |-> "wsol"]
    BY <2>1, <2>3
  <2>5. shown' \in [sol : Nat, wsol : Nat]
    BY <1>1, <2>2, <2>3
  <2>6. asking' \in [of : Wallets, step : {"sol", "wsol"}] \cup {None}
    BY <2>4
  <2> QED BY <1>1, <2>3, <2>5, <2>6, QuietSteps
<1>3. CASE SolFails
  BY <1>1, <1>3, QuietSteps DEF SolFails, Asked
<1>4. ASSUME NEW answered \in BOOLEAN, WsolArrives(answered) PROVE WrappingInv'
  <2>1. asking.of \in Wallets
    BY <1>1, <1>4 DEF WsolArrives
  <2>2. PICK held \in Nat : held = IF answered THEN Held(asking.of) ELSE 0
    BY <1>1, <2>1, HeldType
  <2>3. shown' = [shown EXCEPT !.wsol = held]
    BY <1>4, <2>2 DEF WsolArrives
  <2>4. shown' \in [sol : Nat, wsol : Nat]
    BY <1>1, <2>3
  <2> QED BY <1>1, <1>4, <2>4, QuietSteps DEF WsolArrives, Asked
<1>5. CASE TimePasses
  BY <1>1, <1>5, QuietSteps DEF TimePasses
<1>6. CASE RetryBalances
  <2>1. asking' \in [of : Wallets, step : {"sol", "wsol"}] \cup {None}
    BY <1>1, <1>6, BalancesAskedType DEF RetryBalances
  <2> QED BY <1>1, <1>6, <2>1, QuietSteps DEF RetryBalances
<1> QED BY <1>2, <1>3, <1>4, <1>5, <1>6

LEMMA DialogSteps ==
    ASSUME WrappingInv,
           \/ OpenDialog \/ CloseDialog
           \/ \E amount \in Amounts : Type(amount)
           \/ \E mode \in {"wrap", "unwrap"} : SetMode(mode)
           \/ SetMax
    PROVE  WrappingInv'
<1>1. /\ TypeOK /\ shown \in [sol : Nat, wsol : Nat]
      /\ asking \in [of : Wallets, step : {"sol", "wsol"}] \cup {None} /\ recent \in BOOLEAN
      /\ dialog \in Dialog /\ wallet \in Wallets \cup {None}
  BY DEF WrappingInv, TypeOK
<1>2. CASE OpenDialog
  <2>1. asking' \in [of : Wallets, step : {"sol", "wsol"}] \cup {None}
    BY <1>1, <1>2, BalancesAskedType DEF OpenDialog
  <2>2. dialog' \in Dialog /\ dialog'.success = None
    BY <1>1, <1>2 DEF OpenDialog, Dialog
  <2> QED BY <1>1, <1>2, <2>1, <2>2, QuietSteps DEF OpenDialog
<1>3. CASE CloseDialog
  <2>1. dialog' \in Dialog /\ dialog'.success = dialog.success
    BY <1>1, <1>3 DEF CloseDialog, Dialog
  <2> QED BY <1>1, <1>3, <2>1, QuietSteps DEF CloseDialog, hook
<1>4. ASSUME NEW mode \in {"wrap", "unwrap"}, NEW amount \in Nat,
             SetDialog([dialog EXCEPT !.mode = mode, !.amount = amount])
      PROVE  WrappingInv'
  <2>1. PICK next : next = [dialog EXCEPT !.mode = mode, !.amount = amount]
    OBVIOUS
  <2>2. next \in Dialog /\ next.success = dialog.success
    BY <1>1, <2>1 DEF Dialog
  <2>3. dialog' = next /\ UNCHANGED <<chain, wallet, provider, hook, picker, lost, history>>
    BY <1>4, <2>1 DEF SetDialog
  <2> QED BY <1>1, <2>2, <2>3, QuietSteps DEF hook
<1>5. ASSUME NEW amount \in Nat, SetDialog([dialog EXCEPT !.amount = amount]) PROVE WrappingInv'
  <2>1. PICK next : next = [dialog EXCEPT !.amount = amount]
    OBVIOUS
  <2>2. next \in Dialog /\ next.success = dialog.success
    BY <1>1, <2>1 DEF Dialog
  <2>3. dialog' = next /\ UNCHANGED <<chain, wallet, provider, hook, picker, lost, history>>
    BY <1>5, <2>1 DEF SetDialog
  <2> QED BY <1>1, <2>2, <2>3, QuietSteps DEF hook
<1>6. ASSUME NEW amount \in Amounts, Type(amount) PROVE WrappingInv'
  BY <1>5, <1>6, WrappingAssumption DEF Type
<1>7. ASSUME NEW mode \in {"wrap", "unwrap"}, SetMode(mode) PROVE WrappingInv'
  BY <1>4, <1>7 DEF SetMode
<1>8. CASE SetMax
  <2>1. PICK most \in Nat : most = IF dialog.mode = "unwrap" THEN shown.wsol
                                   ELSE IF shown.sol > Margin THEN shown.sol - Margin ELSE 0
    BY <1>1, WrappingAssumption
  <2>2. PICK amount \in Nat : amount = FormatSol(most)
    BY RoundedType
  <2>3. SetDialog([dialog EXCEPT !.amount = amount])
    BY <1>8, <2>1, <2>2 DEF SetMax
  <2> QED BY <1>5, <2>3
<1> QED BY <1>2, <1>3, <1>6, <1>7, <1>8

(* The dialog closes by itself, and the list is read anew. *)
LEMMA TimerStep ==
    ASSUME WrappingInv, TimerFires
    PROVE  WrappingInv'
<1>1. /\ wallet \in Wallets \cup {None} /\ dialog \in Dialog /\ TypeOK
  BY DEF WrappingInv, TypeOK
<1>2. dialog' \in Dialog /\ dialog'.success = dialog.success
  BY <1>1 DEF TimerFires, Dialog
<1>3. reading' \in Wallets \cup {None} /\ failed' \in BOOLEAN
  BY <1>1, ListReadType DEF TimerFires
<1>4. TypeOK'
  BY <1>1, <1>2, <1>3 DEF TimerFires, TypeOK, chain, hook, history
<1>5. OperationSound'
  BY DEF TimerFires, WrappingInv, OperationSound, Kept, Pending, Meant, Told, Held, Executes,
         Needed, chain, hook
<1>6. SuccessSound'
  BY <1>2 DEF WrappingInv, SuccessSound, Meant, Told
<1>7. ListSound'
  BY DEF TimerFires, Refetch, WrappingInv, ListSound, ListIsOfWallet, history
<1> QED BY <1>4, <1>5, <1>6, <1>7 DEF WrappingInv
-----------------------------------------------------------------------------
(* ----------------------------- the operation ---------------------------- *)

(* It goes on, or ends, and nothing moves. *)
LEMMA OperationStep ==
    ASSUME WrappingInv, NEW next \in Operation \cup {None}, op' = next,
           next # None => Kept(next) /\ Pending(next),
           UNCHANGED <<chain, wallet, provider, shown, recent, picker, switches, crossed>>,
           asking' \in [of : Wallets, step : {"sol", "wsol"}] \cup {None},
           lost' \in Operation \cup {None}, moves' \in Nat, dialog' \in Dialog, SuccessSound'
    PROVE  WrappingInv'
<1>1. TypeOK'
  BY DEF WrappingInv, TypeOK, chain, provider
<1>2. OperationSound'
  BY DEF OperationSound, Kept, Pending, Meant, Told, Held, Executes, Needed, chain
<1>3. ListSound'
  BY DEF WrappingInv, ListSound, ListIsOfWallet, provider
<1> QED BY <1>1, <1>2, <1>3 DEF WrappingInv

LEMMA SameDialog ==
    ASSUME WrappingInv, dialog' = dialog
    PROVE  dialog' \in Dialog /\ SuccessSound'
BY DEF WrappingInv, TypeOK, SuccessSound, Meant, Told

LEMMA ProceedStep ==
    ASSUME WrappingInv, NEW next \in Operation \cup {None}, Proceed(next),
           next # None => Kept(next) /\ Pending(next)
    PROVE  WrappingInv'
<1>1. /\ UNCHANGED <<chain, wallet, provider, shown, asking, recent, picker, dialog, lost>>
      /\ UNCHANGED <<moves, switches, crossed>> /\ op' = next
  BY DEF Proceed, history
<1>2. /\ asking \in [of : Wallets, step : {"sol", "wsol"}] \cup {None}
      /\ lost \in Operation \cup {None} /\ moves \in Nat
  BY DEF WrappingInv, TypeOK
<1>3. dialog' \in Dialog /\ SuccessSound'
  BY <1>1, SameDialog
<1> QED BY <1>1, <1>2, <1>3, OperationStep

(* An amount that the balances let through leaves the margin, and one that *)
(* empties the account is all that is in it, when they were true.          *)
LEMMA SubmitStep ==
    ASSUME WrappingInv, NEW dust \in {0, 1}, Submit(dust)
    PROVE  WrappingInv'
<1>1. /\ TypeOK /\ shown \in [sol : Nat, wsol : Nat] /\ dialog \in Dialog /\ moves \in Nat
      /\ lost \in Operation \cup {None} /\ Margin \in Nat
      /\ asking \in [of : Wallets, step : {"sol", "wsol"}] \cup {None}
  BY WrappingAssumption DEF WrappingInv, TypeOK
<1>2. PICK w \in Wallets : w = wallet
  BY <1>1 DEF Submit, TypeOK
<1>3. PICK amount \in Nat, mode \in {"wrap", "unwrap"} :
        amount = dialog.amount /\ mode = dialog.mode
  BY <1>1 DEF Dialog
<1>4. PICK full \in BOOLEAN : full = (mode = "unwrap" /\ amount >= shown.wsol)
  OBVIOUS
<1>5. PICK so \in BOOLEAN : so = (shown = [sol |-> sol[w], wsol |-> Held(w)])
  OBVIOUS
<1>6. /\ amount > 0
      /\ mode = "wrap" => amount <= shown.sol - Margin
      /\ mode = "unwrap" => amount <= shown.wsol
  BY <1>1, <1>3 DEF Submit, CanSubmit
<1>7. PICK next : next = [step |-> "building", of |-> w, mode |-> mode, amount |-> amount,
                          full |-> full, create |-> FALSE, lamports |-> amount - dust,
                          true |-> so, alone |-> TRUE, moved |-> 0]
  OBVIOUS
<1>8. op' = next
  BY <1>2, <1>3, <1>4, <1>5, <1>7 DEF Submit
<1>9. amount - dust \in Nat
  BY <1>6
<1>10. next \in Operation
  BY <1>7, <1>9 DEF Operation
<1>11. Kept(next)
  <2>1. full => mode = "unwrap"
    BY <1>4, Zenon
  <2>2. next.lamports \in {next.amount - 1, next.amount}
    BY <1>7
  <2> QED BY <1>7, <2>1, <2>2 DEF Kept
<1>12. so => shown.sol = sol[w] /\ shown.wsol = Held(w)
  <2>1. so => shown = [sol |-> sol[w], wsol |-> Held(w)]
    BY <1>5, Zenon
  <2> QED BY <2>1
<1>13. sol[w] \in Nat /\ Held(w) \in Nat /\ shown.sol \in Nat /\ shown.wsol \in Nat
  BY <1>1, HeldType
<1>14. so /\ mode = "wrap" => amount + Margin <= sol[w]
  BY <1>1, <1>6, <1>12, <1>13
<1>15. so /\ full => amount = Held(w)
  <2>1. full => mode = "unwrap" /\ amount >= shown.wsol
    BY <1>4, Zenon
  <2> QED BY <1>6, <1>12, <1>13, <2>1
<1>16. Pending(next)
  BY <1>7, <1>14, <1>15 DEF Pending
<1>17. dialog' \in Dialog /\ SuccessSound'
  BY SameDialog DEF Submit
<1>18. moves' \in Nat /\ UNCHANGED <<chain, wallet, provider, shown, asking, recent, picker,
                                     lost, switches, crossed>>
  BY <1>1 DEF Submit
<1> QED BY <1>1, <1>8, <1>10, <1>11, <1>16, <1>17, <1>18, OperationStep

LEMMA BuildStep ==
    ASSUME WrappingInv, Build
    PROVE  WrappingInv'
<1>1. op \in Operation /\ op.step = "building" /\ Kept(op) /\ Pending(op)
  BY DEF Build, WrappingInv, TypeOK, OperationSound
<1>2. PICK create \in BOOLEAN : create = (op.mode = "wrap" /\ wsol[op.of] = None)
  OBVIOUS
<1>3. PICK next : next = [op EXCEPT !.step = "signing", !.create = create]
  OBVIOUS
<1>4. Proceed(next)
  BY <1>2, <1>3 DEF Build
<1>5. /\ next \in Operation /\ next.step = "signing" /\ next.create = create
      /\ next.of = op.of /\ next.mode = op.mode /\ next.amount = op.amount
      /\ next.full = op.full /\ next.lamports = op.lamports /\ next.true = op.true
      /\ next.alone = op.alone
  BY <1>1, <1>3 DEF Operation
<1>6. Kept(next) /\ Pending(next)
  BY <1>1, <1>2, <1>5 DEF Kept, Pending
<1> QED BY <1>4, <1>5, <1>6, ProceedStep

LEMMA SignStep ==
    ASSUME WrappingInv, Sign
    PROVE  WrappingInv'
<1>1. op \in Operation /\ op.step = "signing" /\ Kept(op) /\ Pending(op) /\ Executes(op)
  BY DEF Sign, WrappingInv, TypeOK, OperationSound
<1>2. PICK next : next = [op EXCEPT !.step = "sent"]
  OBVIOUS
<1>3. Proceed(next)
  BY <1>2 DEF Sign
<1>4. /\ next \in Operation /\ next.step = "sent" /\ next.create = op.create
      /\ next.of = op.of /\ next.mode = op.mode /\ next.amount = op.amount
      /\ next.full = op.full /\ next.lamports = op.lamports /\ next.true = op.true
      /\ next.alone = op.alone
  BY <1>1, <1>2 DEF Operation
<1>5. Executes(next)
  BY <1>1, <1>4 DEF Executes, Needed
<1>6. Kept(next) /\ Pending(next)
  BY <1>1, <1>4, <1>5 DEF Kept, Pending
<1> QED BY <1>3, <1>4, <1>6, ProceedStep

(* Nothing moved since it was simulated, so it executes, and moves what it *)
(* said: all of an account that was shown as it is, or its lamports.       *)
LEMMA LandsStep ==
    ASSUME WrappingInv, Lands
    PROVE  WrappingInv'
<1>1. op \in Operation /\ op.step = "sent" /\ Kept(op) /\ Pending(op) /\ TypeOK
  BY DEF Lands, WrappingInv, TypeOK, OperationSound
<1>2. /\ op.of \in Wallets /\ op.amount \in Nat /\ op.lamports \in Nat /\ op.full \in BOOLEAN
      /\ Held(op.of) \in Nat
  BY <1>1, HeldType DEF Operation
<1>3. PICK moved \in Nat : moved = IF Executes(op) THEN Moves(op) ELSE 0
  BY <1>2 DEF Moves
<1>4. PICK next : next = [op EXCEPT !.step = "confirmed", !.moved = moved]
  OBVIOUS
<1>5. op' = next
  BY <1>3, <1>4 DEF Lands
<1>6. /\ next \in Operation /\ next.step = "confirmed" /\ next.moved = moved
      /\ next.amount = op.amount /\ next.full = op.full /\ next.lamports = op.lamports
      /\ next.mode = op.mode /\ next.true = op.true /\ next.alone = op.alone
  BY <1>1, <1>4 DEF Operation
<1>7. ASSUME Meant(next) PROVE Told(next)
  <2>1. op.alone /\ (op.full => op.true)
    BY <1>6, <1>7 DEF Meant
  <2>2. moved = Moves(op)
    BY <1>1, <1>3, <2>1 DEF Pending
  <2>3. op.full => op.amount = Held(op.of)
    BY <1>1, <2>1 DEF Pending
  <2>4. op.lamports \in {op.amount - 1, op.amount}
    BY <1>1 DEF Kept
  <2> QED BY <1>6, <2>2, <2>3, <2>4 DEF Told, Moves
<1>8. Kept(next)
  BY <1>1, <1>6, <1>7 DEF Kept
<1>9. sol' \in [Wallets -> Nat] /\ wsol' \in [Wallets -> Nat \cup {None}]
  BY <1>1, LandType DEF Lands
<1>10. TypeOK'
  BY <1>1, <1>5, <1>6, <1>9 DEF Lands, TypeOK, provider, history
<1>11. OperationSound'
  BY <1>5, <1>6, <1>8 DEF OperationSound, Pending, Kept, Meant, Told
<1>12. SuccessSound'
  BY SameDialog DEF Lands
<1>13. ListSound'
  BY DEF Lands, WrappingInv, ListSound, ListIsOfWallet, provider, history
<1> QED BY <1>10, <1>11, <1>12, <1>13 DEF WrappingInv

LEMMA RefreshStep ==
    ASSUME WrappingInv, Refresh
    PROVE  WrappingInv'
<1>1. op \in Operation /\ op.step = "confirmed" /\ Kept(op) /\ TypeOK
  BY DEF Refresh, WrappingInv, TypeOK, OperationSound
<1>2. PICK next : next = [op EXCEPT !.step = "refreshing"]
  OBVIOUS
<1>3. /\ next \in Operation /\ next.step = "refreshing" /\ next.moved = op.moved
      /\ next.amount = op.amount /\ next.full = op.full /\ next.lamports = op.lamports
      /\ next.mode = op.mode /\ next.true = op.true /\ next.alone = op.alone
  BY <1>1, <1>2 DEF Operation
<1>4. Kept(next) /\ Pending(next)
  BY <1>1, <1>3 DEF Kept, Pending, Meant, Told
<1>5. op.of \in Wallets
  BY <1>1 DEF Operation
<1>6. asking' \in [of : Wallets, step : {"sol", "wsol"}] \cup {None}
  BY <1>1, <1>5, BalancesAskedType DEF Refresh
<1>7. dialog' \in Dialog /\ SuccessSound'
  BY SameDialog DEF Refresh
<1>8. lost' \in Operation \cup {None} /\ moves' \in Nat /\ op' = next
  BY <1>1, <1>2 DEF Refresh, TypeOK, history
<1>9. UNCHANGED <<chain, wallet, provider, shown, recent, picker, switches, crossed>>
  BY DEF Refresh, history
<1> QED BY <1>3, <1>4, <1>6, <1>7, <1>8, <1>9, OperationStep

LEMMA SucceedStep ==
    ASSUME WrappingInv, Succeed
    PROVE  WrappingInv'
<1>1. op \in Operation /\ op.step = "refreshing" /\ Kept(op) /\ TypeOK /\ dialog \in Dialog
  BY DEF Succeed, WrappingInv, TypeOK, OperationSound
<1>2. dialog' \in Dialog /\ dialog'.success = op
  BY <1>1 DEF Succeed, Dialog
<1>3. SuccessSound'
  BY <1>1, <1>2 DEF SuccessSound, Kept, Meant, Told
<1>4. /\ asking' \in [of : Wallets, step : {"sol", "wsol"}] \cup {None}
      /\ lost' \in Operation \cup {None} /\ moves' \in Nat /\ op' = None
  BY <1>1 DEF Succeed, TypeOK, history
<1>5. UNCHANGED <<chain, wallet, provider, shown, recent, picker, switches, crossed>>
  BY DEF Succeed, history
<1> QED BY <1>2, <1>3, <1>4, <1>5, OperationStep

LEMMA LossSteps ==
    ASSUME WrappingInv, Refused \/ LoseSight
    PROVE  WrappingInv'
<1>1. TypeOK /\ op \in Operation \cup {None}
  BY DEF WrappingInv, TypeOK
<1>2. CASE Refused
  BY <1>2, ProceedStep DEF Refused
<1>3. CASE LoseSight
  <2>1. dialog' \in Dialog /\ SuccessSound'
    BY <1>3, SameDialog DEF LoseSight
  <2>2. /\ asking' \in [of : Wallets, step : {"sol", "wsol"}] \cup {None}
        /\ lost' \in Operation \cup {None} /\ moves' \in Nat /\ op' = None
    BY <1>1, <1>3 DEF LoseSight, TypeOK, history
  <2>3. UNCHANGED <<chain, wallet, provider, shown, recent, picker, switches, crossed>>
    BY <1>3 DEF LoseSight, history
  <2> QED BY <2>1, <2>2, <2>3, OperationStep
<1> QED BY <1>2, <1>3

(* A transaction that was lost lands, or the wallet's money moves.         *)
LEMMA OtherSteps ==
    ASSUME WrappingInv, NEW w \in Wallets, op' = Disturbed(w),
           \A v \in Wallets : v # w => sol'[v] = sol[v] /\ wsol'[v] = wsol[v],
           sol' \in [Wallets -> Nat], wsol' \in [Wallets -> Nat \cup {None}],
           UNCHANGED <<wallet, provider, shown, asking, recent, picker, dialog, switches, crossed>>,
           lost' \in Operation \cup {None}, moves' \in Nat
    PROVE  WrappingInv'
<1>1. op' \in Operation \cup {None} /\ OperationSound'
  BY DisturbedSound DEF WrappingInv
<1>2. TypeOK'
  BY <1>1 DEF WrappingInv, TypeOK, provider
<1>3. SuccessSound'
  BY SameDialog
<1>4. ListSound'
  BY DEF WrappingInv, ListSound, ListIsOfWallet, provider
<1> QED BY <1>1, <1>2, <1>3, <1>4 DEF WrappingInv

LEMMA LostStep ==
    ASSUME WrappingInv, LostEnds
    PROVE  WrappingInv'
<1>1. TypeOK /\ lost \in Operation /\ moves \in Nat
  BY DEF WrappingInv, TypeOK, LostEnds
<1>2. PICK w \in Wallets : w = lost.of
  BY <1>1 DEF Operation
<1>3. UNCHANGED <<wallet, provider, shown, asking, recent, picker, dialog, history>> /\ lost' = None
  BY DEF LostEnds
<1>4. CASE Land(lost) /\ op' = Disturbed(lost.of)
  <2>1. /\ sol' \in [Wallets -> Nat] /\ wsol' \in [Wallets -> Nat \cup {None}]
        /\ \A v \in Wallets : v # w => sol'[v] = sol[v] /\ wsol'[v] = wsol[v]
    BY <1>1, <1>2, <1>4, LandType
  <2> QED BY <1>1, <1>2, <1>3, <1>4, <2>1, OtherSteps DEF history
<1>5. CASE UNCHANGED <<chain, op>>
  <2>1. op \in Operation \cup {None} /\ (op # None => Kept(op) /\ Pending(op))
    BY DEF WrappingInv, TypeOK, OperationSound
  <2>2. dialog' \in Dialog /\ SuccessSound'
    BY <1>3, SameDialog
  <2>3. asking' \in [of : Wallets, step : {"sol", "wsol"}] \cup {None}
    BY <1>1, <1>3 DEF TypeOK
  <2> QED BY <1>1, <1>3, <1>5, <2>1, <2>2, <2>3, OperationStep DEF history
<1> QED BY <1>4, <1>5 DEF LostEnds

LEMMA ElsewhereStep ==
    ASSUME WrappingInv, NEW w \in Wallets, NEW amount \in {0, Minimum, MostSol},
           NEW held \in {None, 0, MostWsol}, MoveElsewhere(w, amount, held)
    PROVE  WrappingInv'
<1>1. TypeOK /\ amount \in Nat /\ held \in Nat \cup {None}
  BY WrappingAssumption DEF WrappingInv
<1>2. /\ sol' \in [Wallets -> Nat] /\ wsol' \in [Wallets -> Nat \cup {None}]
      /\ \A v \in Wallets : v # w => sol'[v] = sol[v] /\ wsol'[v] = wsol[v]
  BY <1>1 DEF TypeOK, MoveElsewhere
<1>3. lost' \in Operation \cup {None} /\ moves' \in Nat
  BY <1>1 DEF TypeOK, MoveElsewhere
<1> QED BY <1>2, <1>3, OtherSteps DEF MoveElsewhere
-----------------------------------------------------------------------------
LEMMA NextInv == WrappingInv /\ [Next]_vars => WrappingInv'
<1> SUFFICES ASSUME WrappingInv, [Next]_vars PROVE WrappingInv'
  OBVIOUS
<1>1. CASE ListNext
  BY <1>1, ListSteps
<1>2. CASE DialogNext
  BY <1>2, BalanceSteps, DialogSteps, SubmitStep, BuildStep, SignStep, LossSteps, LandsStep,
     LostStep, RefreshStep, SucceedStep, TimerStep DEF DialogNext
<1>3. ASSUME NEW w \in Wallets, NEW amount \in {0, Minimum, MostSol},
             NEW held \in {None, 0, MostWsol}, MoveElsewhere(w, amount, held)
      PROVE  WrappingInv'
  BY <1>3, ElsewhereStep
<1>4. CASE UNCHANGED vars
  BY <1>4, QuietSteps DEF WrappingInv, TypeOK, vars, hook
<1> QED BY <1>1, <1>2, <1>3, <1>4 DEF Next

LEMMA Invariant == Spec => []WrappingInv
BY InitInv, NextInv, PTL DEF Spec

(* The balances, the list, the dialog and every operation stay what the    *)
(* code takes them for; no balance becomes negative, whatever lands late.  *)
THEOREM WrappingTypes == Spec => []TypeOK
<1>1. WrappingInv => TypeOK
  BY DEF WrappingInv
<1> QED BY <1>1, Invariant, PTL

(* A wrap that true balances let through is not refused, a success moved   *)
(* what it says, and the list is the wallet's: for any rent, fee and least *)
(* balance that the margin covers, and any number of operations, lost      *)
(* transactions and changes of the wallet (useWrapSol, WrapSolModal,       *)
(* WalletTokensProvider).                                                  *)
THEOREM DialogAlwaysKeepsItsWord == Spec => []DialogKeepsItsWord
<1>1. WrappingInv => LetThroughExecutes
  <2> SUFFICES ASSUME WrappingInv, op # None, op.mode = "wrap", op.true, op.alone,
                      op.step \in {"signing", "sent"}
               PROVE  Executes(op)
    BY DEF LetThroughExecutes
  <2>1. op \in Operation /\ Kept(op) /\ Pending(op) /\ TypeOK
    BY DEF WrappingInv, TypeOK, OperationSound
  <2>2. /\ op.amount \in Nat /\ op.lamports \in Nat /\ sol[op.of] \in Nat
        /\ Fee \in Nat /\ Rent \in Nat /\ Minimum \in Nat /\ Margin \in Nat
        /\ Rent + Fee + Minimum <= Margin
    BY <2>1, HeldType, WrappingAssumption DEF Operation
  <2>3. /\ op.amount + Margin <= sol[op.of] /\ op.lamports <= op.amount
        /\ (op.create <=> wsol[op.of] = None)
    BY <2>1, <2>2 DEF Kept, Pending
  <2>4. Needed(op) \in Nat /\ Needed(op) <= Fee + op.lamports + Rent
    BY <2>2 DEF Needed
  <2>5. sol[op.of] - Needed(op) \in 0 .. sol[op.of] /\ sol[op.of] - Needed(op) >= Minimum
    BY <2>2, <2>3, <2>4
  <2> QED BY <2>2, <2>3, <2>4, <2>5 DEF Executes
<1>2. WrappingInv => SuccessIsSo
  BY DEF WrappingInv, SuccessSound, SuccessIsSo, Meant, Told
<1>3. WrappingInv => (~crossed => ListIsOfWallet)
  BY DEF WrappingInv, ListSound
<1>4. WrappingInv => DialogKeepsItsWord
  BY <1>1, <1>2, <1>3 DEF DialogKeepsItsWord
<1> QED BY <1>4, Invariant, PTL
=============================================================================
