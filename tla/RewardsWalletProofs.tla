------------------------ MODULE RewardsWalletProofs ------------------------
(***************************************************************************)
(* RewardsInv is an invariant for any customers, withdrawals, receipts and *)
(* amounts, and the books of RewardsLedger balance.                        *)
(***************************************************************************)
EXTENDS RewardsLedger, MainWalletProofs

(* The part of the invariant that is about receipts. *)
ReceiptInv ==
    /\ rows \subseteq Receipts
    /\ activated \subseteq rows
    /\ verified \subseteq rows
    /\ sheet \subseteq rows
    /\ intake \subseteq Receipts
    /\ identity \in [TrxIds -> rows \cup {NoRow}]
    /\ recharges \subseteq Operation
    /\ CreditedOnce
    /\ \A x \in TrxIds : identity[x] # NoRow => TrxId[identity[x]] = x

(* The part that is about withdrawals and open forms. *)
WithdrawalInv ==
    /\ request \in [Withdrawals -> RequestStatuses]
    /\ withdrawn \in [Customers -> Nat]
    /\ note \in [Withdrawals -> RequestStatuses \cup {"closed"}]
    /\ profile \in [Customers -> Nat \cup {Closed}]
    /\ overwritten \subseteq Customers
    /\ reopened \subseteq Withdrawals

LEMMA Parts ==
  RewardsInv <=> WalletSound(Kept) /\ WithdrawalInv /\ ReceiptInv
  BY DEF RewardsInv, RewardsTypeOK, WalletSound, WithdrawalInv, ReceiptInv

LEMMA PartsNext ==
  WalletSound(Kept)' /\ WithdrawalInv' /\ ReceiptInv' => RewardsInv'
  BY DEF RewardsInv, RewardsTypeOK, WalletSound, WithdrawalInv, ReceiptInv

LEMMA ReceiptsStay ==
  ReceiptInv /\ UNCHANGED receiptVars => ReceiptInv'
  BY DEF ReceiptInv, receiptVars, CreditedOnce

LEMMA WithdrawalsStay ==
  WithdrawalInv /\ UNCHANGED <<withdrawalVars, profileVars>> => WithdrawalInv'
  BY DEF WithdrawalInv, withdrawalVars, profileVars

(* An account that no form has put back stays such an account.              *)
LEMMA SoundStays ==
  ASSUME WalletSound(Kept), UNCHANGED walletVars, Kept' \subseteq Kept
  PROVE  WalletSound(Kept)'
  BY DEF WalletSound, WalletTypeOK, BackedIn, walletVars

---------------------------------------------------------------------------
(* Reserving an amount the coins and the share both cover.                  *)
LEMMA RequestKeeps ==
  ASSUME RewardsInv, NEW w \in Withdrawals, RequestWithdrawal(w)
  PROVE  RewardsInv'
<1> DEFINE c == Requester[w]
<1>1. WalletSound(Kept) /\ WithdrawalInv /\ ReceiptInv
  BY Parts
<1>2. c \in Customers /\ Requested[w] \in Nat
  BY WithdrawalAssumption
<1>3. /\ Requested[w] <= available[c] /\ Requested[w] <= balance[c]
      /\ balance' = [balance EXCEPT ![c] = @ - Requested[w]]
      /\ available' = [available EXCEPT ![c] = @ - Requested[w]]
      /\ request' = [request EXCEPT ![w] = "pending"]
      /\ UNCHANGED <<shopVars, withdrawn, note, reopened, receiptVars,
                     profileVars>>
  BY DEF RequestWithdrawal, Affords
<1> HIDE DEF c
<1>4. WalletTypeOK /\ BackedIn(Kept) /\ Kept' = Kept
  BY <1>1, <1>3 DEF WalletSound, Kept, profileVars
<1>5. balance' \in [Customers -> Nat] /\ available' \in [Customers -> Nat]
  BY <1>2, <1>3, <1>4 DEF WalletTypeOK
<1>6. BackedIn(Kept)'
  BY <1>2, <1>3, <1>4, <1>5 DEF WalletTypeOK, BackedIn, Kept
<1>7. WalletSound(Kept)'
  BY <1>1, <1>3, <1>5, <1>6 DEF WalletSound, WalletTypeOK, shopVars
<1>8. WithdrawalInv'
  BY <1>1, <1>3 DEF WithdrawalInv, RequestStatuses, profileVars
<1> QED BY <1>1, <1>3, <1>7, <1>8, ReceiptsStay, PartsNext

(* Giving back the same amount in both.                                     *)
LEMMA GiveBackKeeps ==
  ASSUME WalletSound(Kept), NEW w \in Withdrawals, GiveBack(w),
         UNCHANGED <<shopVars, overwritten>>
  PROVE  WalletSound(Kept)'
<1> DEFINE c == Requester[w]
<1>1. c \in Customers /\ Requested[w] \in Nat
  BY WithdrawalAssumption
<1>2. /\ balance' = [balance EXCEPT ![c] = @ + Requested[w]]
      /\ available' = [available EXCEPT ![c] = @ + Requested[w]]
  BY DEF GiveBack
<1> HIDE DEF c
<1>3. WalletTypeOK /\ BackedIn(Kept) /\ Kept' = Kept
  BY DEF WalletSound, Kept
<1>4. balance' \in [Customers -> Nat] /\ available' \in [Customers -> Nat]
  BY <1>1, <1>2, <1>3 DEF WalletTypeOK
<1>5. BackedIn(Kept)'
  BY <1>1, <1>2, <1>3, <1>4 DEF WalletTypeOK, BackedIn, Kept
<1> QED BY <1>4, <1>5 DEF WalletSound, WalletTypeOK, shopVars

(* The customer cancels, or staff reject.                                   *)
LEMMA CloseKeeps ==
  ASSUME RewardsInv, NEW w \in Withdrawals,
         CancelWithdrawal(w) \/ RejectWithdrawal(w)
  PROVE  RewardsInv'
<1>1. WalletSound(Kept) /\ WithdrawalInv /\ ReceiptInv
  BY Parts
<1>2. /\ GiveBack(w)
      /\ \E s \in {"cancelled", "rejected"} :
            request' = [request EXCEPT ![w] = s]
      /\ UNCHANGED <<shopVars, withdrawn, note, reopened, receiptVars,
                     profileVars>>
  BY DEF CancelWithdrawal, RejectWithdrawal
<1>3. WalletSound(Kept)'
  BY <1>1, <1>2, GiveBackKeeps DEF profileVars
<1>4. WithdrawalInv'
  BY <1>1, <1>2 DEF WithdrawalInv, RequestStatuses, profileVars
<1> QED BY <1>1, <1>2, <1>3, <1>4, ReceiptsStay, PartsNext

(* The payment of a withdrawal, and the note form: no coins move.           *)
LEMMA StaffKeeps ==
  ASSUME RewardsInv, NEW w \in Withdrawals,
         \/ ProcessWithdrawal(w) \/ ApproveWithdrawal(w)
         \/ OpenNote(w) \/ SaveNote(w)
  PROVE  RewardsInv'
<1>1. WalletSound(Kept) /\ WithdrawalInv /\ ReceiptInv
  BY Parts
<1>2. UNCHANGED <<walletVars, receiptVars, profileVars>>
  BY DEF ProcessWithdrawal, ApproveWithdrawal, OpenNote, SaveNote
<1>3. WalletSound(Kept)'
  BY <1>1, <1>2, SoundStays DEF Kept, profileVars
<1>4. Requester[w] \in Customers /\ Requested[w] \in Nat
  BY WithdrawalAssumption
<1>5. WithdrawalInv'
  BY <1>1, <1>2, <1>4
     DEF WithdrawalInv, ProcessWithdrawal, ApproveWithdrawal, OpenNote,
         SaveNote, RequestStatuses, profileVars
<1> QED BY <1>1, <1>2, <1>3, <1>5, ReceiptsStay, PartsNext

(* An account form: either the balance is the one it read, or the account   *)
(* leaves the set of kept ones.                                             *)
LEMMA ProfileKeeps ==
  ASSUME RewardsInv, NEW c \in Customers, OpenProfile(c) \/ SaveProfile(c)
  PROVE  RewardsInv'
<1>1. WalletSound(Kept) /\ WithdrawalInv /\ ReceiptInv
  BY Parts
<1>2. UNCHANGED <<withdrawalVars, receiptVars>>
  BY DEF OpenProfile, SaveProfile
<1>3. CASE OpenProfile(c)
  <2>1. UNCHANGED walletVars /\ UNCHANGED overwritten
        /\ profile' = [profile EXCEPT ![c] = balance[c]]
    BY <1>3 DEF OpenProfile
  <2>2. WalletSound(Kept)'
    BY <1>1, <2>1, SoundStays DEF Kept
  <2>3. balance[c] \in Nat
    BY <1>1 DEF WalletSound, WalletTypeOK
  <2>4. WithdrawalInv'
    BY <1>1, <1>2, <2>1, <2>3 DEF WithdrawalInv, withdrawalVars
  <2> QED BY <1>1, <1>2, <2>2, <2>4, ReceiptsStay, PartsNext
<1>4. CASE SaveProfile(c)
  <2>1. /\ profile[c] # Closed
        /\ balance' = [balance EXCEPT ![c] = profile[c]]
        /\ profile' = [profile EXCEPT ![c] = Closed]
        /\ overwritten' = IF profile[c] = balance[c]
                          THEN overwritten ELSE overwritten \cup {c}
        /\ UNCHANGED <<available, shopVars>>
    BY <1>4 DEF SaveProfile
  <2>2. profile[c] \in Nat
    BY <1>1, <2>1 DEF WithdrawalInv
  <2>3. balance' \in [Customers -> Nat]
    BY <1>1, <2>1, <2>2 DEF WalletSound, WalletTypeOK
  <2>4. \A d \in Kept' : d \in Kept /\ balance'[d] = balance[d]
    BY <1>1, <2>1 DEF WalletSound, WalletTypeOK, Kept
  <2>5. BackedIn(Kept)'
    BY <1>1, <2>1, <2>4 DEF WalletSound, BackedIn
  <2>6. WalletSound(Kept)'
    BY <1>1, <2>1, <2>3, <2>5 DEF WalletSound, WalletTypeOK, shopVars
  <2>7. WithdrawalInv'
    BY <1>1, <1>2, <2>1 DEF WithdrawalInv, withdrawalVars
  <2> QED BY <1>1, <1>2, <2>6, <2>7, ReceiptsStay, PartsNext
<1> QED BY <1>3, <1>4

---------------------------------------------------------------------------
(* Rows come and go; the row of an identity stays.                          *)
LEMMA RowsKeep ==
  ASSUME RewardsInv, NEW t \in Receipts,
         \/ CheckIntake(t) \/ InsertIntake(t) \/ EnterReceipt(t)
         \/ OpenReceipt(t) \/ SaveReceipt(t) \/ DeleteReceipt(t)
  PROVE  RewardsInv'
<1>1. WalletSound(Kept) /\ WithdrawalInv /\ ReceiptInv
  BY Parts
<1>2. UNCHANGED <<walletVars, withdrawalVars, profileVars, recharges>>
  BY DEF CheckIntake, InsertIntake, EnterReceipt, OpenReceipt, SaveReceipt,
         DeleteReceipt
<1>3. WalletSound(Kept)' /\ WithdrawalInv'
  BY <1>1, <1>2, SoundStays, WithdrawalsStay DEF Kept, profileVars
<1>4. TrxId[t] \in TrxIds /\ t # NoRow
  BY ReceiptAssumption DEF NoRow
<1>5. CASE CheckIntake(t) \/ EnterReceipt(t) \/ OpenReceipt(t)
           \/ SaveReceipt(t)
  <2>1. /\ UNCHANGED identity
        /\ rows \subseteq rows' /\ rows' \subseteq Receipts
        /\ activated' \subseteq rows' /\ verified' \subseteq rows'
        /\ sheet' \subseteq rows' /\ intake' \subseteq Receipts
    BY <1>1, <1>5 DEF ReceiptInv, CheckIntake, EnterReceipt, OpenReceipt,
                      SaveReceipt
  <2>2. ReceiptInv'
    BY <1>1, <1>2, <2>1 DEF ReceiptInv, CreditedOnce, Operation
  <2> QED BY <1>3, <2>2, PartsNext
<1>6. CASE InsertIntake(t)
  <2>1. CASE identity[TrxId[t]] = NoRow
    <3>1. /\ rows' = rows \cup {t} /\ verified' = verified \cup {t}
          /\ identity' = [identity EXCEPT ![TrxId[t]] = t]
          /\ intake' = intake \ {t}
          /\ UNCHANGED <<activated, sheet>>
      BY <1>6, <2>1 DEF InsertIntake
    <3>2. \A r \in recharges : identity[r.trx] # NoRow
      BY <1>1, ReceiptAssumption DEF ReceiptInv, CreditedOnce, NoRow
    <3>3. \A r \in recharges : r.trx \in TrxIds /\ r.trx # TrxId[t]
      BY <1>1, <2>1, <3>2 DEF ReceiptInv, Operation
    <3>4. identity' \in [TrxIds -> rows' \cup {NoRow}]
      BY <1>1, <1>4, <3>1 DEF ReceiptInv
    <3>5. \A r \in recharges : identity'[r.trx] = identity[r.trx]
      BY <1>1, <3>1, <3>3 DEF ReceiptInv
    <3>6. CreditedOnce'
      BY <1>1, <1>2, <3>1, <3>5 DEF ReceiptInv, CreditedOnce
    <3>7. \A x \in TrxIds : identity'[x] # NoRow => TrxId[identity'[x]] = x
      BY <1>1, <1>4, <3>1 DEF ReceiptInv
    <3>8. ReceiptInv'
      BY <1>1, <1>2, <3>1, <3>4, <3>6, <3>7 DEF ReceiptInv
    <3> QED BY <1>3, <3>8, PartsNext
  <2>2. CASE identity[TrxId[t]] # NoRow
    <3>1. /\ intake' = intake \ {t}
          /\ UNCHANGED <<rows, verified, identity, activated, sheet>>
      BY <1>6, <2>2 DEF InsertIntake
    <3>2. ReceiptInv'
      BY <1>1, <1>2, <3>1 DEF ReceiptInv, CreditedOnce
    <3> QED BY <1>3, <3>2, PartsNext
  <2> QED BY <2>1, <2>2
<1>7. CASE DeleteReceipt(t)
  <2>1. /\ rows' = rows \ {t} /\ activated' = activated \ {t}
        /\ verified' = verified \ {t} /\ sheet' = sheet \ {t}
        /\ identity[TrxId[t]] # t
        /\ UNCHANGED <<intake, identity>>
    BY <1>7 DEF DeleteReceipt
  <2>2. \A x \in TrxIds : identity[x] # t
    BY <1>1, <1>4, <2>1 DEF ReceiptInv
  <2>3. identity' \in [TrxIds -> rows' \cup {NoRow}]
    BY <1>1, <2>1, <2>2 DEF ReceiptInv
  <2>4. \A r \in recharges : r.trx \in TrxIds
    BY <1>1 DEF ReceiptInv, Operation
  <2>5. CreditedOnce'
    BY <1>1, <1>2, <2>1, <2>2, <2>4 DEF ReceiptInv, CreditedOnce
  <2>6. ReceiptInv'
    BY <1>1, <1>2, <2>1, <2>3, <2>5 DEF ReceiptInv
  <2> QED BY <1>3, <2>6, PartsNext
<1> QED BY <1>5, <1>6, <1>7

(* A recharge comes from the canonical row of an id without a recharge.     *)
LEMMA RechargeKeeps ==
  ASSUME RewardsInv, NEW t \in Receipts, NEW c \in Customers, Recharge(t, c)
  PROVE  RewardsInv'
<1> DEFINE x == TrxId[t]
           new == [trx |-> x, to |-> c, coins |-> Received[t]]
<1>1. WalletSound(Kept) /\ WithdrawalInv /\ ReceiptInv
  BY Parts
<1>2. /\ x \in TrxIds /\ t # NoRow /\ Received[t] \in Nat
      /\ new \in Operation
      /\ new.trx = x /\ new.to = c /\ new.coins = Received[t]
  BY ReceiptAssumption DEF NoRow, Operation
<1>3. /\ t \in rows
      /\ identity[x] \in {NoRow, t}
      /\ \A r \in recharges : r.trx # x
      /\ identity' = [identity EXCEPT ![x] = IF @ = NoRow THEN t ELSE @]
      /\ activated' = activated \cup {t}
      /\ balance' = [balance EXCEPT ![c] = @ + Received[t]]
      /\ recharges' = recharges \cup {new}
      /\ UNCHANGED <<available, shopVars, withdrawalVars, profileVars, rows,
                     verified, sheet, intake>>
  BY DEF Recharge, Canonical, Fresh
<1> HIDE DEF x, new
<1>4. Kept' = Kept
  BY <1>3 DEF Kept, profileVars
<1>5. balance' \in [Customers -> Nat]
  BY <1>1, <1>2, <1>3 DEF WalletSound, WalletTypeOK
<1>6. BackedIn(Kept)'
  BY <1>1, <1>2, <1>3, <1>4 DEF WalletSound, WalletTypeOK, BackedIn, Kept
<1>7. WalletSound(Kept)'
  BY <1>1, <1>3, <1>5, <1>6 DEF WalletSound, WalletTypeOK, shopVars
<1>8. WithdrawalInv'
  BY <1>1, <1>3, WithdrawalsStay
<1>9. /\ identity' \in [TrxIds -> rows \cup {NoRow}]
      /\ identity'[x] = t
      /\ \A y \in TrxIds \ {x} : identity'[y] = identity[y]
  BY <1>1, <1>2, <1>3 DEF ReceiptInv
<1>10. \A y \in TrxIds : identity'[y] # NoRow => TrxId[identity'[y]] = y
  BY <1>1, <1>9 DEF ReceiptInv, x
<1>11. ASSUME NEW r \in recharges'
       PROVE  /\ \A s \in recharges' : r.trx = s.trx => r = s
              /\ identity'[r.trx] \in rows
              /\ TrxId[identity'[r.trx]] = r.trx
              /\ r.coins = Received[identity'[r.trx]]
  <2>1. CASE r = new
    BY <1>2, <1>3, <1>9, <2>1 DEF x
  <2>2. CASE r \in recharges
    <3>1. r.trx \in TrxIds \ {x}
      BY <1>1, <1>3, <2>2 DEF ReceiptInv, Operation
    <3>2. identity'[r.trx] = identity[r.trx]
      BY <1>9, <3>1
    <3> QED BY <1>1, <1>2, <1>3, <2>2, <3>1, <3>2 DEF ReceiptInv, CreditedOnce
  <2> QED BY <1>3, <2>1, <2>2
<1>12. CreditedOnce'
  BY <1>3, <1>11 DEF CreditedOnce
<1>13. ReceiptInv'
  BY <1>1, <1>2, <1>3, <1>9, <1>10, <1>12 DEF ReceiptInv
<1> QED BY <1>7, <1>8, <1>13, PartsNext

(* The shop and the paid services, by the wallet's own lemmas.              *)
LEMMA ShopKeeps ==
  ASSUME RewardsInv, ShopStep
  PROVE  RewardsInv'
<1>1. WalletSound(Kept) /\ WithdrawalInv /\ ReceiptInv
  BY Parts
<1>2. /\ WalletStep
      /\ UNCHANGED <<withdrawalVars, receiptVars, profileVars>>
  BY DEF ShopStep
<1>3. PICK S \in SUBSET Customers : S = Kept
  BY DEF Kept
<1>4. WalletSound(S)'
  BY <1>1, <1>2, <1>3, WalletStepKeeps
<1>5. Kept' = S
  BY <1>2, <1>3 DEF Kept, profileVars
<1>6. WalletSound(Kept)'
  BY <1>4, <1>5 DEF WalletSound, BackedIn
<1> QED BY <1>1, <1>2, <1>6, WithdrawalsStay, ReceiptsStay, PartsNext

---------------------------------------------------------------------------
LEMMA RewardsStart == RewardsInit => RewardsInv
<1> SUFFICES ASSUME RewardsInit PROVE RewardsInv
  OBVIOUS
<1>1. WalletSound(Customers)
  BY WalletStarts DEF WalletInv, RewardsInit
<1>2. WalletSound(Kept)
  BY <1>1 DEF WalletSound, BackedIn, Kept
<1>3. WithdrawalInv
  BY DEF RewardsInit, WithdrawalInv, RequestStatuses
<1>4. ReceiptInv
  BY DEF RewardsInit, ReceiptInv, CreditedOnce
<1> QED BY <1>2, <1>3, <1>4, Parts

LEMMA RewardsNextKeeps ==
  RewardsInv /\ [RewardsNext]_rewardsVars => RewardsInv'
<1> SUFFICES ASSUME RewardsInv, [RewardsNext]_rewardsVars PROVE RewardsInv'
  OBVIOUS
<1>1. CASE ShopStep
  BY <1>1, ShopKeeps
<1>2. CASE \E w \in Withdrawals : Withdrawing(w)
  BY <1>2, RequestKeeps, CloseKeeps, StaffKeeps DEF Withdrawing
<1>3. CASE \E c \in Customers : OpenProfile(c) \/ SaveProfile(c)
  BY <1>3, ProfileKeeps
<1>4. CASE \E t \in Receipts : Receiving(t)
  BY <1>4, RowsKeep, RechargeKeeps DEF Receiving
<1>5. CASE UNCHANGED rewardsVars
  <2>1. WalletSound(Kept) /\ WithdrawalInv /\ ReceiptInv
    BY Parts
  <2> QED BY <1>5, <2>1, SoundStays, WithdrawalsStay, ReceiptsStay, PartsNext
          DEF rewardsVars, Kept, profileVars
<1> QED BY <1>1, <1>2, <1>3, <1>4, <1>5 DEF RewardsNext

(* Type correctness, the backing of the share and the uniqueness of every   *)
(* recharge hold of all withdrawals, recharges and open forms together.     *)
THEOREM RewardsInvariance == RewardsSpec => []RewardsInv
<1> QED BY RewardsStart, RewardsNextKeeps, PTL DEF RewardsSpec

(* The withdrawable share stays within the coins, unless an account form    *)
(* has put the balance back.                                                *)
THEOREM BackedUnlessPutBack == RewardsSpec => []BackedWhereKept
<1>1. RewardsInv => BackedWhereKept
  BY DEF RewardsInv, WalletSound, BackedWhereKept
<1> QED BY <1>1, RewardsInvariance, PTL

(* No payment is ever credited twice, whatever rows and forms there are.    *)
THEOREM NeverCreditedTwice == RewardsSpec => []CreditedOnce
<1>1. RewardsInv => CreditedOnce
  BY DEF RewardsInv
<1> QED BY <1>1, RewardsInvariance, PTL

(* Every variable keeps its type: no balance, share or reserved amount goes *)
(* below zero, also after a form has put a balance back.                    *)
THEOREM RewardsTyping == RewardsSpec => []RewardsTypeOK
<1>1. RewardsInv => RewardsTypeOK
  BY DEF RewardsInv
<1> QED BY <1>1, RewardsInvariance, PTL

---------------------------------------------------------------------------
(* The books of one customer: what RewardsBooked and EarningsOnce say.      *)
Due(c) == Booked(c) + Recharged(c) - Outstanding(c)
Paid(c) == Total(Requested, WithdrawalsIn(c, {"approved"}))

AccountRight(c) ==
    /\ Orderly(c) /\ c \in Kept
          => balance[c] = Due(c)
    /\ Orderly(c) => withdrawn[c] = Paid(c) /\ EarningsHeld(c)

(* The amounts of withdrawals add up like those of orders. *)
LEMMA RequestedTotal ==
  ASSUME NEW S \in SUBSET Withdrawals, NEW w \in Withdrawals
  PROVE  /\ Total(Requested, S) \in Nat /\ Requested[w] \in Nat
         /\ w \notin S => Total(Requested, S \cup {w})
                             = Total(Requested, S) + Requested[w]
         /\ w \in S => Total(Requested, S \ {w})
                             = Total(Requested, S) - Requested[w]
<1>1. /\ IsFiniteSet(S) /\ IsFiniteSet(S \ {w})
      /\ \A v \in Withdrawals : Requested[v] \in Nat
  BY WithdrawalsAssumption, FS_Subset, WithdrawalAssumption
<1>2. Total(Requested, S) \in Nat
  BY <1>1, SumNat DEF Total
<1>3. ASSUME w \notin S
      PROVE  Total(Requested, S \cup {w}) = Total(Requested, S) + Requested[w]
  <2>1. \A v \in S \cup {w} : Requested[v] \in Int
    BY <1>1
  <2> QED BY <1>1, <1>3, <2>1, SumWith DEF Total
<1>4. ASSUME w \in S
      PROVE  Total(Requested, S \ {w}) = Total(Requested, S) - Requested[w]
  <2>1. \A v \in S : Requested[v] \in Int
    BY <1>1
  <2>2. Total(Requested, S) = Requested[w] + Total(Requested, S \ {w})
    BY <1>1, <1>4, <2>1, SumWithout DEF Total
  <2>3. Total(Requested, S \ {w}) \in Nat /\ Requested[w] \in Nat
    BY <1>1, SumNat DEF Total
  <2> QED BY <2>2, <2>3
<1> QED BY <1>1, <1>2, <1>3, <1>4

LEMMA AccountNumbers ==
  ASSUME RewardsInv, IsFiniteSet(recharges), NEW c \in Customers
  PROVE  /\ balance[c] \in Nat /\ available[c] \in Nat /\ earned[c] \in Nat
         /\ withdrawn[c] \in Nat /\ InitAvailable[c] \in Nat
         /\ Booked(c) \in Int /\ Recharged(c) \in Nat
         /\ Outstanding(c) \in Nat /\ Paid(c) \in Nat
         /\ SharedOut(c) \in Nat /\ Due(c) \in Int
<1>1. WalletTypeOK /\ WithdrawalInv /\ ReceiptInv
  BY Parts DEF WalletSound
<1>2. /\ balance[c] \in Nat /\ available[c] \in Nat /\ earned[c] \in Nat
      /\ Booked(c) \in Int /\ SharedOut(c) \in Nat
  BY <1>1, BooksAreNumbers
<1>3. withdrawn[c] \in Nat /\ InitAvailable[c] \in Nat
  BY <1>1, AmountAssumption DEF WithdrawalInv
<1>4. Outstanding(c) \in Nat /\ Paid(c) \in Nat
  <2>1. \A S \in SUBSET Withdrawals : Total(Requested, S) \in Nat
    <3> SUFFICES ASSUME NEW S \in SUBSET Withdrawals
                 PROVE  Total(Requested, S) \in Nat
      OBVIOUS
    <3>1. IsFiniteSet(S) /\ \A v \in S : Requested[v] \in Nat
      BY WithdrawalsAssumption, FS_Subset, WithdrawalAssumption
    <3> QED BY <3>1, SumNat DEF Total
  <2> QED BY <2>1 DEF Outstanding, Paid, WithdrawalsIn
<1>5. Recharged(c) \in Nat
  <2> DEFINE coinsOf == [r \in recharges |-> r.coins]
             mine == {r \in recharges : r.to = c}
  <2>1. IsFiniteSet(mine)
    BY FS_Subset
  <2>2. \A r \in mine : coinsOf[r] \in Nat
    BY <1>1 DEF ReceiptInv, Operation
  <2> HIDE DEF mine, coinsOf
  <2>3. Total(coinsOf, mine) \in Nat
    BY <2>1, <2>2, SumNat DEF Total
  <2> QED BY <2>3 DEF Recharged, mine, coinsOf
<1>6. Due(c) \in Int
  BY <1>2, <1>4, <1>5 DEF Due
<1> QED BY <1>2, <1>3, <1>4, <1>5, <1>6

(* What the shop has booked stays while its columns do. *)
LEMMA ShopBooksStay ==
  ASSUME UNCHANGED shopVars, NEW c
  PROVE  /\ Booked(c)' = Booked(c) /\ SharedOut(c)' = SharedOut(c)
         /\ earned'[c] = earned[c]
  BY DEF shopVars, Booked, SharedOut, ChargedTo, OrdersOf, RewardsOf

(* Coins that move with the books, a share that moves against what is       *)
(* outstanding, and a payment that is counted.                              *)
LEMMA AccountMoves ==
  ASSUME RewardsInv, IsFiniteSet(recharges), NEW c \in Customers,
         AccountRight(c), UNCHANGED shopVars,
         NEW coins \in Int, NEW share \in Int, NEW paid \in Int,
         Orderly(c)' => Orderly(c),
         c \in Kept' => c \in Kept /\ balance'[c] = balance[c] + coins,
         Due(c)' = Due(c) + coins,
         available'[c] = available[c] + share,
         Outstanding(c)' = Outstanding(c) - share,
         withdrawn'[c] = withdrawn[c] + paid,
         Paid(c)' = Paid(c) + paid
  PROVE  AccountRight(c)'
<1>1. /\ balance[c] \in Nat /\ available[c] \in Nat /\ earned[c] \in Nat
      /\ withdrawn[c] \in Nat /\ InitAvailable[c] \in Nat
      /\ Outstanding(c) \in Nat /\ Paid(c) \in Nat
      /\ SharedOut(c) \in Nat /\ Due(c) \in Int
  BY AccountNumbers
<1>2. SharedOut(c)' = SharedOut(c) /\ earned'[c] = earned[c]
  BY ShopBooksStay
<1>3. ASSUME Orderly(c)', c \in Kept'
      PROVE  balance'[c] = Due(c)'
  <2>1. balance[c] = Due(c) /\ balance'[c] = balance[c] + coins
    BY <1>3 DEF AccountRight
  <2> QED BY <1>1, <1>2, <2>1
<1>4. ASSUME Orderly(c)'
      PROVE  withdrawn'[c] = Paid(c)' /\ EarningsHeld(c)'
  <2>1. /\ withdrawn[c] = Paid(c)
        /\ available[c] + Outstanding(c) + SharedOut(c)
              <= InitAvailable[c] + earned[c]
    BY <1>4 DEF AccountRight, EarningsHeld, SharedOut
  <2>2. available'[c] + Outstanding(c)' + SharedOut(c)'
           <= InitAvailable[c] + earned'[c]
    BY <1>1, <1>2, <2>1
  <2> QED BY <2>1, <2>2 DEF EarningsHeld, SharedOut
<1> QED BY <1>3, <1>4 DEF AccountRight, Orderly

(* Nothing moves on the account of c, unless a form puts it back. *)
LEMMA AccountStays ==
  ASSUME RewardsInv, IsFiniteSet(recharges), NEW c \in Customers,
         AccountRight(c), UNCHANGED shopVars,
         Orderly(c)' => Orderly(c),
         c \in Kept' => c \in Kept /\ balance'[c] = balance[c],
         available'[c] = available[c], withdrawn'[c] = withdrawn[c],
         Recharged(c)' = Recharged(c),
         Outstanding(c)' = Outstanding(c), Paid(c)' = Paid(c)
  PROVE  AccountRight(c)'
<1>1. /\ balance[c] \in Nat /\ available[c] \in Nat
      /\ withdrawn[c] \in Nat /\ Outstanding(c) \in Nat
      /\ Paid(c) \in Nat /\ Due(c) \in Int
  BY AccountNumbers
<1>2. Due(c)' = Due(c)
  BY ShopBooksStay DEF Due
<1>3. /\ 0 \in Int
      /\ c \in Kept' => c \in Kept /\ balance'[c] = balance[c] + 0
      /\ Due(c)' = Due(c) + 0 /\ available'[c] = available[c] + 0
      /\ Outstanding(c)' = Outstanding(c) - 0
      /\ withdrawn'[c] = withdrawn[c] + 0 /\ Paid(c)' = Paid(c) + 0
  BY <1>1, <1>2
<1> QED BY <1>3, AccountMoves

---------------------------------------------------------------------------
(* Only the status of w changes. *)
OnlyRow(w) == \A v \in Withdrawals \ {w} : request'[v] = request[v]

LEMMA RowsAddUp ==
  ASSUME NEW w \in Withdrawals, OnlyRow(w), NEW c, NEW statuses
  PROVE  /\ Requester[w] # c
                \/ (request[w] \in statuses <=> request'[w] \in statuses)
               => Total(Requested, WithdrawalsIn(c, statuses)')
                     = Total(Requested, WithdrawalsIn(c, statuses))
         /\ Requester[w] = c /\ request[w] \notin statuses
                /\ request'[w] \in statuses
               => Total(Requested, WithdrawalsIn(c, statuses)')
                     = Total(Requested, WithdrawalsIn(c, statuses))
                         + Requested[w]
         /\ Requester[w] = c /\ request[w] \in statuses
                /\ request'[w] \notin statuses
               => Total(Requested, WithdrawalsIn(c, statuses)')
                     = Total(Requested, WithdrawalsIn(c, statuses))
                         - Requested[w]
<1> DEFINE rowsOf == WithdrawalsIn(c, statuses)
           was == Requester[w] = c /\ request[w] \in statuses
           is == Requester[w] = c /\ request'[w] \in statuses
<1>1. rowsOf \in SUBSET Withdrawals /\ (w \in rowsOf <=> was)
  BY DEF WithdrawalsIn
<1>2. rowsOf' = IF is THEN rowsOf \cup {w} ELSE rowsOf \ {w}
  BY DEF WithdrawalsIn, OnlyRow
<1>3. (was /\ is) \/ (~was /\ ~is) => rowsOf' = rowsOf
  BY <1>1, <1>2
<1>4. ~was /\ is => Total(Requested, rowsOf')
                      = Total(Requested, rowsOf) + Requested[w]
  <2> HIDE DEF rowsOf, was, is
  <2> QED BY <1>1, <1>2, RequestedTotal
<1>5. was /\ ~is => Total(Requested, rowsOf')
                      = Total(Requested, rowsOf) - Requested[w]
  <2> HIDE DEF rowsOf, was, is
  <2> QED BY <1>1, <1>2, RequestedTotal
<1> QED BY <1>3, <1>4, <1>5

(* Open, and so reserved or paid out. *)
OpenStatuses == {"pending", "processing", "approved"}

LEMMA OutstandingMoves ==
  ASSUME NEW w \in Withdrawals, OnlyRow(w), NEW c
  PROVE  /\ Requester[w] # c
                \/ (request[w] \in OpenStatuses
                       <=> request'[w] \in OpenStatuses)
               => Outstanding(c)' = Outstanding(c)
         /\ Requester[w] = c /\ request[w] \notin OpenStatuses
                /\ request'[w] \in OpenStatuses
               => Outstanding(c)' = Outstanding(c) + Requested[w]
         /\ Requester[w] = c /\ request[w] \in OpenStatuses
                /\ request'[w] \notin OpenStatuses
               => Outstanding(c)' = Outstanding(c) - Requested[w]
<1>1. /\ Outstanding(c)' = Total(Requested, WithdrawalsIn(c, OpenStatuses)')
      /\ Outstanding(c) = Total(Requested, WithdrawalsIn(c, OpenStatuses))
  BY DEF Outstanding, OpenStatuses
<1> QED BY <1>1, RowsAddUp

LEMMA PaidMoves ==
  ASSUME NEW w \in Withdrawals, OnlyRow(w), NEW c
  PROVE  /\ Requester[w] # c
                \/ (request[w] = "approved" <=> request'[w] = "approved")
               => Paid(c)' = Paid(c)
         /\ Requester[w] = c /\ request[w] # "approved"
                /\ request'[w] = "approved"
               => Paid(c)' = Paid(c) + Requested[w]
<1>1. /\ Paid(c)' = Total(Requested, WithdrawalsIn(c, {"approved"})')
      /\ Paid(c) = Total(Requested, WithdrawalsIn(c, {"approved"}))
  BY DEF Paid
<1> QED BY <1>1, RowsAddUp

---------------------------------------------------------------------------
(* A request moves the same coins out of the balance and into what is       *)
(* outstanding.                                                             *)
LEMMA RequestAccount ==
  ASSUME RewardsInv, IsFiniteSet(recharges), NEW c \in Customers,
         AccountRight(c), NEW w \in Withdrawals, RequestWithdrawal(w)
  PROVE  AccountRight(c)'
<1>1. /\ WalletTypeOK /\ WithdrawalInv /\ ReceiptInv
      /\ Requester[w] \in Customers /\ Requested[w] \in Nat
  BY Parts, WithdrawalAssumption DEF WalletSound
<1>2. /\ request[w] = "none"
      /\ balance' = [balance EXCEPT ![Requester[w]] = @ - Requested[w]]
      /\ available' = [available EXCEPT ![Requester[w]] = @ - Requested[w]]
      /\ request' = [request EXCEPT ![w] = "pending"]
      /\ UNCHANGED <<shopVars, withdrawn, reopened, recharges, overwritten>>
  BY DEF RequestWithdrawal, receiptVars, profileVars
<1>3. /\ Recharged(c)' = Recharged(c) /\ Booked(c)' = Booked(c)
      /\ Orderly(c)' = Orderly(c) /\ Kept' = Kept
      /\ withdrawn'[c] = withdrawn[c]
  BY <1>2, ShopBooksStay DEF Recharged, Orderly, Kept
<1>4. /\ balance[c] \in Nat /\ available[c] \in Nat /\ withdrawn[c] \in Nat
      /\ Booked(c) \in Int /\ Recharged(c) \in Nat
      /\ Outstanding(c) \in Nat /\ Paid(c) \in Nat
  BY AccountNumbers
<1>5. OnlyRow(w) /\ request'[w] = "pending"
  BY <1>1, <1>2 DEF OnlyRow, WithdrawalInv
<1>6. CASE Requester[w] # c
  <2>1. balance'[c] = balance[c] /\ available'[c] = available[c]
    BY <1>1, <1>2, <1>6 DEF WalletTypeOK
  <2>2. Outstanding(c)' = Outstanding(c) /\ Paid(c)' = Paid(c)
    BY <1>5, <1>6, OutstandingMoves, PaidMoves
  <2> QED BY <1>2, <1>3, <2>1, <2>2, AccountStays
<1>7. CASE Requester[w] = c
  <2> DEFINE taken == -Requested[w]
  <2>1. /\ balance'[c] = balance[c] + taken
        /\ available'[c] = available[c] + taken
    BY <1>1, <1>2, <1>4, <1>7 DEF WalletTypeOK
  <2>2. Outstanding(c)' = Outstanding(c) + Requested[w]
    BY <1>2, <1>5, <1>7, OutstandingMoves DEF OpenStatuses
  <2>3. Paid(c)' = Paid(c)
    BY <1>2, <1>5, PaidMoves
  <2>4. Outstanding(c)' = Outstanding(c) - taken /\ Paid(c)' = Paid(c) + 0
    BY <1>1, <1>4, <2>2, <2>3
  <2>5. Due(c)' = Due(c) + taken
    BY <1>1, <1>3, <1>4, <2>4 DEF Due
  <2>6. taken \in Int /\ 0 \in Int /\ withdrawn'[c] = withdrawn[c] + 0
    BY <1>1, <1>3, <1>4
  <2> HIDE DEF taken
  <2> QED BY <1>2, <1>3, <2>1, <2>4, <2>5, <2>6, AccountMoves
<1> QED BY <1>6, <1>7

(* Closing a request moves them back, once.                                 *)
LEMMA CloseAccount ==
  ASSUME RewardsInv, IsFiniteSet(recharges), NEW c \in Customers,
         AccountRight(c), NEW w \in Withdrawals,
         CancelWithdrawal(w) \/ RejectWithdrawal(w)
  PROVE  AccountRight(c)'
<1>1. /\ WalletTypeOK /\ WithdrawalInv /\ ReceiptInv
      /\ Requester[w] \in Customers /\ Requested[w] \in Nat
  BY Parts, WithdrawalAssumption DEF WalletSound
<1>2. /\ request[w] \in {"pending", "processing"}
      /\ balance' = [balance EXCEPT ![Requester[w]] = @ + Requested[w]]
      /\ available' = [available EXCEPT ![Requester[w]] = @ + Requested[w]]
      /\ \E s \in {"cancelled", "rejected"} :
            request' = [request EXCEPT ![w] = s]
      /\ UNCHANGED <<shopVars, withdrawn, reopened, recharges, overwritten>>
  BY DEF CancelWithdrawal, RejectWithdrawal, GiveBack, receiptVars,
         profileVars
<1>3. /\ Recharged(c)' = Recharged(c) /\ Booked(c)' = Booked(c)
      /\ Orderly(c)' = Orderly(c) /\ Kept' = Kept
      /\ withdrawn'[c] = withdrawn[c]
  BY <1>2, ShopBooksStay DEF Recharged, Orderly, Kept
<1>4. /\ balance[c] \in Nat /\ available[c] \in Nat /\ withdrawn[c] \in Nat
      /\ Booked(c) \in Int /\ Recharged(c) \in Nat
      /\ Outstanding(c) \in Nat /\ Paid(c) \in Nat
  BY AccountNumbers
<1>5. PICK s \in {"cancelled", "rejected"} :
         request' = [request EXCEPT ![w] = s]
  BY <1>2
<1>6. OnlyRow(w) /\ request'[w] = s
  BY <1>1, <1>5 DEF OnlyRow, WithdrawalInv
<1>7. CASE Requester[w] # c
  <2>1. balance'[c] = balance[c] /\ available'[c] = available[c]
    BY <1>1, <1>2, <1>7 DEF WalletTypeOK
  <2>2. Outstanding(c)' = Outstanding(c) /\ Paid(c)' = Paid(c)
    BY <1>6, <1>7, OutstandingMoves, PaidMoves
  <2> QED BY <1>2, <1>3, <2>1, <2>2, AccountStays
<1>8. CASE Requester[w] = c
  <2> DEFINE given == Requested[w]
  <2>1. /\ balance'[c] = balance[c] + given
        /\ available'[c] = available[c] + given
    BY <1>1, <1>2, <1>4, <1>8 DEF WalletTypeOK
  <2>2. Outstanding(c)' = Outstanding(c) - given
    BY <1>2, <1>6, <1>8, OutstandingMoves DEF OpenStatuses
  <2>3. Paid(c)' = Paid(c)
    BY <1>2, <1>6, PaidMoves
  <2>4. Paid(c)' = Paid(c) + 0
    BY <1>4, <2>3
  <2>5. Due(c)' = Due(c) + given
    BY <1>1, <1>3, <1>4, <2>2 DEF Due
  <2>6. given \in Int /\ 0 \in Int /\ withdrawn'[c] = withdrawn[c] + 0
    BY <1>1, <1>3, <1>4
  <2> HIDE DEF given
  <2> QED BY <1>2, <1>3, <2>1, <2>2, <2>4, <2>5, <2>6,
             AccountMoves
<1> QED BY <1>7, <1>8

(* Staff pay, or open a note: what is outstanding stays, and what is paid   *)
(* is counted.  A note that puts the row back leaves the customer out.      *)
LEMMA StaffAccount ==
  ASSUME RewardsInv, IsFiniteSet(recharges), NEW c \in Customers,
         AccountRight(c), NEW w \in Withdrawals,
         \/ ProcessWithdrawal(w) \/ ApproveWithdrawal(w)
         \/ OpenNote(w) \/ SaveNote(w)
  PROVE  AccountRight(c)'
<1>1. /\ WalletTypeOK /\ WithdrawalInv /\ ReceiptInv
      /\ Requester[w] \in Customers /\ Requested[w] \in Nat
  BY Parts, WithdrawalAssumption DEF WalletSound
<1>2. UNCHANGED <<balance, available, shopVars, recharges, overwritten>>
  BY DEF ProcessWithdrawal, ApproveWithdrawal, OpenNote, SaveNote,
         walletVars, shopVars, receiptVars, profileVars
<1>3. /\ Recharged(c)' = Recharged(c) /\ Booked(c)' = Booked(c)
      /\ Kept' = Kept
  BY <1>2, ShopBooksStay DEF Recharged, Kept
<1>4. /\ balance[c] \in Nat /\ available[c] \in Nat /\ withdrawn[c] \in Nat
      /\ Booked(c) \in Int /\ Recharged(c) \in Nat
      /\ Outstanding(c) \in Nat /\ Paid(c) \in Nat /\ Due(c) \in Int
  BY AccountNumbers
<1>5. CASE ProcessWithdrawal(w)
  <2>1. /\ request[w] = "pending" /\ OnlyRow(w)
        /\ request'[w] = "processing"
        /\ withdrawn' = withdrawn /\ reopened' = reopened
    BY <1>1, <1>5 DEF ProcessWithdrawal, OnlyRow, WithdrawalInv
  <2>2. Outstanding(c)' = Outstanding(c)
    BY <2>1, OutstandingMoves DEF OpenStatuses
  <2>3. Paid(c)' = Paid(c)
    BY <2>1, PaidMoves
  <2>4. Orderly(c)' = Orderly(c)
    BY <2>1 DEF Orderly
  <2> QED BY <1>2, <1>3, <2>1, <2>2, <2>3, <2>4, AccountStays
<1>6. CASE ApproveWithdrawal(w)
  <2>1. /\ request[w] = "processing" /\ OnlyRow(w)
        /\ request'[w] = "approved"
        /\ withdrawn' = [withdrawn EXCEPT
                            ![Requester[w]] = @ + Requested[w]]
        /\ reopened' = reopened
    BY <1>1, <1>6 DEF ApproveWithdrawal, OnlyRow, WithdrawalInv
  <2>2. Outstanding(c)' = Outstanding(c)
    BY <2>1, OutstandingMoves DEF OpenStatuses
  <2>3. Orderly(c)' = Orderly(c)
    BY <2>1 DEF Orderly
  <2>4. CASE Requester[w] # c
    <3>1. Paid(c)' = Paid(c) /\ withdrawn'[c] = withdrawn[c]
      BY <1>1, <2>1, <2>4, PaidMoves DEF WithdrawalInv
    <3> QED BY <1>2, <1>3, <2>2, <2>3, <3>1, AccountStays
  <2>5. CASE Requester[w] = c
    <3> DEFINE paid == Requested[w]
    <3>1. Paid(c)' = Paid(c) + paid
      BY <2>1, <2>5, PaidMoves
    <3>2. withdrawn'[c] = withdrawn[c] + paid
      BY <1>1, <2>1, <2>5 DEF WithdrawalInv
    <3>3. Due(c)' = Due(c)
      BY <1>3, <2>2 DEF Due
    <3>4. /\ paid \in Int /\ 0 \in Int
          /\ balance'[c] = balance[c] + 0 /\ Due(c)' = Due(c) + 0
          /\ available'[c] = available[c] + 0
          /\ Outstanding(c)' = Outstanding(c) - 0
      BY <1>1, <1>2, <1>4, <2>2, <3>3
    <3> HIDE DEF paid
    <3> QED BY <1>2, <1>3, <2>3, <3>1, <3>2, <3>4, AccountMoves
  <2> QED BY <2>4, <2>5
<1>7. CASE OpenNote(w)
  <2>1. UNCHANGED <<request, withdrawn, reopened>>
    BY <1>7 DEF OpenNote
  <2>2. /\ Outstanding(c)' = Outstanding(c) /\ Paid(c)' = Paid(c)
        /\ Orderly(c)' = Orderly(c)
    BY <2>1 DEF Outstanding, Paid, WithdrawalsIn, Orderly
  <2> QED BY <1>2, <1>3, <2>1, <2>2, AccountStays
<1>8. CASE SaveNote(w)
  <2>1. /\ OnlyRow(w) /\ request'[w] = note[w] /\ withdrawn' = withdrawn
        /\ reopened' = IF note[w] = request[w] THEN reopened
                                              ELSE reopened \cup {w}
    BY <1>1, <1>8 DEF SaveNote, OnlyRow, WithdrawalInv
  <2>2. CASE Requester[w] # c \/ note[w] = request[w]
    <3>1. Outstanding(c)' = Outstanding(c)
      BY <2>1, <2>2, OutstandingMoves
    <3>2. Paid(c)' = Paid(c)
      BY <2>1, <2>2, PaidMoves
    <3>3. Orderly(c)' => Orderly(c)
      BY <2>1, <2>2 DEF Orderly
    <3> QED BY <1>2, <1>3, <2>1, <3>1, <3>2, <3>3, AccountStays
  <2>3. CASE Requester[w] = c /\ note[w] # request[w]
    <3>1. ~ Orderly(c)'
      BY <2>1, <2>3 DEF Orderly
    <3> QED BY <3>1 DEF AccountRight
  <2> QED BY <2>2, <2>3
<1> QED BY <1>5, <1>6, <1>7, <1>8

(* A form that puts a balance back leaves the customer out of Kept.         *)
LEMMA ProfileAccount ==
  ASSUME RewardsInv, IsFiniteSet(recharges), NEW c \in Customers,
         AccountRight(c), NEW d \in Customers,
         OpenProfile(d) \/ SaveProfile(d)
  PROVE  AccountRight(c)'
<1>1. balance \in [Customers -> Nat]
  BY Parts DEF WalletSound, WalletTypeOK
<1>2. UNCHANGED <<available, shopVars, withdrawalVars, recharges>>
  BY DEF OpenProfile, SaveProfile, walletVars, shopVars, receiptVars
<1>3. /\ Outstanding(c)' = Outstanding(c) /\ Paid(c)' = Paid(c)
      /\ Orderly(c)' = Orderly(c) /\ Recharged(c)' = Recharged(c)
      /\ withdrawn'[c] = withdrawn[c]
  BY <1>2 DEF withdrawalVars, Outstanding, Paid, WithdrawalsIn, Orderly,
              Recharged
<1>4. c \in Kept' => c \in Kept /\ balance'[c] = balance[c]
  <2>1. CASE OpenProfile(d)
    BY <2>1 DEF OpenProfile, walletVars, Kept
  <2>2. CASE SaveProfile(d)
    BY <1>1, <2>2 DEF SaveProfile, Kept
  <2> QED BY <2>1, <2>2
<1> QED BY <1>2, <1>3, <1>4, AccountStays

(* Rows of receipts carry no coins of their own.                            *)
LEMMA ReceiptAccount ==
  ASSUME RewardsInv, IsFiniteSet(recharges), NEW c \in Customers,
         AccountRight(c),
         UNCHANGED <<walletVars, withdrawalVars, profileVars, recharges>>
  PROVE  AccountRight(c)'
<1>1. /\ UNCHANGED <<balance, available, shopVars, request, withdrawn,
                     reopened, overwritten>>
  BY DEF walletVars, shopVars, withdrawalVars, profileVars
<1>2. /\ Outstanding(c)' = Outstanding(c) /\ Paid(c)' = Paid(c)
      /\ Orderly(c)' = Orderly(c) /\ Recharged(c)' = Recharged(c)
      /\ Kept' = Kept
  BY <1>1 DEF Outstanding, Paid, WithdrawalsIn, Orderly, Recharged, Kept
<1> QED BY <1>1, <1>2, AccountStays

---------------------------------------------------------------------------
(* A recharge is a new operation, so its coins are added once.              *)
LEMMA RechargedMoves ==
  ASSUME RewardsInv, IsFiniteSet(recharges), NEW c \in Customers,
         NEW t \in Receipts, NEW d \in Customers, Recharge(t, d)
  PROVE  /\ IsFiniteSet(recharges')
         /\ c = d => Recharged(c)' = Recharged(c) + Received[t]
         /\ c # d => Recharged(c)' = Recharged(c)
<1> DEFINE new == [trx |-> TrxId[t], to |-> d, coins |-> Received[t]]
           coinsOf(R) == [r \in R |-> r.coins]
           mine == {r \in recharges : r.to = c}
           next == {r \in recharges' : r.to = c}
<1>1. /\ recharges' = recharges \cup {new}
      /\ \A r \in recharges : r.trx # TrxId[t]
  BY DEF Recharge, Fresh
<1>2. /\ new.trx = TrxId[t] /\ new.to = d /\ new.coins = Received[t]
      /\ Received[t] \in Nat
  BY ReceiptAssumption
<1>3. new \notin recharges /\ mine \subseteq recharges
  BY <1>1, <1>2
<1>4. IsFiniteSet(recharges') /\ IsFiniteSet(mine)
  BY <1>1, <1>3, FS_AddElement, FS_Subset
<1>5. \A r \in recharges : r.coins \in Nat
  BY Parts DEF ReceiptInv, Operation
<1>6. /\ Recharged(c) = Total(coinsOf(recharges), mine)
      /\ Recharged(c)' = Total(coinsOf(recharges'), next)
  BY DEF Recharged
<1>7. /\ c # d => next = mine
      /\ c = d => next = mine \cup {new}
  BY <1>1, <1>2
<1>8. /\ \A r \in mine : coinsOf(recharges')[r] = coinsOf(recharges)[r]
      /\ \A r \in mine : coinsOf(recharges')[r] \in Int
      /\ coinsOf(recharges')[new] = Received[t]
  BY <1>1, <1>2, <1>3, <1>5
<1> HIDE DEF mine, next, coinsOf, new
<1>9. Total(coinsOf(recharges'), mine) = Total(coinsOf(recharges), mine)
  BY <1>4, <1>8, SumSame DEF Total
<1>10. ASSUME c = d PROVE Recharged(c)' = Recharged(c) + Received[t]
  <2>1. new \notin mine
    BY <1>3
  <2>2. \A r \in mine \cup {new} : coinsOf(recharges')[r] \in Int
    BY <1>2, <1>8
  <2>3. Total(coinsOf(recharges'), mine \cup {new})
           = Total(coinsOf(recharges'), mine) + Received[t]
    BY <1>4, <1>8, <2>1, <2>2, SumWith DEF Total
  <2> QED BY <1>6, <1>7, <1>9, <1>10, <2>3
<1> QED BY <1>4, <1>6, <1>7, <1>9, <1>10

LEMMA RechargeAccount ==
  ASSUME RewardsInv, IsFiniteSet(recharges), NEW c \in Customers,
         AccountRight(c), NEW t \in Receipts, NEW d \in Customers,
         Recharge(t, d)
  PROVE  AccountRight(c)'
<1>1. balance \in [Customers -> Nat] /\ Received[t] \in Nat
  BY Parts, ReceiptAssumption DEF WalletSound, WalletTypeOK
<1>2. /\ balance' = [balance EXCEPT ![d] = @ + Received[t]]
      /\ UNCHANGED <<available, shopVars, request, withdrawn, reopened,
                     overwritten>>
  BY DEF Recharge, withdrawalVars, profileVars
<1>3. /\ Outstanding(c)' = Outstanding(c) /\ Paid(c)' = Paid(c)
      /\ Orderly(c)' = Orderly(c) /\ Kept' = Kept
      /\ Booked(c)' = Booked(c)
  BY <1>2, ShopBooksStay DEF Outstanding, Paid, WithdrawalsIn, Orderly, Kept
<1>4. /\ balance[c] \in Nat /\ available[c] \in Nat /\ withdrawn[c] \in Nat
      /\ Booked(c) \in Int /\ Recharged(c) \in Nat
      /\ Outstanding(c) \in Nat /\ Paid(c) \in Nat
  BY AccountNumbers
<1>5. CASE c # d
  <2>1. balance'[c] = balance[c] /\ Recharged(c)' = Recharged(c)
    BY <1>1, <1>2, <1>5, RechargedMoves
  <2> QED BY <1>2, <1>3, <2>1, AccountStays
<1>6. CASE c = d
  <2> DEFINE coins == Received[t]
  <2>1. Recharged(c)' = Recharged(c) + coins
    BY <1>6, RechargedMoves
  <2>2. balance'[c] = balance[c] + coins
    BY <1>1, <1>2, <1>6
  <2>3. Due(c)' = Due(c) + coins
    BY <1>1, <1>3, <1>4, <2>1 DEF Due
  <2>4. /\ coins \in Int /\ 0 \in Int
        /\ available'[c] = available[c] + 0
        /\ Outstanding(c)' = Outstanding(c) - 0
        /\ withdrawn'[c] = withdrawn[c] + 0 /\ Paid(c)' = Paid(c) + 0
    BY <1>1, <1>2, <1>3, <1>4
  <2> HIDE DEF coins
  <2> QED BY <1>2, <1>3, <2>2, <2>3, <2>4, AccountMoves
<1> QED BY <1>5, <1>6

---------------------------------------------------------------------------
(* The shop and the paid services, by the wallet's own books.               *)
LEMMA ShopAccount ==
  ASSUME RewardsInv, RewardsInv', IsFiniteSet(recharges), RefundsPaid,
         ClawedOnce, NEW c \in Customers, AccountRight(c),
         WalletStep \/ UNCHANGED walletVars,
         UNCHANGED <<withdrawalVars, receiptVars, profileVars>>
  PROVE  AccountRight(c)'
<1>1. WalletTypeOK /\ WalletTypeOK'
  BY DEF RewardsInv, RewardsTypeOK
<1>2. UNCHANGED <<request, withdrawn, reopened, overwritten, recharges>>
  BY DEF withdrawalVars, profileVars, receiptVars
<1>3. /\ Outstanding(c)' = Outstanding(c) /\ Paid(c)' = Paid(c)
      /\ Orderly(c)' = Orderly(c) /\ Kept' = Kept
      /\ Recharged(c)' = Recharged(c) /\ withdrawn'[c] = withdrawn[c]
  BY <1>2 DEF Outstanding, Paid, WithdrawalsIn, Orderly, Kept, Recharged
<1>4. BooksMove(c)
  BY <1>1, WalletStepBooks, BooksStutter
<1>5. /\ balance[c] \in Nat /\ available[c] \in Nat /\ earned[c] \in Nat
      /\ Booked(c) \in Int /\ SharedOut(c) \in Nat
      /\ Recharged(c) \in Nat /\ Outstanding(c) \in Nat
      /\ InitAvailable[c] \in Nat
  BY AccountNumbers
<1>6. /\ balance'[c] \in Nat /\ available'[c] \in Nat /\ earned'[c] \in Nat
      /\ Booked(c)' \in Int /\ SharedOut(c)' \in Nat
  BY <1>1, BooksStayNumbers DEF WalletTypeOK
<1>7. /\ Due(c) = Booked(c) + Recharged(c) - Outstanding(c)
      /\ Due(c)' = Booked(c)' + Recharged(c) - Outstanding(c)
  BY <1>3 DEF Due
<1>8. ASSUME Orderly(c)', c \in Kept'
      PROVE  balance'[c] = Due(c)'
  <2>1. balance[c] = Due(c)
    BY <1>3, <1>8 DEF AccountRight
  <2>2. balance'[c] - Booked(c)' = balance[c] - Booked(c)
    BY <1>4 DEF BooksMove
  <2> QED BY <1>5, <1>6, <1>7, <2>1, <2>2
<1>9. ASSUME Orderly(c)'
      PROVE  withdrawn'[c] = Paid(c)' /\ EarningsHeld(c)'
  <2>1. /\ withdrawn[c] = Paid(c)
        /\ available[c] + Outstanding(c) + SharedOut(c)
              <= InitAvailable[c] + earned[c]
    BY <1>3, <1>9 DEF AccountRight, EarningsHeld, SharedOut
  <2>2. available'[c] + SharedOut(c)' - earned'[c]
           <= available[c] + SharedOut(c) - earned[c]
    BY <1>4 DEF BooksMove
  <2>3. available'[c] + Outstanding(c) + SharedOut(c)'
           <= InitAvailable[c] + earned'[c]
    BY <1>5, <1>6, <2>1, <2>2
  <2> QED BY <1>3, <2>1, <2>3 DEF EarningsHeld, SharedOut
<1> QED BY <1>8, <1>9 DEF AccountRight, Orderly

---------------------------------------------------------------------------
(* Inductive: every account is right, and the sums exist.                   *)
RewardsBooksInv ==
    /\ RewardsInv
    /\ RefundsPaid
    /\ ClawedOnce
    /\ IsFiniteSet(recharges)
    /\ \A c \in Customers : AccountRight(c)

LEMMA RewardsBooksStart == RewardsInit => RewardsBooksInv
<1> SUFFICES ASSUME RewardsInit PROVE RewardsBooksInv
  OBVIOUS
<1>1. RewardsInv /\ RefundsPaid /\ ClawedOnce /\ IsFiniteSet(recharges)
  BY RewardsStart, ClawsStart, FS_EmptySet
     DEF RewardsInit, WalletInit, RefundsPaid
<1>2. ASSUME NEW c \in Customers PROVE AccountRight(c)
  <2>1. /\ ChargedTo(c) = {} /\ RewardsOf(c) \cap credited = {}
        /\ spent[c] = 0 /\ balance[c] = InitBalance[c] /\ earned[c] = 0
        /\ available[c] = InitAvailable[c] /\ withdrawn[c] = 0
    BY DEF RewardsInit, WalletInit, ChargedTo
  <2>2. \A statuses : "none" \notin statuses
                         => WithdrawalsIn(c, statuses) = {}
    BY DEF RewardsInit, WithdrawalsIn
  <2>3. /\ Outstanding(c) = Total(Requested, {})
        /\ Paid(c) = Total(Requested, {})
    BY <2>2 DEF Outstanding, Paid
  <2>4. \A f : Total(f, {}) = 0
    BY SumNothing DEF Total
  <2>5. Recharged(c) = 0
    <3>1. {r \in recharges : r.to = c} = {}
      BY DEF RewardsInit
    <3> QED BY <2>4, <3>1 DEF Recharged
  <2>6. InitBalance[c] \in Nat /\ InitAvailable[c] \in Nat
    BY AmountAssumption
  <2>7. Booked(c) = InitBalance[c]
    <3>1. Booked(c) = InitBalance[c] - 0 - Total(Price, {})
                        + Total(Reward, {}) - Total(clawed, RewardsOf(c))
      BY <2>1 DEF Booked
    <3>2. Total(clawed, RewardsOf(c)) = 0
      BY NothingClawed DEF RewardsInit, WalletInit
    <3> QED BY <2>4, <2>6, <3>1, <3>2
  <2>8. Outstanding(c) = 0 /\ Paid(c) = 0
    BY <2>3, <2>4
  <2>9. Due(c) = balance[c]
    BY <2>1, <2>5, <2>6, <2>7, <2>8 DEF Due
  <2>10. EarningsHeld(c)
    <3>1. Total(refUsed, ChargedTo(c)) = 0
      BY <2>1, <2>4
    <3> QED BY <2>1, <2>6, <2>8, <3>1 DEF EarningsHeld
  <2> QED BY <2>1, <2>6, <2>8, <2>9, <2>10 DEF AccountRight
<1> QED BY <1>1, <1>2 DEF RewardsBooksInv

(* Only a recharge adds an operation, and only the shop refunds.            *)
LEMMA RewardsBooksSupport ==
  ASSUME RewardsBooksInv, [RewardsNext]_rewardsVars
  PROVE  RefundsPaid' /\ ClawedOnce' /\ IsFiniteSet(recharges')
<1>1. /\ RewardsInv /\ RefundsPaid /\ ClawedOnce /\ IsFiniteSet(recharges)
      /\ WalletTypeOK
  BY DEF RewardsBooksInv, RewardsInv, RewardsTypeOK
<1>2. CASE ShopStep
  BY <1>1, <1>2, RefundsStayPaid, ClawsStay DEF ShopStep, receiptVars
<1>3. ASSUME NEW w \in Withdrawals, Withdrawing(w)
      PROVE  RefundsPaid' /\ ClawedOnce' /\ IsFiniteSet(recharges')
  <2>1. UNCHANGED <<refunds, debited, credited, reversed, clawed, recharges>>
    BY <1>3 DEF Withdrawing, RequestWithdrawal, CancelWithdrawal,
       ProcessWithdrawal, ApproveWithdrawal, RejectWithdrawal, OpenNote,
       SaveNote, walletVars, shopVars, receiptVars
  <2> QED BY <1>1, <2>1 DEF RefundsPaid, ClawedOnce
<1>4. ASSUME NEW c \in Customers, OpenProfile(c) \/ SaveProfile(c)
      PROVE  RefundsPaid' /\ ClawedOnce' /\ IsFiniteSet(recharges')
  <2>1. UNCHANGED <<refunds, debited, credited, reversed, clawed, recharges>>
    BY <1>4 DEF OpenProfile, SaveProfile, walletVars, shopVars, receiptVars
  <2> QED BY <1>1, <2>1 DEF RefundsPaid, ClawedOnce
<1>5. ASSUME NEW t \in Receipts, Receiving(t)
      PROVE  RefundsPaid' /\ ClawedOnce' /\ IsFiniteSet(recharges')
  <2>1. UNCHANGED <<refunds, debited, credited, reversed, clawed>>
    BY <1>5 DEF Receiving, CheckIntake, InsertIntake, EnterReceipt,
       OpenReceipt, SaveReceipt, DeleteReceipt, Recharge, walletVars,
       shopVars
  <2>2. UNCHANGED recharges \/ \E c \in Customers : Recharge(t, c)
    BY <1>5 DEF Receiving, CheckIntake, InsertIntake, EnterReceipt,
       OpenReceipt, SaveReceipt, DeleteReceipt
  <2> QED BY <1>1, <2>1, <2>2, RechargedMoves DEF RefundsPaid, ClawedOnce
<1>6. CASE UNCHANGED rewardsVars
  BY <1>1, <1>6 DEF rewardsVars, walletVars, receiptVars, RefundsPaid,
                   ClawedOnce
<1> QED BY <1>2, <1>3, <1>4, <1>5, <1>6 DEF RewardsNext

LEMMA RewardsBooksStep ==
  RewardsBooksInv /\ [RewardsNext]_rewardsVars => RewardsBooksInv'
<1> SUFFICES ASSUME RewardsBooksInv, [RewardsNext]_rewardsVars
             PROVE  RewardsBooksInv'
  OBVIOUS
<1>1. /\ RewardsInv /\ RewardsInv' /\ RefundsPaid /\ ClawedOnce
      /\ IsFiniteSet(recharges)
  BY RewardsNextKeeps DEF RewardsBooksInv
<1>2. ASSUME NEW c \in Customers PROVE AccountRight(c)'
  <2>1. AccountRight(c)
    BY DEF RewardsBooksInv
  <2>2. CASE ShopStep \/ UNCHANGED rewardsVars
    <3>1. /\ WalletStep \/ UNCHANGED walletVars
          /\ UNCHANGED <<withdrawalVars, receiptVars, profileVars>>
      BY <2>2 DEF ShopStep, rewardsVars
    <3> QED BY <1>1, <2>1, <3>1, ShopAccount
  <2>3. CASE \E w \in Withdrawals : Withdrawing(w)
    BY <1>1, <2>1, <2>3, RequestAccount, CloseAccount, StaffAccount
       DEF Withdrawing
  <2>4. CASE \E d \in Customers : OpenProfile(d) \/ SaveProfile(d)
    BY <1>1, <2>1, <2>4, ProfileAccount
  <2>5. ASSUME NEW t \in Receipts, Receiving(t) PROVE AccountRight(c)'
    <3>1. CASE \E d \in Customers : Recharge(t, d)
      BY <1>1, <2>1, <3>1, RechargeAccount
    <3>2. CASE ~ \E d \in Customers : Recharge(t, d)
      <4>1. UNCHANGED <<walletVars, withdrawalVars, profileVars, recharges>>
        BY <2>5, <3>2 DEF Receiving, CheckIntake, InsertIntake,
           EnterReceipt, OpenReceipt, SaveReceipt, DeleteReceipt
      <4> QED BY <1>1, <2>1, <4>1, ReceiptAccount
    <3> QED BY <3>1, <3>2
  <2> QED BY <2>2, <2>3, <2>4, <2>5 DEF RewardsNext
<1> QED BY <1>1, <1>2, RewardsBooksSupport DEF RewardsBooksInv

LEMMA RewardsBooksBalance == RewardsSpec => []RewardsBooksInv
<1> QED BY RewardsBooksStart, RewardsBooksStep, PTL DEF RewardsSpec

(* Orders, paid services, recharges and withdrawals, however they           *)
(* interleave, move a balance by exactly what their rows say, and           *)
(* lifetime_withdrawn_taka counts every approved withdrawal once.           *)
THEOREM EveryCoinBooked == RewardsSpec => []RewardsBooked
<1>1. RewardsBooksInv => RewardsBooked
  BY DEF RewardsBooksInv, AccountRight, RewardsBooked, Due, Paid, Kept
<1> QED BY <1>1, RewardsBooksBalance, PTL

(* Earnings are spent, reserved, paid out or restored, never two of these.  *)
THEOREM EarningsCountOnce == RewardsSpec => []EarningsOnce
<1>1. RewardsBooksInv => EarningsOnce
  BY DEF RewardsBooksInv, AccountRight, EarningsOnce
<1> QED BY <1>1, RewardsBooksBalance, PTL
============================================================================
