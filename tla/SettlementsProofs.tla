-------------------------- MODULE SettlementsProofs --------------------------
(***************************************************************************)
(* Proofs about Settlements, for any members, currencies, amounts and      *)
(* bounds: the invariants OneOpenProposal, SupersededOnce and              *)
(* BalancesAddUp, and the action property LifeCycle.                       *)
(*                                                                         *)
(* The invariant is TypeOK with the two first; each is preserved with the  *)
(* help of TypeOK and of itself.  Expenses and balances only appear in the *)
(* guards, so that one lemma per way of changing settlements suffices: a   *)
(* proposal appends, a move changes one status, a payment in part does     *)
(* both at once.                                                           *)
(*                                                                         *)
(* BalancesAddUp holds of every well-formed blob with finitely many        *)
(* expenses.  It is about folds, over expenses, members, buckets and the   *)
(* sequence of settlements (FoldLemmas).                                   *)
(***************************************************************************)
EXTENDS Settlements, FoldLemmas

(***************************************************************************)
(* Typing.                                                                 *)
(***************************************************************************)
LEMMA EvenSplitsAreSplits == EvenSplits \subseteq Splits
<1> SUFFICES ASSUME NEW f \in EvenSplits PROVE f \in Splits
  OBVIOUS
<1>1. PICK a \in Amounts, sharing \in SUBSET Members \ {{}} :
          f = [m \in Members |-> IF m \in sharing THEN a ELSE 0]
  BY DEF EvenSplits
<1> QED
  BY <1>1 DEF Splits

LEMMA NoCurrencyIsABucket == Currencies \subseteq Buckets /\ NoCurrency \in Buckets
  BY DEF Buckets

LEMMA TypeInit == Init => TypeOK
<1> SUFFICES ASSUME Init PROVE TypeOK
  OBVIOUS
<1>1. settlements \in Seq(Settlement)
  <2>1. CASE settlements = <<>>
    BY <2>1
  <2>2. CASE settlements \in {<<s>> : s \in Legacy}
    <3>1. PICK s \in Legacy : settlements = <<s>>
      BY <2>2
    <3>2. s \in Settlement
      <4>1. s = [from |-> s.from, to |-> s.to, amount |-> s.amount,
                 currency |-> s.currency, status |-> s.status, paid |-> s.paid,
                 of |-> s.of]
        BY <3>1 DEF Legacy
      <4>2. s.from \in Members /\ s.to \in Members /\ s.amount \in LegacyAmounts
        BY <3>1 DEF Legacy
      <4>3. s.currency = Dollar /\ s.status = "approved" /\ s.paid = 0 /\ s.of = 0
        BY <3>1 DEF Legacy
      <4>4. s.amount \in Nat \ {0} /\ s.currency \in Buckets /\ s.status \in Statuses
        BY <4>2, <4>3, LegacyAssumption, NoCurrencyIsABucket DEF Statuses
      <4> QED
        BY <4>1, <4>2, <4>3, <4>4 DEF Settlement
    <3> QED
      BY <3>1, <3>2
  <2> QED
    BY <2>1, <2>2 DEF Init
<1>2. DOMAIN expenses = {}
  BY DEF Init
<1>3. edits \in 0 .. MaxEdits
  BY BoundsAssumption DEF Init
<1>4. shown \in [Members -> Currencies]
  BY DEF Init
<1> QED
  BY <1>1, <1>2, <1>3, <1>4 DEF TypeOK, Init

\* Every operation refreshes the tab of its member at most.
LEMMA RefreshTypes ==
  ASSUME TypeOK, NEW u \in Members, Refresh(u)
  PROVE  shown' \in [Members -> Currencies]
  BY DEF TypeOK, Refresh

\* What an expense may become.
LEMMA ExpenseTypes ==
  ASSUME TypeOK, NEW u \in Members, NEW x \in Expenses, NEW payer \in Members,
         NEW splits \in EvenSplits,
         \/ \E c \in StoredCurrencies : createGroupExpense(u, x, payer, c, splits)
         \/ updateGroupExpense(u, x, payer, splits)
  PROVE  TypeOK' /\ settlements' = settlements
<1> USE EvenSplitsAreSplits
<1> DEFINE Expense == [paidBy: Members, currency: Buckets, splits: Splits]
<1>1. ASSUME NEW c \in StoredCurrencies, createGroupExpense(u, x, payer, c, splits)
      PROVE  TypeOK' /\ settlements' = settlements
  <2>1. [paidBy |-> payer, currency |-> c, splits |-> splits] \in Expense
    BY StoredAssumption
  <2>2. DOMAIN expenses' = DOMAIN expenses \cup {x}
    BY <1>1 DEF createGroupExpense
  <2>3. \A y \in DOMAIN expenses' : expenses'[y] \in Expense
    BY <1>1, <2>1, <2>2 DEF createGroupExpense, TypeOK
  <2> QED
    BY <1>1, <2>2, <2>3, RefreshTypes DEF createGroupExpense, TypeOK
<1>2. ASSUME updateGroupExpense(u, x, payer, splits)
      PROVE  TypeOK' /\ settlements' = settlements
  <2>1. DOMAIN expenses' = DOMAIN expenses
    BY <1>2 DEF updateGroupExpense
  <2>2. \A y \in DOMAIN expenses' : expenses'[y] \in Expense
    <3> SUFFICES ASSUME NEW y \in DOMAIN expenses' PROVE expenses'[y] \in Expense
      OBVIOUS
    <3>1. expenses[y] \in Expense
      BY <2>1 DEF TypeOK
    <3> QED
      BY <1>2, <2>1, <3>1 DEF updateGroupExpense
  <2>3. edits' \in 0 .. MaxEdits
    BY <1>2, BoundsAssumption DEF updateGroupExpense, Edits, TypeOK
  <2> QED
    BY <1>2, <2>1, <2>2, <2>3, RefreshTypes DEF updateGroupExpense, TypeOK
<1> QED
  BY <1>1, <1>2

LEMMA DeletionTypes ==
  ASSUME TypeOK, NEW u \in Members, NEW x \in Expenses, deleteGroupExpense(u, x)
  PROVE  TypeOK' /\ settlements' = settlements
<1>1. \A y \in DOMAIN expenses' : y \in DOMAIN expenses /\ expenses'[y] = expenses[y]
  BY DEF deleteGroupExpense, Restrict
<1>2. edits' \in 0 .. MaxEdits
  BY BoundsAssumption DEF deleteGroupExpense, Edits, TypeOK
<1> QED
  BY <1>1, <1>2, RefreshTypes DEF deleteGroupExpense, TypeOK

LEMMA CurrencyTypes ==
  ASSUME TypeOK, NEW u \in Members,
         \/ \E c \in Currencies : updateGroupSettings(u, c)
         \/ OpenGroup(u)
  PROVE  TypeOK' /\ settlements' = settlements
<1>1. ASSUME NEW c \in Currencies, updateGroupSettings(u, c)
      PROVE  TypeOK' /\ settlements' = settlements
  <2>1. edits' \in 0 .. MaxEdits
    BY <1>1, BoundsAssumption DEF updateGroupSettings, Edits, TypeOK
  <2> QED
    BY <1>1, <2>1 DEF updateGroupSettings, TypeOK
<1>2. ASSUME OpenGroup(u)
      PROVE  TypeOK' /\ settlements' = settlements
  BY <1>2, RefreshTypes DEF OpenGroup, TypeOK
<1> QED
  BY <1>1, <1>2

(***************************************************************************)
(* Records of settlements.                                                 *)
(***************************************************************************)
LEMMA NewStatus ==
  ASSUME NEW s \in Settlement, NEW status \in Statuses
  PROVE  /\ [s EXCEPT !.status = status] \in Settlement
         /\ [s EXCEPT !.status = status].status = status
         /\ \A f \in {"from", "to", "amount", "currency", "of", "paid"} :
               [s EXCEPT !.status = status][f] = s[f]
  BY DEF Settlement

LEMMA Superseded ==
  ASSUME NEW s \in Settlement, NEW a \in Nat
  PROVE  LET t == [s EXCEPT !.status = "superseded", !.paid = a]
         IN  /\ t \in Settlement
             /\ t.status = "superseded" /\ t.paid = a
             /\ \A f \in {"from", "to", "amount", "currency", "of"} : t[f] = s[f]
<1>1. "superseded" \in Statuses
  BY DEF Statuses
<1> QED
  BY <1>1 DEF Settlement

\* The i-th settlement, s, with b left to pay.
RestOf(s, b, i) == [s EXCEPT !.amount = b, !.of = i]

LEMMA Rest ==
  ASSUME NEW s \in Settlement, NEW b \in Nat \ {0}, NEW i \in Nat
  PROVE  /\ RestOf(s, b, i) \in Settlement
         /\ RestOf(s, b, i).amount = b
         /\ RestOf(s, b, i).of = i
         /\ \A f \in {"from", "to", "currency", "status", "paid"} :
               RestOf(s, b, i)[f] = s[f]
  BY DEF Settlement, RestOf

LEMMA RemainderIsRest ==
  ASSUME NEW i, NEW a, NEW s, s = settlements[i]
  PROVE  Remainder(i, a) = RestOf(s, s.amount - a, i)
  BY Zenon DEF Remainder, RestOf

LEMMA SomeIsLeft ==
  ASSUME NEW s \in Settlement, NEW a \in Nat, a < s.amount
  PROVE  s.amount - a \in Nat \ {0} /\ (s.amount - a) + a = s.amount
  BY DEF Settlement

(***************************************************************************)
(* The three ways of changing settlements.                                 *)
(***************************************************************************)
Proposal(s) ==
    /\ s \in Settlement
    /\ s.status = "proposed" /\ s.of = 0
    /\ ~DuplicateProposal(<<s.from, s.to>>)
    /\ settlements' = Append(settlements, s)

LEMMA Proposes ==
  ASSUME TypeOK, NEW u \in Members, NEW p \in Pairs, NEW a \in Amounts,
         proposeSettlement(u, p, a)
  PROVE  TypeOK' /\ \E s : Proposal(s)
<1> DEFINE s == [from |-> p[1], to |-> p[2], amount |-> a, currency |-> shown[u],
                 status |-> "proposed", paid |-> 0, of |-> 0]
<1>1. p[1] \in Members /\ p[2] \in Members /\ <<p[1], p[2]>> = p
  BY DEF Pairs
<1>2. shown[u] \in Buckets
  BY NoCurrencyIsABucket DEF TypeOK
<1>3. s \in Settlement
  BY <1>1, <1>2, AmountsAssumption DEF Settlement, Statuses
<1>4. settlements' = Append(settlements, s)
  BY DEF proposeSettlement
<1>5. settlements' \in Seq(Settlement)
  BY <1>3, <1>4 DEF TypeOK
<1>6. Proposal(s)
  BY <1>1, <1>3, <1>4 DEF Proposal, proposeSettlement
<1>7. TypeOK'
  BY <1>5, RefreshTypes DEF proposeSettlement, TypeOK
<1> QED
  BY <1>6, <1>7

\* A move: settlement i, not final yet, gets another status.
Move(i, to) ==
    /\ i \in DOMAIN settlements
    /\ settlements[i].status \in {"proposed", "marked_paid"}
    /\ to \in {"marked_paid", "approved", "rejected", "cancelled"}
    /\ to = "approved" => settlements[i].status = "marked_paid"
    /\ settlements' = [settlements EXCEPT ![i] = [settlements[i] EXCEPT !.status = to]]

LEMMA Transitions ==
  ASSUME NEW u \in Members, NEW i,
         \/ markSettlementAsPaid(u, i)
         \/ acceptSettlement(u, i)
         \/ rejectSettlement(u, i)
         \/ cancelSettlement(u, i)
  PROVE  /\ \E to : Move(i, to)
         /\ Refresh(u)
         /\ UNCHANGED <<expenses, groupCurrency, edits>>
<1>1. CASE markSettlementAsPaid(u, i)
  <2>1. Move(i, "marked_paid")
    BY <1>1 DEF markSettlementAsPaid, markAsPaid, Moves, Move
  <2> QED
    BY <1>1, <2>1 DEF markSettlementAsPaid, markAsPaid, Moves
<1>2. CASE acceptSettlement(u, i)
  <2>1. Move(i, "approved")
    BY <1>2 DEF acceptSettlement, confirmReceipt, Moves, Move
  <2> QED
    BY <1>2, <2>1 DEF acceptSettlement, confirmReceipt, Moves
<1>3. CASE rejectSettlement(u, i)
  <2>1. Move(i, "rejected")
    BY <1>3 DEF rejectSettlement, rejectProposal, rejectPayment, Moves, Move
  <2> QED
    BY <1>3, <2>1 DEF rejectSettlement, rejectProposal, rejectPayment, Moves
<1>4. CASE cancelSettlement(u, i)
  <2>1. Move(i, "cancelled")
    BY <1>4 DEF cancelSettlement, cancelProposal, Moves, Move
  <2> QED
    BY <1>4, <2>1 DEF cancelSettlement, cancelProposal, Moves
<1> QED
  BY <1>1, <1>2, <1>3, <1>4

LEMMA MovesType ==
  ASSUME TypeOK, NEW u \in Members, NEW i, NEW to, Move(i, to), Refresh(u),
         UNCHANGED <<expenses, groupCurrency, edits>>
  PROVE  TypeOK'
<1> DEFINE new == [settlements[i] EXCEPT !.status = to]
<1>1. settlements \in Seq(Settlement) /\ i \in DOMAIN settlements
  BY DEF Move, TypeOK
<1>2. to \in Statuses
  BY DEF Move, Statuses
<1>3. new \in Settlement
  BY <1>1, <1>2, NewStatus
<1>4. settlements' = [settlements EXCEPT ![i] = new]
  BY DEF Move
<1>5. settlements' \in Seq(Settlement)
  <2> HIDE DEF new
  <2> QED
    BY <1>1, <1>3, <1>4
<1> QED
  BY <1>5, RefreshTypes DEF TypeOK

\* A payment in part: settlement i is closed, a remainder is appended.
Closed(i, paid) == [settlements[i] EXCEPT !.status = "superseded", !.paid = paid]

PartPayment(i, paid) ==
    /\ i \in DOMAIN settlements
    /\ settlements[i].status = "proposed"
    /\ paid \in Nat /\ paid < settlements[i].amount
    /\ settlements' = Append([settlements EXCEPT ![i] = Closed(i, paid)],
                             Remainder(i, paid))

LEMMA PaysInPart ==
  ASSUME TypeOK, NEW u \in Members, NEW i \in 1 .. MaxSettlements, NEW a \in Amounts,
         payInPart(u, i, a)
  PROVE  TypeOK' /\ PartPayment(i, a)
<1>1. /\ i \in DOMAIN settlements /\ i \in Nat
      /\ settlements \in Seq(Settlement)
      /\ settlements[i].status = "proposed"
      /\ a \in Nat /\ a < settlements[i].amount
  BY AmountsAssumption, BoundsAssumption DEF payInPart, TypeOK
<1>2. settlements[i] \in Settlement
  BY <1>1
<1>3. Remainder(i, a) \in Settlement
  <2> DEFINE s == settlements[i]
  <2>1. s \in Settlement /\ a < s.amount
    BY <1>1, <1>2
  <2> HIDE DEF s
  <2>2. RestOf(s, s.amount - a, i) \in Settlement
    BY <1>1, <2>1, Rest, SomeIsLeft
  <2> QED
    BY <2>2, RemainderIsRest DEF s
<1>4. Closed(i, a) \in Settlement
  BY <1>1, <1>2, Superseded DEF Closed
<1>5. [settlements EXCEPT ![i].status = "superseded", ![i].paid = a]
        = [settlements EXCEPT ![i] = Closed(i, a)]
  BY <1>1 DEF Closed
<1>6. settlements' = Append([settlements EXCEPT ![i] = Closed(i, a)], Remainder(i, a))
  BY <1>5 DEF payInPart
<1>7. settlements' \in Seq(Settlement)
  <2>1. [settlements EXCEPT ![i] = Closed(i, a)] \in Seq(Settlement)
    BY <1>1, <1>4
  <2> QED
    BY <1>3, <1>6, <2>1
<1> QED
  BY <1>1, <1>6, <1>7, RefreshTypes DEF payInPart, PartPayment, TypeOK

(***************************************************************************)
(* Every step keeps the types, and changes settlements in one of the three *)
(* ways or not at all.                                                     *)
(***************************************************************************)
Change ==
    \/ settlements' = settlements
    \/ \E s : Proposal(s)
    \/ \E i, to : Move(i, to)
    \/ \E i, paid : PartPayment(i, paid)

LEMMA Steps == TypeOK /\ [Next]_vars => TypeOK' /\ Change
<1> SUFFICES ASSUME TypeOK, [Next]_vars PROVE TypeOK' /\ Change
  OBVIOUS
<1>1. CASE UNCHANGED vars
  BY <1>1 DEF vars, TypeOK, Change
<1>2. CASE Next
  <2>1. PICK u \in Members :
          \/ \E x \in Expenses, payer \in Members, splits \in EvenSplits :
                \/ \E c \in StoredCurrencies : createGroupExpense(u, x, payer, c, splits)
                \/ updateGroupExpense(u, x, payer, splits)
          \/ \E x \in Expenses : deleteGroupExpense(u, x)
          \/ \E c \in Currencies : updateGroupSettings(u, c)
          \/ OpenGroup(u)
          \/ \E p \in Pairs, a \in Amounts : proposeSettlement(u, p, a)
          \/ \E i \in 1 .. MaxSettlements :
                \/ markSettlementAsPaid(u, i)
                \/ \E a \in Amounts : payInPart(u, i, a)
                \/ acceptSettlement(u, i)
                \/ rejectSettlement(u, i)
                \/ cancelSettlement(u, i)
    BY <1>2 DEF Next
  <2>2. CASE \E x \in Expenses, payer \in Members, splits \in EvenSplits :
                \/ \E c \in StoredCurrencies : createGroupExpense(u, x, payer, c, splits)
                \/ updateGroupExpense(u, x, payer, splits)
    BY <2>2, ExpenseTypes DEF Change
  <2>3. CASE \E x \in Expenses : deleteGroupExpense(u, x)
    BY <2>3, DeletionTypes DEF Change
  <2>4. CASE \/ \E c \in Currencies : updateGroupSettings(u, c)
             \/ OpenGroup(u)
    BY <2>4, CurrencyTypes DEF Change
  <2>5. CASE \E p \in Pairs, a \in Amounts : proposeSettlement(u, p, a)
    BY <2>5, Proposes DEF Change
  <2>6. CASE \E i \in 1 .. MaxSettlements, a \in Amounts : payInPart(u, i, a)
    BY <2>6, PaysInPart DEF Change
  <2>7. CASE \E i \in 1 .. MaxSettlements :
                \/ markSettlementAsPaid(u, i)
                \/ acceptSettlement(u, i)
                \/ rejectSettlement(u, i)
                \/ cancelSettlement(u, i)
    <3>1. PICK i : /\ \E to : Move(i, to)
                   /\ Refresh(u)
                   /\ UNCHANGED <<expenses, groupCurrency, edits>>
      BY <2>7, Transitions
    <3> QED
      BY <3>1, MovesType DEF Change
  <2> QED
    BY <2>1, <2>2, <2>3, <2>4, <2>5, <2>6, <2>7
<1> QED
  BY <1>1, <1>2

\* The blob holds well-formed expenses and settlements and the tabs believe in
\* a currency, after every history of operations.
THEOREM SettlementTypes == Spec => []TypeOK
<1>1. TypeOK /\ [Next]_vars => TypeOK'
  BY Steps
<1> QED
  BY TypeInit, <1>1, PTL DEF Spec

(***************************************************************************)
(* What each change leaves behind, settlement by settlement.               *)
(***************************************************************************)
Terms == {"from", "to", "amount", "currency", "of"}

LEMMA ProposalEffect ==
  ASSUME TypeOK, NEW s, Proposal(s)
  PROVE  /\ Len(settlements') = Len(settlements) + 1
         /\ \A j \in 1 .. Len(settlements) : settlements'[j] = settlements[j]
         /\ settlements'[Len(settlements) + 1] = s
  BY DEF Proposal, TypeOK

LEMMA MoveEffect ==
  ASSUME TypeOK, NEW i, NEW to, Move(i, to)
  PROVE  /\ Len(settlements') = Len(settlements)
         /\ i \in 1 .. Len(settlements)
         /\ \A j \in 1 .. Len(settlements) : j # i => settlements'[j] = settlements[j]
         /\ settlements'[i].status = to
         /\ settlements'[i].paid = settlements[i].paid
         /\ \A f \in Terms : settlements'[i][f] = settlements[i][f]
<1> DEFINE new == [settlements[i] EXCEPT !.status = to]
<1>1. settlements \in Seq(Settlement) /\ i \in 1 .. Len(settlements)
  BY DEF Move, TypeOK
<1>2. to \in Statuses /\ settlements[i] \in Settlement
  BY <1>1 DEF Move, Statuses
<1>3. /\ new.status = to
      /\ \A f \in {"from", "to", "amount", "currency", "of", "paid"} :
            new[f] = settlements[i][f]
  BY <1>2, NewStatus
<1>4. settlements' = [settlements EXCEPT ![i] = new]
  BY DEF Move
<1> HIDE DEF new
<1>5. /\ Len(settlements') = Len(settlements)
      /\ \A j \in 1 .. Len(settlements) : j # i => settlements'[j] = settlements[j]
      /\ settlements'[i] = new
  BY <1>1, <1>4
<1>6. settlements'[i].status = to /\ settlements'[i].paid = settlements[i].paid
  BY <1>3, <1>5
<1>7. \A f \in Terms : settlements'[i][f] = settlements[i][f]
  BY <1>3, <1>5 DEF Terms
<1> QED
  BY <1>1, <1>5, <1>6, <1>7

LEMMA PartPaymentEffect ==
  ASSUME TypeOK, NEW i, NEW paid, PartPayment(i, paid)
  PROVE  LET n == Len(settlements)
         IN  /\ Len(settlements') = n + 1
             /\ i \in 1 .. n
             /\ \A j \in 1 .. n : j # i => settlements'[j] = settlements[j]
             /\ settlements'[i].status = "superseded"
             /\ settlements'[i].paid = paid
             /\ \A f \in Terms : settlements'[i][f] = settlements[i][f]
             /\ settlements'[n + 1].status = "proposed"
             /\ settlements'[n + 1].of = i
             /\ settlements'[n + 1].amount + paid = settlements[i].amount
             /\ \A f \in {"from", "to", "currency"} :
                   settlements'[n + 1][f] = settlements[i][f]
<1> DEFINE n == Len(settlements)
           s == settlements[i]
<1>1. settlements \in Seq(Settlement) /\ i \in 1 .. n /\ n \in Nat
  BY DEF PartPayment, TypeOK
<1>2. s \in Settlement /\ s.status = "proposed" /\ paid \in Nat /\ paid < s.amount
  BY <1>1 DEF PartPayment
<1> HIDE DEF s
<1> DEFINE c == [s EXCEPT !.status = "superseded", !.paid = paid]
           r == RestOf(s, s.amount - paid, i)
<1>3. /\ c \in Settlement
      /\ c.status = "superseded" /\ c.paid = paid
      /\ \A f \in Terms : c[f] = s[f]
  BY <1>2, Superseded DEF Terms
<1>4. /\ r \in Settlement
      /\ r.amount + paid = s.amount /\ r.of = i
      /\ \A f \in {"from", "to", "currency", "status", "paid"} : r[f] = s[f]
  <2>1. i \in Nat
    BY <1>1
  <2>2. paid \in Nat /\ paid < s.amount /\ s \in Settlement
    BY <1>2
  <2> QED
    BY <2>1, <2>2, Rest, SomeIsLeft
<1>5. settlements' = Append([settlements EXCEPT ![i] = c], r)
  BY RemainderIsRest DEF PartPayment, Closed, s
<1> HIDE DEF c, r
<1>6. /\ Len(settlements') = n + 1
      /\ \A j \in 1 .. n : j # i => settlements'[j] = settlements[j]
      /\ settlements'[i] = c
      /\ settlements'[n + 1] = r
  <2>1. [settlements EXCEPT ![i] = c] \in Seq(Settlement)
    BY <1>1, <1>3
  <2> QED
    BY <1>1, <1>5, <2>1
<1>7. settlements'[n + 1].status = "proposed"
  BY <1>2, <1>4, <1>6
<1>8. \A f \in {"from", "to", "currency"} : settlements'[n + 1][f] = s[f]
  BY <1>4, <1>6
<1> QED
  BY <1>1, <1>3, <1>4, <1>6, <1>7, <1>8 DEF s

(***************************************************************************)
(* OneOpenProposal.  A proposal is made where none is open; a payment in   *)
(* part closes the only open one before it opens another.                  *)
(***************************************************************************)
LEMMA OneOpenStep == TypeOK /\ OneOpenProposal /\ Change => OneOpenProposal'
<1> SUFFICES ASSUME TypeOK, OneOpenProposal, Change,
                    NEW i \in DOMAIN settlements', NEW j \in DOMAIN settlements',
                    settlements'[i].status = "proposed",
                    settlements'[j].status = "proposed",
                    settlements'[i].from = settlements'[j].from,
                    settlements'[i].to = settlements'[j].to
             PROVE  i = j
  BY DEF OneOpenProposal
<1> DEFINE n == Len(settlements)
<1>0. settlements \in Seq(Settlement) /\ n \in Nat /\ DOMAIN settlements = 1 .. n
  BY DEF TypeOK
<1>1. CASE settlements' = settlements
  BY <1>1 DEF OneOpenProposal
<1>2. ASSUME NEW s, Proposal(s) PROVE i = j
  <2>1. DOMAIN settlements' = 1 .. n + 1
    BY <1>0, <1>2 DEF Proposal
  <2>2. \A k \in 1 .. n : settlements[k].status = "proposed"
                          => ~(settlements[k].from = s.from /\ settlements[k].to = s.to)
    BY <1>0, <1>2 DEF Proposal, DuplicateProposal
  <2> QED
    BY <1>0, <1>2, <2>1, <2>2, ProposalEffect DEF OneOpenProposal
<1>3. ASSUME NEW k, NEW to, Move(k, to) PROVE i = j
  <2>1. DOMAIN settlements' = 1 .. n
    BY <1>0, <1>3 DEF Move
  <2>2. to # "proposed"
    BY <1>3 DEF Move
  <2>3. i # k /\ j # k
    BY <1>3, <2>2, MoveEffect
  <2> QED
    BY <1>0, <1>3, <2>1, <2>3, MoveEffect DEF OneOpenProposal
<1>4. ASSUME NEW k, NEW paid, PartPayment(k, paid) PROVE i = j
  <2>1. DOMAIN settlements' = 1 .. n + 1
    BY <1>0, <1>4 DEF PartPayment
  <2>2. /\ k \in 1 .. n
        /\ settlements'[k].status = "superseded"
        /\ \A l \in 1 .. n : l # k => settlements'[l] = settlements[l]
        /\ settlements'[n + 1].from = settlements[k].from
        /\ settlements'[n + 1].to = settlements[k].to
    BY <1>4, PartPaymentEffect
  <2>3. settlements[k].status = "proposed"
    BY <1>4 DEF PartPayment
  <2>4. i # k /\ j # k
    BY <2>2
  <2>5. ASSUME NEW l \in 1 .. n, l # k, settlements[l].status = "proposed"
        PROVE  ~(settlements[l].from = settlements[k].from
                 /\ settlements[l].to = settlements[k].to)
    BY <1>0, <2>2, <2>3, <2>5 DEF OneOpenProposal
  <2>6. CASE i \in 1 .. n /\ j \in 1 .. n
    BY <1>0, <2>2, <2>4, <2>6 DEF OneOpenProposal
  <2>7. CASE i = n + 1 \/ j = n + 1
    BY <1>0, <2>1, <2>2, <2>4, <2>5, <2>7
  <2> QED
    BY <1>0, <2>1, <2>6, <2>7
<1> QED
  BY <1>1, <1>2, <1>3, <1>4 DEF Change

LEMMA OneOpenInit == Init => OneOpenProposal
<1> SUFFICES ASSUME Init PROVE OneOpenProposal
  OBVIOUS
<1>1. \A i, j \in DOMAIN settlements : i = j
  <2>1. CASE settlements = <<>>
    BY <2>1
  <2>2. CASE settlements \in {<<s>> : s \in Legacy}
    BY <2>2
  <2> QED
    BY <2>1, <2>2 DEF Init
<1> QED
  BY <1>1 DEF OneOpenProposal

\* findDuplicateProposal and the order of markAsPaid keep one open proposal
\* per debtor and creditor, for any group and any history.
THEOREM NoDuplicateProposals == Spec => []OneOpenProposal
<1>1. Init => TypeOK /\ OneOpenProposal
  BY TypeInit, OneOpenInit
<1>2. (TypeOK /\ OneOpenProposal) /\ [Next]_vars => (TypeOK /\ OneOpenProposal)'
  BY Steps, OneOpenStep
<1> QED
  BY <1>1, <1>2, PTL DEF Spec

(***************************************************************************)
(* SupersededOnce.  A new remainder is the last settlement and refers to   *)
(* an earlier one, so that nothing refers to a settlement yet to come: the *)
(* strengthening that makes the invariant inductive.                       *)
(***************************************************************************)
RefersBack == \A j \in DOMAIN settlements : settlements[j].of < j

LEMMA RefersBackInit == Init => RefersBack /\ SupersededOnce
<1> SUFFICES ASSUME Init PROVE RefersBack /\ SupersededOnce
  OBVIOUS
<1>1. \A j \in DOMAIN settlements :
          j = 1 /\ settlements[j].of = 0 /\ settlements[j].status = "approved"
  <2>1. CASE settlements = <<>>
    BY <2>1
  <2>2. CASE settlements \in {<<s>> : s \in Legacy}
    <3>1. PICK s \in Legacy : settlements = <<s>>
      BY <2>2
    <3>2. s.of = 0 /\ s.status = "approved"
      BY DEF Legacy
    <3> QED
      BY <3>1, <3>2
  <2> QED
    BY <2>1, <2>2 DEF Init
<1> QED
  BY <1>1 DEF RefersBack, SupersededOnce

LEMMA RefersBackStep == TypeOK /\ RefersBack /\ Change => RefersBack'
<1> SUFFICES ASSUME TypeOK, RefersBack, Change, NEW j \in DOMAIN settlements'
             PROVE  settlements'[j].of < j
  BY DEF RefersBack
<1> DEFINE n == Len(settlements)
<1>0. settlements \in Seq(Settlement) /\ n \in Nat /\ DOMAIN settlements = 1 .. n
  BY DEF TypeOK
<1>1. CASE settlements' = settlements
  BY <1>1 DEF RefersBack
<1>2. ASSUME NEW s, Proposal(s) PROVE settlements'[j].of < j
  <2>1. DOMAIN settlements' = 1 .. n + 1 /\ s.of = 0
    BY <1>0, <1>2 DEF Proposal
  <2> QED
    BY <1>0, <1>2, <2>1, ProposalEffect DEF RefersBack
<1>3. ASSUME NEW k, NEW to, Move(k, to) PROVE settlements'[j].of < j
  <2>1. DOMAIN settlements' = 1 .. n
    BY <1>0, <1>3 DEF Move
  <2>2. settlements'[j].of = settlements[j].of
    BY <1>3, <2>1, MoveEffect DEF Terms
  <2> QED
    BY <1>0, <2>1, <2>2 DEF RefersBack
<1>4. ASSUME NEW k, NEW paid, PartPayment(k, paid) PROVE settlements'[j].of < j
  <2>1. DOMAIN settlements' = 1 .. n + 1
    BY <1>0, <1>4 DEF PartPayment
  <2>2. j \in 1 .. n => settlements'[j].of = settlements[j].of
    BY <1>4, PartPaymentEffect DEF Terms
  <2>3. settlements'[n + 1].of = k /\ k \in 1 .. n
    BY <1>4, PartPaymentEffect
  <2> QED
    BY <1>0, <2>1, <2>2, <2>3 DEF RefersBack
<1> QED
  BY <1>1, <1>2, <1>3, <1>4 DEF Change

\* What SupersededOnce says of one settlement.
Rests(j) == {i \in DOMAIN settlements : settlements[i].of = j}

Accounted(j) ==
    IF settlements[j].status = "superseded"
    THEN \E i \in Rests(j) :
            /\ Rests(j) = {i}
            /\ settlements[i].amount + settlements[j].paid = settlements[j].amount
            /\ \A f \in {"from", "to", "currency"} : settlements[i][f] = settlements[j][f]
    ELSE Rests(j) = {}

LEMMA AccountedFor == SupersededOnce <=> \A j \in DOMAIN settlements : Accounted(j)
  BY DEF SupersededOnce, Accounted, Rests

\* A settlement stays accounted for if it and the settlements it refers to
\* keep their terms, and no other one starts to refer to it.
LEMMA StaysAccounted ==
  ASSUME NEW j \in DOMAIN settlements, Accounted(j), Rests(j)' = Rests(j),
         settlements'[j].status = "superseded" <=> settlements[j].status = "superseded",
         settlements'[j].paid = settlements[j].paid,
         \A i \in Rests(j) \cup {j} : \A f \in Terms : settlements'[i][f] = settlements[i][f]
  PROVE  Accounted(j)'
<1>1. CASE settlements[j].status = "superseded"
  <2>1. PICK i \in Rests(j) :
          /\ Rests(j) = {i}
          /\ settlements[i].amount + settlements[j].paid = settlements[j].amount
          /\ \A f \in {"from", "to", "currency"} : settlements[i][f] = settlements[j][f]
    BY <1>1 DEF Accounted
  <2>2. /\ settlements'[i].amount = settlements[i].amount
        /\ settlements'[j].amount = settlements[j].amount
        /\ \A f \in {"from", "to", "currency"} :
              /\ settlements'[i][f] = settlements[i][f]
              /\ settlements'[j][f] = settlements[j][f]
    BY DEF Terms
  <2> QED
    BY <1>1, <2>1, <2>2 DEF Accounted
<1>2. CASE settlements[j].status # "superseded"
  BY <1>2 DEF Accounted
<1> QED
  BY <1>1, <1>2

LEMMA SupersededStep ==
  TypeOK /\ RefersBack /\ SupersededOnce /\ Change => SupersededOnce'
<1> SUFFICES ASSUME TypeOK, RefersBack, SupersededOnce, Change,
                    NEW j \in DOMAIN settlements'
             PROVE  Accounted(j)'
  BY DEF SupersededOnce, Accounted, Rests
<1> DEFINE n == Len(settlements)
<1>0. settlements \in Seq(Settlement) /\ n \in Nat /\ DOMAIN settlements = 1 .. n
  BY DEF TypeOK
<1>a. \A k \in 1 .. n : Accounted(k)
  BY <1>0, AccountedFor
<1>b. Rests(n + 1) = {}
  BY <1>0 DEF Rests, RefersBack
<1>1. CASE settlements' = settlements
  BY <1>0, <1>1, <1>a DEF Accounted, Rests
<1>2. ASSUME NEW s, Proposal(s) PROVE Accounted(j)'
  <2>1. DOMAIN settlements' = 1 .. n + 1 /\ s.of = 0 /\ s.status = "proposed"
    BY <1>0, <1>2 DEF Proposal
  <2>2. /\ \A k \in 1 .. n : settlements'[k] = settlements[k]
        /\ settlements'[n + 1] = s
    BY <1>2, ProposalEffect
  <2>3. ASSUME NEW k \in 1 .. n + 1 PROVE Rests(k)' = Rests(k)
    BY <1>0, <2>1, <2>2 DEF Rests
  <2>4. CASE j = n + 1
    BY <1>b, <2>1, <2>2, <2>3, <2>4 DEF Accounted
  <2>5. CASE j \in 1 .. n
    <3>1. \A i \in Rests(j) \cup {j} : settlements'[i] = settlements[i]
      BY <1>0, <2>2, <2>5 DEF Rests
    <3> QED
      BY <1>0, <1>a, <2>1, <2>3, <2>5, <3>1, StaysAccounted
  <2> QED
    BY <1>0, <2>1, <2>4, <2>5
<1>3. ASSUME NEW k, NEW to, Move(k, to) PROVE Accounted(j)'
  <2>1. DOMAIN settlements' = 1 .. n
    BY <1>0, <1>3 DEF Move
  <2>2. /\ settlements[k].status # "superseded" /\ to # "superseded"
        /\ k \in 1 .. n
    BY <1>0, <1>3 DEF Move
  <2>3. /\ \A i \in 1 .. n : i # k => settlements'[i] = settlements[i]
        /\ settlements'[k].status = to /\ settlements'[k].paid = settlements[k].paid
        /\ \A f \in Terms : settlements'[k][f] = settlements[k][f]
    BY <1>3, MoveEffect
  <2>4. \A i \in 1 .. n : \A f \in Terms : settlements'[i][f] = settlements[i][f]
    BY <2>3
  <2>5. Rests(j)' = Rests(j)
    BY <1>0, <2>1, <2>4 DEF Rests, Terms
  <2>6. settlements'[j].status = "superseded" <=> settlements[j].status = "superseded"
    BY <2>1, <2>2, <2>3
  <2>7. settlements'[j].paid = settlements[j].paid
    BY <2>1, <2>3
  <2>8. \A i \in Rests(j) \cup {j} : i \in 1 .. n
    BY <1>0, <2>1 DEF Rests
  <2> QED
    BY <1>0, <1>a, <2>1, <2>4, <2>5, <2>6, <2>7, <2>8, StaysAccounted
<1>4. ASSUME NEW k, NEW paid, PartPayment(k, paid) PROVE Accounted(j)'
  <2>1. DOMAIN settlements' = 1 .. n + 1
    BY <1>0, <1>4 DEF PartPayment
  <2>2. settlements[k].status = "proposed"
    BY <1>4 DEF PartPayment
  <2>3. /\ k \in 1 .. n
        /\ \A i \in 1 .. n : i # k => settlements'[i] = settlements[i]
        /\ settlements'[k].status = "superseded" /\ settlements'[k].paid = paid
        /\ \A f \in Terms : settlements'[k][f] = settlements[k][f]
        /\ settlements'[n + 1].status = "proposed"
        /\ settlements'[n + 1].of = k
        /\ settlements'[n + 1].amount + paid = settlements[k].amount
        /\ \A f \in {"from", "to", "currency"} :
              settlements'[n + 1][f] = settlements[k][f]
    BY <1>4, PartPaymentEffect
  <2>4. \A i \in 1 .. n : \A f \in Terms : settlements'[i][f] = settlements[i][f]
    BY <2>3
  <2>5. \A i \in 1 .. n : settlements'[i].of = settlements[i].of
    BY <2>4 DEF Terms
  <2>6. CASE j = k
    <3>1. Rests(k) = {}
      BY <1>a, <2>2, <2>3 DEF Accounted
    <3>2. Rests(k)' = {n + 1}
      <4>1. \A i \in 1 .. n : settlements'[i].of # k
        BY <1>0, <2>5, <3>1 DEF Rests
      <4>2. n + 1 \in 1 .. n + 1 /\ \A i \in 1 .. n + 1 : i \in 1 .. n \/ i = n + 1
        BY <1>0
      <4> QED
        BY <2>1, <2>3, <4>1, <4>2 DEF Rests
    <3>3. settlements'[k].amount = settlements[k].amount
      BY <2>3 DEF Terms
    <3>4. \A f \in {"from", "to", "currency"} : settlements'[n + 1][f] = settlements'[k][f]
      BY <2>3 DEF Terms
    <3> QED
      BY <2>3, <2>6, <3>2, <3>3, <3>4 DEF Accounted
  <2>7. CASE j = n + 1
    <3>1. Rests(j) = {}
      BY <1>b, <2>7
    <3>2. Rests(j)' = {}
      BY <1>0, <2>1, <2>3, <2>5, <2>7, <3>1 DEF Rests
    <3> QED
      BY <2>3, <2>7, <3>2 DEF Accounted
  <2>8. CASE j \in 1 .. n /\ j # k
    <3>1. Rests(j)' = Rests(j)
      BY <1>0, <2>1, <2>3, <2>5, <2>8 DEF Rests
    <3>2. \A i \in Rests(j) \cup {j} : i \in 1 .. n
      BY <1>0, <2>8 DEF Rests
    <3>3. settlements'[j] = settlements[j]
      BY <2>3, <2>8
    <3> QED
      BY <1>0, <1>a, <2>4, <2>8, <3>1, <3>2, <3>3, StaysAccounted
  <2> QED
    BY <1>0, <2>1, <2>6, <2>7, <2>8
<1> QED
  BY <1>1, <1>2, <1>3, <1>4 DEF Change

\* Chains of partial payments account for every cent of the settlement they
\* start from, for any amounts and any history: no part is asked for twice.
THEOREM PartsAddUp == Spec => []SupersededOnce
<1> DEFINE IInv == TypeOK /\ RefersBack /\ SupersededOnce
<1>1. Init => IInv
  BY TypeInit, RefersBackInit
<1>2. IInv /\ [Next]_vars => IInv'
  BY Steps, RefersBackStep, SupersededStep
<1> QED
  BY <1>1, <1>2, PTL DEF Spec

(***************************************************************************)
(* LifeCycle.                                                              *)
(***************************************************************************)
LEMMA LifeCycleStep ==
  ASSUME TypeOK, Change, NEW i \in DOMAIN settlements
  PROVE  /\ Len(settlements') >= Len(settlements)
         /\ \A f \in Terms : settlements'[i][f] = settlements[i][f]
         /\ settlements[i].status \in Final => settlements'[i] = settlements[i]
         /\ settlements'[i].status = "approved"
               => settlements[i].status \in {"marked_paid", "approved"}
<1> DEFINE n == Len(settlements)
<1>0. settlements \in Seq(Settlement) /\ n \in Nat /\ i \in 1 .. n
  BY DEF TypeOK
<1> DEFINE Kept == /\ Len(settlements') >= n
                   /\ \A f \in Terms : settlements'[i][f] = settlements[i][f]
                   /\ settlements[i].status \in Final => settlements'[i] = settlements[i]
                   /\ settlements'[i].status = "approved"
                         => settlements[i].status \in {"marked_paid", "approved"}
<1>1. CASE settlements' = settlements
  BY <1>0, <1>1
<1>2. ASSUME NEW s, Proposal(s) PROVE Kept
  BY <1>0, <1>2, ProposalEffect
<1>3. ASSUME NEW k, NEW to, Move(k, to) PROVE Kept
  <2>1. /\ settlements[k].status \notin Final
        /\ to = "approved" => settlements[k].status = "marked_paid"
    BY <1>3 DEF Move, Final
  <2> QED
    BY <1>0, <1>3, <2>1, MoveEffect
<1>4. ASSUME NEW k, NEW paid, PartPayment(k, paid) PROVE Kept
  <2>1. settlements[k].status \notin Final
    BY <1>4 DEF PartPayment, Final
  <2> QED
    BY <1>0, <1>4, <2>1, PartPaymentEffect
<1> QED
  BY <1>1, <1>2, <1>3, <1>4 DEF Change

\* No history of operations removes a settlement, changes what was agreed on,
\* leaves a final status, or approves what the debtor did not mark as paid.
THEOREM LifeCycleHolds == Spec => LifeCycle
<1> DEFINE Keeps ==
      /\ Len(settlements') >= Len(settlements)
      /\ \A i \in DOMAIN settlements :
            LET old == settlements[i]
                new == settlements'[i]
            IN  /\ \A f \in {"from", "to", "amount", "currency", "of"} : new[f] = old[f]
                /\ old.status \in Final => new = old
                /\ new.status = "approved" => old.status \in {"marked_paid", "approved"}
<1>1. TypeOK /\ [Next]_vars => TypeOK'
  BY Steps
<1>2. TypeOK /\ [Next]_vars => [Keeps]_vars
  <2> SUFFICES ASSUME TypeOK, [Next]_vars PROVE Keeps
    OBVIOUS
  <2>0. TypeOK'
    BY Steps
  <2>1. Change
    BY Steps
  <2>2. Len(settlements') >= Len(settlements)
    <3>1. settlements \in Seq(Settlement) /\ settlements' \in Seq(Settlement)
      BY <2>0 DEF TypeOK
    <3>2. CASE settlements = <<>>
      <4>1. Len(settlements) = 0 /\ Len(settlements') \in Nat
        BY <3>1, <3>2
      <4> QED
        BY <4>1
    <3>3. CASE settlements # <<>>
      <4>1. 1 \in DOMAIN settlements
        BY <3>1, <3>3
      <4> QED
        BY <2>1, <4>1, LifeCycleStep
    <3> QED
      BY <3>2, <3>3
  <2> QED
    BY <2>1, <2>2, LifeCycleStep DEF Terms
<1> QED
  BY TypeInit, <1>1, <1>2, PTL DEF Spec, LifeCycle

-----------------------------------------------------------------------------
(* Tables of debts.                                                        *)
DebtTables == [Buckets -> [Pairs -> Nat]]

\* What m is owed by o in d, over all buckets, and what m is owed by everybody.
Gap(d, m, o) == [c \in Buckets |-> d[c][<<o, m>>] - d[c][<<m, o>>]]
OwedBy(d, m, o) == SumFunction(Gap(d, m, o))
Owed(d, m) == SumFunction([o \in Members |-> OwedBy(d, m, o)])

LEMMA BucketsAreFinite == IsFiniteSet(Buckets) /\ IsFiniteSet(Members)
  BY CurrenciesAssumption, MembersAssumption, FS_AddElement DEF Buckets

LEMMA TableEntry ==
    ASSUME NEW d \in DebtTables, NEW c \in Buckets, NEW a \in Members, NEW b \in Members
    PROVE  <<a, b>> \in Pairs /\ d[c][<<a, b>>] \in Nat /\ d[c] \in [Pairs -> Nat]
  BY DEF DebtTables, Pairs

LEMMA PairIs ==
    ASSUME NEW p \in Pairs
    PROVE  p[1] \in Members /\ p[2] \in Members /\ p = <<p[1], p[2]>> /\ Back(p) = <<p[2], p[1]>> /\ Back(p) \in Pairs
  BY DEF Pairs, Back

LEMMA OwedByIsInt ==
    ASSUME NEW d \in DebtTables, NEW m \in Members, NEW o \in Members
    PROVE  Gap(d, m, o) \in [Buckets -> Int] /\ OwedBy(d, m, o) \in Int
<1>1. \A c \in Buckets : d[c][<<o, m>>] \in Nat /\ d[c][<<m, o>>] \in Nat
  BY TableEntry
<1>2. PICK f : f = Gap(d, m, o)
  OBVIOUS
<1>3. f \in [Buckets -> Int]
  BY <1>1, <1>2 DEF Gap
<1>4. SumFunction(f) \in Int
  BY <1>3, BucketsAreFinite, SumIsInt
<1> QED
  BY <1>2, <1>3, <1>4 DEF OwedBy

LEMMA OwedIsInt ==
    ASSUME NEW d \in DebtTables, NEW m \in Members
    PROVE  [o \in Members |-> OwedBy(d, m, o)] \in [Members -> Int] /\ Owed(d, m) \in Int
<1>1. PICK f : f = [o \in Members |-> OwedBy(d, m, o)]
  OBVIOUS
<1>2. f \in [Members -> Int]
  BY <1>1, OwedByIsInt
<1>3. SumFunction(f) \in Int
  BY <1>2, BucketsAreFinite, SumIsInt
<1> QED
  BY <1>1, <1>2, <1>3 DEF Owed

-----------------------------------------------------------------------------
(* One settlement.                                                         *)
LEMMA BucketIs == ASSUME NEW d, NEW s, s.currency \in Buckets PROVE BucketOf(d, s) \in Buckets
<1> DEFINE others == {c \in Currencies : HasDebt(d, c)}
<1>1. ASSUME Cardinality(others) = 1 PROVE (CHOOSE c \in others : TRUE) \in Buckets
  <2>1. others # {}
    BY <1>1, FS_EmptySet
  <2>2. (CHOOSE c \in others : TRUE) \in others
    BY <2>1
  <2> QED
    BY <2>2 DEF Buckets
<1> QED
  BY <1>1 DEF BucketOf

\* What a settlement of a by from f to t adds to what m is owed.
Sent(a, f, t, m) == (IF f = m THEN a ELSE 0) - (IF t = m THEN a ELSE 0)

LEMMA PositiveIs ==
    ASSUME NEW n \in Int
    PROVE  Positive(n) \in Nat /\ Positive(-n) \in Nat /\ Positive(n) - Positive(-n) = n
  BY DEF Positive

SettledBucket(b, f, t, a) ==
    [[b EXCEPT ![<<f, t>>] = Positive(b[<<f, t>>] - a)]
       EXCEPT ![<<t, f>>] = @ + Positive(-(b[<<f, t>>] - a))]

Moved(b, e, f, t, a) ==
    \A x, y \in Members :
        e[<<x, y>>] - e[<<y, x>>] = (b[<<x, y>>] - b[<<y, x>>])
            - (IF x = f /\ y = t THEN a ELSE 0) + (IF x = t /\ y = f THEN a ELSE 0)

\* In the bucket of the settlement, between any two members.
LEMMA SettleBucket ==
    ASSUME NEW b \in [Pairs -> Nat], NEW f \in Members, NEW t \in Members, NEW a \in Nat,
           NEW e, e = SettledBucket(b, f, t, a)
    PROVE  e \in [Pairs -> Nat] /\ Moved(b, e, f, t, a)
<1>1. \A x, y \in Members : <<x, y>> \in Pairs
  BY DEF Pairs
<1>12. PICK owed \in Pairs : owed = <<f, t>>
  BY <1>1
<1>13. PICK back \in Pairs : back = <<t, f>>
  BY <1>1
<1>14. \A x, y : (<<x, y>> = owed <=> x = f /\ y = t) /\ (<<x, y>> = back <=> x = t /\ y = f)
  BY <1>12, <1>13
<1>2. PICK left \in Int : left = b[owed] - a
  OBVIOUS
<1>3. PICK up \in Nat, down \in Nat : up = Positive(left) /\ down = Positive(-left) /\ up - down = left
  BY PositiveIs
<1>4. Positive(b[<<f, t>>] - a) = up /\ Positive(-(b[<<f, t>>] - a)) = down
  BY <1>12, <1>2, <1>3
<1>5. PICK h : h = [b EXCEPT ![owed] = up]
  OBVIOUS
<1>6. h \in [Pairs -> Nat] /\ \A p \in Pairs : h[p] = IF p = owed THEN up ELSE b[p]
  BY <1>5
<1>7. e = [h EXCEPT ![back] = h[back] + down]
  BY <1>4, <1>5, <1>12, <1>13 DEF SettledBucket
<1>8. PICK sum \in Nat : sum = h[back] + down
  BY <1>6
<1>9. e \in [Pairs -> Nat] /\ \A p \in Pairs : e[p] = IF p = back THEN sum ELSE h[p]
  BY <1>6, <1>7, <1>8
<1>10. ASSUME NEW x \in Members, NEW y \in Members
       PROVE  e[<<x, y>>] - e[<<y, x>>] = (b[<<x, y>>] - b[<<y, x>>])
                  - (IF x = f /\ y = t THEN a ELSE 0) + (IF x = t /\ y = f THEN a ELSE 0)
  <2>5. PICK p \in Pairs : p = <<x, y>>
    BY <1>1
  <2>6. PICK q \in Pairs : q = <<y, x>>
    BY <1>1
  <2>1. /\ p = owed <=> x = f /\ y = t
        /\ p = back <=> x = t /\ y = f
        /\ q = owed <=> x = t /\ y = f
        /\ q = back <=> x = f /\ y = t
    <3>1. (<<x, y>> = owed <=> x = f /\ y = t) /\ (<<x, y>> = back <=> x = t /\ y = f)
      BY <1>14, Zenon
    <3>2. (<<y, x>> = owed <=> y = f /\ x = t) /\ (<<y, x>> = back <=> y = t /\ x = f)
      BY <1>14, Zenon
    <3> QED
      BY <3>1, <3>2, <2>5, <2>6
  <2>2. b[p] \in Nat /\ b[q] \in Nat /\ b[owed] \in Nat /\ e[p] \in Nat /\ e[q] \in Nat
    BY <1>9
  <2>3. e[p] - e[q] = (b[p] - b[q]) - (IF p = owed THEN a ELSE 0) + (IF p = back THEN a ELSE 0)
    <3>1. up - down = b[owed] - a
      BY <1>2, <1>3
    <3>2. CASE p = owed /\ p # back
      <4>1. q = back /\ q # owed
        BY <2>1, <3>2
      <4>2. e[p] = up /\ e[q] = b[q] + down
        BY <1>6, <1>8, <1>9, <3>2, <4>1
      <4> QED
        BY <2>2, <3>1, <3>2, <4>2
    <3>3. CASE p = back /\ p # owed
      <4>1. q = owed /\ q # back
        BY <2>1, <3>3
      <4>2. e[q] = up /\ e[p] = b[p] + down
        BY <1>6, <1>8, <1>9, <3>3, <4>1
      <4> QED
        BY <2>2, <3>1, <3>3, <4>1, <4>2
    <3>4. CASE p = owed /\ p = back
      <4>1. p = q
        BY <2>1, <2>5, <2>6, <3>4
      <4> QED
        BY <2>2, <3>4, <4>1
    <3>5. CASE p # owed /\ p # back
      <4>1. q # owed /\ q # back
        BY <2>1, <3>5
      <4>2. e[p] = b[p] /\ e[q] = b[q]
        BY <1>6, <1>9, <3>5, <4>1
      <4> QED
        BY <2>2, <3>5, <4>2
    <3> QED
      BY <3>2, <3>3, <3>4, <3>5
  <2>4. /\ (IF p = owed THEN a ELSE 0) = (IF x = f /\ y = t THEN a ELSE 0)
        /\ (IF p = back THEN a ELSE 0) = (IF x = t /\ y = f THEN a ELSE 0)
    BY <2>1
  <2> QED
    BY <2>3, <2>4, <2>5, <2>6
<1> QED
  BY <1>9, <1>10 DEF Moved

\* A settlement moves what its two members are owed, and nothing else.
LEMMA SettleEffect ==
    ASSUME NEW d \in DebtTables, NEW s, s.from \in Members, s.to \in Members, s.currency \in Buckets,
           SettledAmount(s) \in Nat
    PROVE  /\ Settle(d, s) \in DebtTables
           /\ \A m \in Members :
                 Owed(Settle(d, s), m) = Owed(d, m) + Sent(SettledAmount(s), s.from, s.to, m)
<1>1. PICK c \in Buckets : c = BucketOf(d, s)
  BY BucketIs
<1>2. PICK f \in Members, t \in Members, a \in Nat : f = s.from /\ t = s.to /\ a = SettledAmount(s)
  OBVIOUS
<1>3. PICK b \in [Pairs -> Nat] : b = d[c]
  BY TableEntry DEF DebtTables
<1>4. PICK e : e = SettledBucket(b, f, t, a)
  OBVIOUS
<1>5. Settle(d, s) = [d EXCEPT ![c] = e]
  <2>1. Back(<<f, t>>) = <<t, f>>
    BY DEF Back
  <2> QED
    BY <1>1, <1>2, <1>3, <1>4, <2>1 DEF Settle, SettledBucket
<1>6. e \in [Pairs -> Nat] /\ Moved(b, e, f, t, a)
  BY <1>4, SettleBucket
<1>7. PICK n \in DebtTables : /\ n = Settle(d, s)
                              /\ n[c] = e /\ \A k \in Buckets : k # c => n[k] = d[k]
  <2>1. PICK n : n = [d EXCEPT ![c] = e]
    OBVIOUS
  <2>2. n \in DebtTables /\ n[c] = e /\ \A k \in Buckets : k # c => n[k] = d[k]
    <3>1. e \in [Pairs -> Nat]
      BY <1>6
    <3>2. PICK V : V = [Pairs -> Nat]
      OBVIOUS
    <3>3. d \in [Buckets -> V] /\ e \in V
      BY <3>1, <3>2 DEF DebtTables
    <3>4. n \in [Buckets -> V] /\ n[c] = e /\ \A k \in Buckets : k # c => n[k] = d[k]
      BY <2>1, <3>3
    <3> QED
      BY <3>2, <3>4 DEF DebtTables
  <2> QED
    BY <1>5, <2>1, <2>2
<1>8. ASSUME NEW m \in Members PROVE Owed(n, m) = Owed(d, m) + Sent(a, f, t, m)
  <2> DEFINE Take(o) == IF o = f /\ m = t THEN -a ELSE 0
             Give(o) == IF o = t /\ m = f THEN a ELSE 0
  <2>1. ASSUME NEW o \in Members PROVE OwedBy(n, m, o) = OwedBy(d, m, o) + (Take(o) + Give(o))
    <3>1. PICK g \in [Buckets -> Int] : g = Gap(d, m, o)
      BY OwedByIsInt
    <3>2. PICK h \in [Buckets -> Int] : h = Gap(n, m, o)
      BY OwedByIsInt
    <3>3. \A k \in Buckets : k # c => h[k] = g[k]
      BY <1>7, <3>1, <3>2 DEF Gap
    <3>4. h[c] - g[c] = Take(o) + Give(o)
      <4>1. h[c] = e[<<o, m>>] - e[<<m, o>>] /\ g[c] = b[<<o, m>>] - b[<<m, o>>]
        BY <1>3, <1>7, <3>1, <3>2 DEF Gap
      <4>2. h[c] = g[c] - (IF o = f /\ m = t THEN a ELSE 0) + (IF o = t /\ m = f THEN a ELSE 0)
        BY <1>6, <4>1 DEF Moved
      <4>3. h[c] \in Int /\ g[c] \in Int
        OBVIOUS
      <4> QED
        BY <4>2, <4>3
    <3>5. SumFunction(h) = SumFunction(g) + (h[c] - g[c])
      BY <3>3, BucketsAreFinite, SumChange
    <3> QED
      BY <3>1, <3>2, <3>4, <3>5 DEF OwedBy
  <2>2. PICK g \in [Members -> Int] : g = [o \in Members |-> OwedBy(d, m, o)]
    BY OwedIsInt
  <2>3. PICK h \in [Members -> Int] : h = [o \in Members |-> OwedBy(n, m, o)]
    BY OwedIsInt
  <2>4. PICK take : take = [o \in Members |-> Take(o)]
    OBVIOUS
  <2>5. PICK give : give = [o \in Members |-> Give(o)]
    OBVIOUS
  <2>6. PICK both : both = [o \in Members |-> Take(o) + Give(o)]
    OBVIOUS
  <2>7. take \in [Members -> Int] /\ give \in [Members -> Int] /\ both \in [Members -> Int]
    BY <2>4, <2>5, <2>6
  <2>8. SumFunction(take) = take[f]
    <3>1. \A x \in Members : x # f => take[x] = 0
      BY <2>4
    <3> QED
      BY <2>7, <3>1, BucketsAreFinite, SumOfOne
  <2>9. SumFunction(give) = give[t]
    <3>1. \A x \in Members : x # t => give[x] = 0
      BY <2>5
    <3> QED
      BY <2>7, <3>1, BucketsAreFinite, SumOfOne
  <2>10. SumFunction(both) = SumFunction(take) + SumFunction(give)
    <3>1. \A x \in Members : both[x] = take[x] + give[x]
      BY <2>4, <2>5, <2>6
    <3> QED
      BY <2>7, <3>1, BucketsAreFinite, SumAdd
  <2>11. SumFunction(h) = SumFunction(g) + SumFunction(both)
    <3>1. \A x \in Members : h[x] = g[x] + both[x]
      <4> HIDE DEF Take, Give
      <4> QED
        BY <2>1, <2>2, <2>3, <2>6
    <3> QED
      BY <2>7, <3>1, BucketsAreFinite, SumAdd
  <2>12. take[f] + give[t] = Sent(a, f, t, m)
    BY <2>4, <2>5 DEF Sent
  <2> QED
    BY <2>2, <2>3, <2>8, <2>9, <2>10, <2>11, <2>12 DEF Owed
<1> QED
  BY <1>2, <1>7, <1>8

-----------------------------------------------------------------------------
(* Netting.                                                                *)
LEMMA NettedIs ==
    ASSUME NEW b \in [Pairs -> Nat]
    PROVE  /\ Netted(b) \in [Pairs -> Nat]
           /\ \A x, y \in Members : Netted(b)[<<x, y>>] - Netted(b)[<<y, x>>] = b[<<x, y>>] - b[<<y, x>>]
<1>1. ASSUME NEW p \in Pairs
      PROVE  /\ Netted(b)[p] = IF b[p] > 0 /\ b[Back(p)] > 0 THEN Positive(b[p] - b[Back(p)]) ELSE b[p]
             /\ Netted(b)[p] \in Nat
             /\ b[p] \in Nat /\ b[Back(p)] \in Nat
  <2>1. b[p] \in Nat /\ b[Back(p)] \in Nat
    BY PairIs
  <2>2. Netted(b)[p] = IF b[p] > 0 /\ b[Back(p)] > 0 THEN Positive(b[p] - b[Back(p)]) ELSE b[p]
    BY DEF Netted
  <2>3. Positive(b[p] - b[Back(p)]) \in Nat
    BY <2>1, PositiveIs
  <2> QED
    BY <2>1, <2>2, <2>3
<1>2. Netted(b) \in [Pairs -> Nat]
  <2>1. PICK n : n = Netted(b)
    OBVIOUS
  <2>2. n = [p \in Pairs |-> n[p]]
    BY <2>1 DEF Netted
  <2>3. \A p \in Pairs : n[p] \in Nat
    BY <1>1, <2>1
  <2> QED
    BY <2>1, <2>2, <2>3
<1>3. ASSUME NEW x \in Members, NEW y \in Members
      PROVE  Netted(b)[<<x, y>>] - Netted(b)[<<y, x>>] = b[<<x, y>>] - b[<<y, x>>]
  <2>1. PICK p \in Pairs, q \in Pairs : p = <<x, y>> /\ q = <<y, x>> /\ Back(p) = q /\ Back(q) = p
    <3>1. <<x, y>> \in Pairs /\ <<y, x>> \in Pairs
      BY DEF Pairs
    <3>2. Back(<<x, y>>) = <<y, x>> /\ Back(<<y, x>>) = <<x, y>>
      BY DEF Back
    <3> QED
      BY <3>1, <3>2
  <2>2. PICK n \in [Pairs -> Nat] : n = Netted(b)
    BY <1>2
  <2>3. n[p] = IF b[p] > 0 /\ b[q] > 0 THEN Positive(b[p] - b[q]) ELSE b[p]
    BY <1>1, <2>1, <2>2
  <2>4. n[q] = IF b[q] > 0 /\ b[p] > 0 THEN Positive(b[q] - b[p]) ELSE b[q]
    BY <1>1, <2>1, <2>2
  <2>5. b[p] \in Nat /\ b[q] \in Nat
    OBVIOUS
  <2>6. n[p] - n[q] = b[p] - b[q]
    BY <2>3, <2>4, <2>5 DEF Positive
  <2> QED
    BY <2>1, <2>2, <2>6
<1> QED
  BY <1>2, <1>3

-----------------------------------------------------------------------------
(* All settlements, in their order.                                        *)
Settles(s) == /\ s.from \in Members /\ s.to \in Members /\ s.currency \in Buckets
              /\ SettledAmount(s) \in Nat

SettleOne(d, s) == IF SettledAmount(s) > 0 /\ Within(<<s.from, s.to>>, Members) THEN Settle(d, s) ELSE d

SettledTo(g, debts, ss) ==
    g = [S \in SUBSET DOMAIN ss |->
            IF S = {} THEN debts ELSE SettleOne(g[S \ {Max(S)}], ss[Max(S)])]

LEMMA SettleAllIs ==
    ASSUME NEW debts, NEW ss
    PROVE  SettleAll(debts, ss, Members) = (CHOOSE g : SettledTo(g, debts, ss))[DOMAIN ss]
  BY DEF SettleAll, FoldLeft, MapThenFoldSet, SettledTo, SettleOne

LEMMA MaxIs == ASSUME NEW n \in Nat, NEW S \in SUBSET (1..n), S # {} PROVE Max(S) \in S
<1> DEFINE T == {n - x : x \in S}
<1>1. T \subseteq Nat /\ T # {}
  <2>1. \A x \in S : n - x \in Nat
    OBVIOUS
  <2>2. PICK x \in S : TRUE
    OBVIOUS
  <2>3. n - x \in T
    OBVIOUS
  <2> QED
    BY <2>1, <2>3
<1>2. PICK k \in T : \A j \in T : k <= j
  <2> HIDE DEF T
  <2> QED
    BY <1>1, LeastOf
<1>3. PICK x \in S : k = n - x
  BY <1>2
<1>4. \A y \in S : x >= y
  <2> SUFFICES ASSUME NEW y \in S PROVE x >= y
    OBVIOUS
  <2>1. k <= n - y
    BY <1>2
  <2> QED
    BY <1>3, <2>1
<1> QED
  BY <1>4 DEF Max

LEMMA OneEffect ==
    ASSUME NEW d \in DebtTables, NEW s, Settles(s)
    PROVE  /\ SettleOne(d, s) \in DebtTables
           /\ \A m \in Members : Owed(SettleOne(d, s), m) = Owed(d, m) + Sent(SettledAmount(s), s.from, s.to, m)
<1>1. CASE SettledAmount(s) > 0
  <2>1. SettleOne(d, s) = Settle(d, s)
    BY <1>1 DEF SettleOne, Within, Settles
  <2> QED
    BY <2>1, SettleEffect DEF Settles
<1>2. CASE ~(SettledAmount(s) > 0)
  <2>1. SettleOne(d, s) = d /\ SettledAmount(s) = 0
    BY <1>2 DEF SettleOne, Settles
  <2>2. \A m \in Members : Sent(0, s.from, s.to, m) = 0 /\ Owed(d, m) \in Int
    BY OwedIsInt DEF Sent
  <2> QED
    BY <2>1, <2>2
<1> QED
  BY <1>1, <1>2

\* What was sent by the settlements of ss.
AllSent(ss, m) == [i \in DOMAIN ss |-> Sent(SettledAmount(ss[i]), ss[i].from, ss[i].to, m)]

LEMMA SettleAllEffect ==
    ASSUME NEW n \in Nat, NEW ss, DOMAIN ss = 1..n, \A i \in 1..n : Settles(ss[i]),
           NEW debts \in DebtTables
    PROVE  /\ SettleAll(debts, ss, Members) \in DebtTables
           /\ \A m \in Members :
                 Owed(SettleAll(debts, ss, Members), m) = Owed(debts, m) + SumFunction(AllSent(ss, m))
<1> DEFINE D == 1..n
<1>1. IsFiniteSet(D)
  BY FS_Interval
<1>2. \E g : SettledTo(g, debts, ss)
  <2> DEFINE c == [s \in SUBSET D |-> Max(s)]
             step == [p \in D \X DebtTables |-> SettleOne(p[2], ss[p[1]])]
  <2>1. Picks(c, D)
    BY MaxIs DEF Picks
  <2>2. step \in [D \X DebtTables -> DebtTables]
    BY OneEffect
  <2>3. \E g \in [SUBSET D -> DebtTables] : Folds(g, D, c, step, debts)
    <3> HIDE DEF c, step, D
    <3> QED
      BY <1>1, <2>1, <2>2, FoldExists, Zenon
  <2>4. PICK g \in [SUBSET D -> DebtTables] : Folds(g, D, c, step, debts)
    BY <2>3
  <2>5. ASSUME NEW s \in SUBSET D
        PROVE  g[s] = IF s = {} THEN debts ELSE SettleOne(g[s \ {Max(s)}], ss[Max(s)])
    <3>1. CASE s = {}
      <4>1. g[{}] = debts
        BY <2>4 DEF Folds
      <4> QED
        BY <3>1, <4>1
    <3>2. CASE s # {}
      <4>1. PICK x \in s : x = Max(s)
        BY <3>2, MaxIs
      <4>2. c[s] = x
        BY <4>1
      <4>3. g[s] = step[<<x, g[s \ {x}]>>]
        <5> HIDE DEF c, step
        <5> QED
          BY <2>4, <3>2, <4>2 DEF Folds
      <4>4. g[s \ {x}] \in DebtTables /\ x \in D
        OBVIOUS
      <4>5. g[s] = SettleOne(g[s \ {x}], ss[x])
        BY <4>3, <4>4
      <4> QED
        BY <3>2, <4>1, <4>5
    <3> QED
      BY <3>1, <3>2
  <2>6. SettledTo(g, debts, ss)
    BY <2>5 DEF SettledTo
  <2> QED
    BY <2>6
<1>3. PICK g : SettledTo(g, debts, ss) /\ SettleAll(debts, ss, Members) = g[D]
  <2>1. SettledTo(CHOOSE g : SettledTo(g, debts, ss), debts, ss)
    BY <1>2
  <2> QED
    BY <2>1, SettleAllIs
<1>4. ASSUME NEW m \in Members, NEW i \in D PROVE AllSent(ss, m)[i] = Sent(SettledAmount(ss[i]), ss[i].from, ss[i].to, m)
  BY DEF AllSent
<1>5. ASSUME NEW m \in Members PROVE AllSent(ss, m) \in [D -> Int]
  <2>1. \A i \in D : Sent(SettledAmount(ss[i]), ss[i].from, ss[i].to, m) \in Int
    BY DEF Sent, Settles
  <2> QED
    BY <2>1 DEF AllSent
<1> DEFINE Reaches(s) ==
               /\ g[s] \in DebtTables
               /\ \A m \in Members :
                     Owed(g[s], m) = Owed(debts, m) + SumFunction(Restrict(AllSent(ss, m), s))
           P == {s \in SUBSET D : Reaches(s)}
<1>6. ASSUME NEW s \in SUBSET D, \A t \in SUBSET D : Cardinality(t) < Cardinality(s) => t \in P
      PROVE  s \in P
  <2>1. CASE s = {}
    <3>1. g[s] = debts
      BY <1>3, <2>1 DEF SettledTo
    <3>2. \A m \in Members : Owed(debts, m) \in Int /\ SumFunction(Restrict(AllSent(ss, m), s)) = 0
      BY <2>1, OwedIsInt, SumOfNone
    <3> QED
      BY <3>1, <3>2
  <2>2. CASE s # {}
    <3>1. PICK x \in s : x = Max(s)
      BY <2>2, MaxIs
    <3>2. g[s] = SettleOne(g[s \ {x}], ss[x])
      BY <1>3, <2>2, <3>1 DEF SettledTo
    <3>3. Reaches(s \ {x})
      <4>1. Cardinality(s \ {x}) < Cardinality(s)
        BY <1>1, SmallerWithout
      <4> QED
        BY <1>6, <4>1
    <3>4. PICK d \in DebtTables : d = g[s \ {x}]
      BY <3>3
    <3>5. ASSUME NEW m \in Members
          PROVE  Owed(g[s], m) = Owed(debts, m) + SumFunction(Restrict(AllSent(ss, m), s))
      <4>1. PICK e \in [D -> Int] : e = AllSent(ss, m)
        BY <1>5
      <4>2. Owed(g[s], m) = Owed(d, m) + e[x]
        <5>1. e[x] = Sent(SettledAmount(ss[x]), ss[x].from, ss[x].to, m)
          BY <1>4, <4>1
        <5> QED
          BY <3>2, <3>4, <5>1, OneEffect
      <4>3. PICK rest \in Int : rest = SumFunction(Restrict(e, s \ {x}))
        BY <1>1, SumOfPart
      <4>4. Owed(d, m) = Owed(debts, m) + rest
        BY <3>3, <3>4, <4>1, <4>3
      <4>5. SumFunction(Restrict(e, s)) = e[x] + rest
        <5> HIDE DEF D
        <5>1. \A y \in s : SumFunction(Restrict(e, s)) = e[y] + SumFunction(Restrict(e, s \ {y}))
          BY <1>1, SumOfPart
        <5> QED
          BY <4>3, <5>1
      <4>6. Owed(debts, m) \in Int /\ e[x] \in Int
        BY OwedIsInt
      <4> QED
        BY <4>1, <4>2, <4>4, <4>5, <4>6
    <3>6. g[s] \in DebtTables
      BY <3>2, <3>4, OneEffect
    <3> QED
      BY <3>5, <3>6
  <2> QED
    BY <2>1, <2>2
<1>7. D \in P
  <2> HIDE DEF P
  <2>1. \A s \in SUBSET D : s \in P
    <3> HIDE DEF D
    <3> QED
      BY <1>1, <1>6, SubsetInduction
  <2> QED
    BY <2>1
<1>8. \A m \in Members : Restrict(AllSent(ss, m), D) = AllSent(ss, m)
  BY DEF AllSent, Restrict
<1> QED
  BY <1>3, <1>7, <1>8

-----------------------------------------------------------------------------
(* The expenses.                                                           *)
Bears(e) == e.paidBy \in Members /\ e.currency \in Buckets /\ e.splits \in [Members -> Nat]

\* What the debtor of p owes its creditor for e in the bucket c.
Due(e, c, p) == IF e.currency = c /\ e.paidBy = p[2] THEN e.splits[p[1]] ELSE 0

\* The table n has the debts of d and those of e.
Adds(d, e, n) == /\ n = [c \in Buckets |-> [p \in Pairs |-> n[c][p]]]
                 /\ \A c \in Buckets, p \in Pairs : n[c][p] = Due(e, c, p) + d[c][p]

LEMMA DueIs ==
    ASSUME NEW e, Bears(e), NEW c \in Buckets
    PROVE  /\ \A p \in Pairs : Due(e, c, p) \in Nat
           /\ \A o, m \in Members :
                 Due(e, c, <<o, m>>) = IF e.currency = c /\ e.paidBy = m THEN e.splits[o] ELSE 0
<1>1. \A p \in Pairs : p[1] \in Members
  BY PairIs
<1> QED
  BY <1>1 DEF Due, Bears

LEMMA ShareIsInt == ASSUME NEW e, Bears(e), NEW m \in Members PROVE ExpenseShare(e, m) \in Int
<1>1. PICK f : f = e.splits
  OBVIOUS
<1>2. f \in [Members -> Int] /\ f[m] \in Int
  BY <1>1 DEF Bears
<1>3. SumFunction(Restrict(f, Members \ {m})) \in Int
  BY <1>2, BucketsAreFinite, SumOfPart
<1>4. OthersOwe(e, m) \in Int /\ -e.splits[m] \in Int
  BY <1>1, <1>2, <1>3 DEF OthersOwe
<1> QED
  BY <1>4 DEF ExpenseShare

LEMMA TableOfSums ==
    ASSUME NEW d \in DebtTables, NEW e, Bears(e), NEW n, Adds(d, e, n) PROVE n \in DebtTables
<1>1. ASSUME NEW c \in Buckets, NEW p \in Pairs PROVE n[c][p] \in Nat
  <2>1. Due(e, c, p) \in Nat
    BY DueIs
  <2>2. d[c][p] \in Nat
    BY DEF DebtTables
  <2> QED
    BY <2>1, <2>2 DEF Adds
<1>2. \A c \in Buckets : n[c] = [p \in Pairs |-> n[c][p]]
  BY DEF Adds
<1>3. \A c \in Buckets : n[c] \in [Pairs -> Nat]
  BY <1>1, <1>2
<1>4. n = [c \in Buckets |-> n[c]]
  BY DEF Adds
<1> QED
  BY <1>3, <1>4 DEF DebtTables

\* An expense adds to what its payer is owed and takes from what the others are.
LEMMA ExpenseEffect ==
    ASSUME NEW d \in DebtTables, NEW e, Bears(e), NEW n, Adds(d, e, n), NEW m \in Members
    PROVE  Owed(n, m) = ExpenseShare(e, m) + Owed(d, m)
<1>1. n \in DebtTables
  BY TableOfSums
<1>2. PICK k \in Buckets, payer \in Members, w \in [Members -> Nat] :
          k = e.currency /\ payer = e.paidBy /\ w = e.splits
  BY DEF Bears
<1> DEFINE Credit(o) == IF payer = m THEN w[o] ELSE 0
           Debit(o) == IF payer = o THEN w[m] ELSE 0
<1>3. \A o \in Members : Credit(o) \in Nat /\ Debit(o) \in Nat /\ w[o] \in Nat
  OBVIOUS
<1>4. ASSUME NEW o \in Members PROVE OwedBy(n, m, o) = OwedBy(d, m, o) + (Credit(o) - Debit(o))
  <2>1. PICK g \in [Buckets -> Int] : g = Gap(d, m, o)
    BY OwedByIsInt
  <2>2. PICK h \in [Buckets -> Int] : h = Gap(n, m, o)
    BY <1>1, OwedByIsInt
  <2>3. ASSUME NEW c \in Buckets
        PROVE  /\ g[c] = d[c][<<o, m>>] - d[c][<<m, o>>]
               /\ h[c] = (Due(e, c, <<o, m>>) + d[c][<<o, m>>]) - (Due(e, c, <<m, o>>) + d[c][<<m, o>>])
    <3>1. h[c] = n[c][<<o, m>>] - n[c][<<m, o>>] /\ g[c] = d[c][<<o, m>>] - d[c][<<m, o>>]
      BY <2>1, <2>2 DEF Gap
    <3>2. <<o, m>> \in Pairs /\ <<m, o>> \in Pairs
      BY TableEntry
    <3> QED
      BY <3>1, <3>2 DEF Adds
  <2>4. ASSUME NEW c \in Buckets, c # k PROVE h[c] = g[c]
    <3>1. Due(e, c, <<o, m>>) = 0 /\ Due(e, c, <<m, o>>) = 0
      BY <1>2, <2>4, DueIs
    <3>2. d[c][<<o, m>>] \in Nat /\ d[c][<<m, o>>] \in Nat
      BY TableEntry
    <3> QED
      BY <2>3, <3>1, <3>2
  <2>5. h[k] - g[k] = Credit(o) - Debit(o)
    <3>1. Due(e, k, <<o, m>>) = Credit(o) /\ Due(e, k, <<m, o>>) = Debit(o)
      BY <1>2, DueIs
    <3>2. d[k][<<o, m>>] \in Nat /\ d[k][<<m, o>>] \in Nat
      BY TableEntry
    <3>3. h[k] = (Credit(o) + d[k][<<o, m>>]) - (Debit(o) + d[k][<<m, o>>])
      BY <2>3, <3>1
    <3>4. g[k] = d[k][<<o, m>>] - d[k][<<m, o>>]
      BY <2>3
    <3> HIDE DEF Credit, Debit
    <3> QED
      BY <1>3, <3>2, <3>3, <3>4
  <2>6. SumFunction(h) = SumFunction(g) + (h[k] - g[k])
    <3>1. \A c \in Buckets : c # k => h[c] = g[c]
      BY <2>4
    <3> QED
      BY <3>1, BucketsAreFinite, SumChange
  <2> QED
    BY <2>1, <2>2, <2>5, <2>6 DEF OwedBy
<1>5. PICK g \in [Members -> Int] : g = [o \in Members |-> OwedBy(d, m, o)]
  <2>1. [o \in Members |-> OwedBy(d, m, o)] \in [Members -> Int]
    BY OwedIsInt
  <2> QED
    BY <2>1
<1>6. PICK h \in [Members -> Int] : h = [o \in Members |-> OwedBy(n, m, o)]
  <2>1. [o \in Members |-> OwedBy(n, m, o)] \in [Members -> Int]
    BY <1>1, OwedIsInt
  <2> QED
    BY <2>1
<1>7. PICK u : u = [o \in Members |-> Credit(o) - Debit(o)]
  OBVIOUS
<1>8. u \in [Members -> Int] /\ \A o \in Members : u[o] = Credit(o) - Debit(o)
  <2> HIDE DEF Credit, Debit
  <2> QED
    BY <1>3, <1>7
<1>9. SumFunction(h) = SumFunction(g) + SumFunction(u)
  <2>1. \A o \in Members : h[o] = g[o] + u[o]
    <3> HIDE DEF Credit, Debit
    <3> QED
      BY <1>4, <1>5, <1>6, <1>8
  <2>2. u \in [Members -> Int]
    BY <1>8
  <2> HIDE DEF Credit, Debit
  <2> QED
    BY <2>1, <2>2, BucketsAreFinite, SumAdd
<1>10. SumFunction(u) = ExpenseShare(e, m)
  <2>1. CASE payer = m
    <3>1. u[m] = 0 /\ \A o \in Members \ {m} : u[o] = w[o]
      <4>1. Credit(m) = w[m] /\ Debit(m) = w[m] /\ w[m] \in Nat
        BY <1>3, <2>1
      <4>2. ASSUME NEW o \in Members \ {m} PROVE u[o] = w[o]
        <5>1. Credit(o) = w[o] /\ Debit(o) = 0 /\ w[o] \in Nat
          BY <1>3, <2>1
        <5> QED
          BY <1>8, <5>1
      <4> QED
        BY <1>8, <4>1, <4>2
    <3>2. Restrict(u, Members \ {m}) = Restrict(w, Members \ {m})
      BY <3>1 DEF Restrict
    <3>3. SumFunction(u) = u[m] + SumFunction(Restrict(u, Members \ {m}))
      BY <1>8, BucketsAreFinite, SumRemove
    <3>4. SumFunction(Restrict(u, Members \ {m})) \in Int
      BY <1>8, BucketsAreFinite, SumOfPart
    <3>5. SumFunction(u) = SumFunction(Restrict(w, Members \ {m}))
      BY <3>1, <3>2, <3>3, <3>4
    <3> QED
      BY <1>2, <2>1, <3>5 DEF ExpenseShare, OthersOwe
  <2>2. CASE payer # m
    <3>1. \A o \in Members : o # payer => u[o] = 0
      BY <1>8, <2>2
    <3>2. u[payer] = -w[m]
      BY <1>3, <1>8, <2>2
    <3>3. SumFunction(u) = u[payer]
      BY <1>8, <3>1, BucketsAreFinite, SumOfOne
    <3> QED
      BY <1>2, <2>2, <3>2, <3>3 DEF ExpenseShare
  <2> QED
    BY <2>1, <2>2
<1>11. SumFunction(g) \in Int /\ SumFunction(u) \in Int
  BY <1>8, BucketsAreFinite, SumIsInt
<1>12. SumFunction(h) = ExpenseShare(e, m) + SumFunction(g)
  BY <1>9, <1>10, <1>11
<1> QED
  BY <1>5, <1>6, <1>12 DEF Owed

-----------------------------------------------------------------------------
Column(es, c, p) == [x \in DOMAIN es |-> Due(es[x], c, p)]
Shares(es, m) == [x \in DOMAIN es |-> ExpenseShare(es[x], m)]

LEMMA ExpenseDebtsIs ==
    ASSUME NEW es
    PROVE  ExpenseDebts(es, Members) = [c \in Buckets |-> [p \in Pairs |-> SumFunction(Column(es, c, p))]]
<1>1. \A p \in Pairs : Within(p, Members)
  BY PairIs DEF Within
<1> QED
  BY <1>1 DEF ExpenseDebts, Column, Due

LEMMA ExpensesEffect ==
    ASSUME NEW es, IsFiniteSet(DOMAIN es), \A x \in DOMAIN es : Bears(es[x])
    PROVE  /\ ExpenseDebts(es, Members) \in DebtTables
           /\ \A m \in Members :
                 /\ Shares(es, m) \in [DOMAIN es -> Int]
                 /\ Owed(ExpenseDebts(es, Members), m) = SumFunction(Shares(es, m))
<1> DEFINE D == DOMAIN es
           T(s) == [c \in Buckets |-> [p \in Pairs |-> SumFunction(Restrict(Column(es, c, p), s))]]
<1>1. ASSUME NEW c \in Buckets, NEW p \in Pairs PROVE Column(es, c, p) \in [D -> Int]
  <2>1. \A x \in D : Due(es[x], c, p) \in Int
    BY DueIs
  <2> QED
    BY <2>1 DEF Column
<1>2. ASSUME NEW m \in Members PROVE Shares(es, m) \in [D -> Int]
  <2>1. \A x \in D : ExpenseShare(es[x], m) \in Int
    BY ShareIsInt
  <2> QED
    BY <2>1 DEF Shares
<1> DEFINE Reaches(s) ==
               /\ T(s) \in DebtTables
               /\ \A m \in Members : Owed(T(s), m) = SumFunction(Restrict(Shares(es, m), s))
           P == {s \in SUBSET D : Reaches(s)}
<1>3. {} \in P
  <2>1. \A c \in Buckets, p \in Pairs : T({})[c][p] = 0
    BY SumOfNone
  <2>2. PICK t : t = T({})
    OBVIOUS
  <2>3. t \in DebtTables /\ \A c \in Buckets, p \in Pairs : t[c][p] = 0
    BY <2>1, <2>2 DEF DebtTables
  <2>4. ASSUME NEW m \in Members PROVE Owed(t, m) = 0
    <3>1. ASSUME NEW o \in Members PROVE OwedBy(t, m, o) = 0
      <4>1. PICK g \in [Buckets -> Int] : g = Gap(t, m, o)
        BY <2>3, OwedByIsInt
      <4>2. <<o, m>> \in Pairs /\ <<m, o>> \in Pairs
        BY DEF Pairs
      <4>3. \A c \in Buckets : g[c] = 0
        BY <2>3, <4>1, <4>2 DEF Gap
      <4>4. SumFunction(g) = 0
        BY <4>3, BucketsAreFinite, SumZero
      <4> QED
        BY <4>1, <4>4 DEF OwedBy
    <3>2. PICK h : h = [o \in Members |-> OwedBy(t, m, o)]
      OBVIOUS
    <3>3. h \in [Members -> Int] /\ \A o \in Members : h[o] = 0
      BY <3>1, <3>2
    <3>4. SumFunction(h) = 0
      BY <3>3, BucketsAreFinite, SumZero
    <3> QED
      BY <3>2, <3>4 DEF Owed
  <2>5. Reaches({})
    <3>1. \A m \in Members : SumFunction(Restrict(Shares(es, m), {})) = 0
      BY SumOfNone
    <3> HIDE DEF T
    <3> QED
      BY <2>2, <2>3, <2>4, <3>1
  <2> QED
    BY <2>5
<1>4. ASSUME NEW s \in SUBSET D, NEW x \in s, s \ {x} \in P PROVE s \in P
  <2>1. PICK d \in DebtTables : d = T(s \ {x})
    BY <1>4
  <2>2. PICK n : n = T(s)
    OBVIOUS
  <2>3. PICK e : e = es[x] /\ Bears(e)
    OBVIOUS
  <2>4. Adds(d, e, n)
    <3>1. n = [c \in Buckets |-> [p \in Pairs |-> n[c][p]]]
      BY <2>2
    <3>2. ASSUME NEW c \in Buckets, NEW p \in Pairs PROVE n[c][p] = Due(e, c, p) + d[c][p]
      <4>1. PICK f \in [D -> Int] : f = Column(es, c, p)
        BY <1>1
      <4>2. n[c][p] = SumFunction(Restrict(f, s)) /\ d[c][p] = SumFunction(Restrict(f, s \ {x}))
        BY <2>1, <2>2, <4>1
      <4>3. \A y \in s : SumFunction(Restrict(f, s)) = f[y] + SumFunction(Restrict(f, s \ {y}))
        BY SumOfPart
      <4>4. f[x] = Due(e, c, p)
        BY <2>3, <4>1 DEF Column
      <4> QED
        BY <4>2, <4>3, <4>4
    <3> QED
      BY <3>1, <3>2 DEF Adds
  <2>5. n \in DebtTables
    BY <2>3, <2>4, TableOfSums
  <2>6. ASSUME NEW m \in Members PROVE Owed(n, m) = SumFunction(Restrict(Shares(es, m), s))
    <3>1. PICK f \in [D -> Int] : f = Shares(es, m)
      BY <1>2
    <3>2. Owed(n, m) = ExpenseShare(e, m) + Owed(d, m)
      BY <2>3, <2>4, ExpenseEffect
    <3>3. Owed(d, m) = SumFunction(Restrict(f, s \ {x}))
      <4> HIDE DEF T
      <4> QED
        BY <1>4, <2>1, <3>1
    <3>4. \A y \in s : SumFunction(Restrict(f, s)) = f[y] + SumFunction(Restrict(f, s \ {y}))
      BY SumOfPart
    <3>5. f[x] = ExpenseShare(e, m)
      BY <2>3, <3>1 DEF Shares
    <3> QED
      BY <3>1, <3>2, <3>3, <3>4, <3>5
  <2> HIDE DEF T
  <2> QED
    BY <2>2, <2>5, <2>6
<1>5. D \in P
  <2> HIDE DEF P
  <2>1. \A s \in SUBSET D : s \in P
    <3> HIDE DEF D
    <3>1. IsFiniteSet(D)
      BY DEF D
    <3> QED
      BY <1>3, <1>4, <3>1, RemovalInduction
  <2> QED
    BY <2>1
<1>6. T(D) = ExpenseDebts(es, Members)
  <2>1. \A c \in Buckets, p \in Pairs : Restrict(Column(es, c, p), D) = Column(es, c, p)
    BY DEF Restrict, Column
  <2> QED
    BY <2>1, ExpenseDebtsIs
<1>7. \A m \in Members : Restrict(Shares(es, m), D) = Shares(es, m)
  BY DEF Restrict, Shares
<1> HIDE DEF T
<1> QED
  BY <1>2, <1>5, <1>6, <1>7

-----------------------------------------------------------------------------
(* What the page shows.                                                    *)
LEMMA NetBalancesAre ==
    ASSUME NEW es, NEW ss, NEW d \in DebtTables,
           d = SettleAll(ExpenseDebts(es, Members), ss, Members), NEW m \in Members
    PROVE  NetBalances(PairDebts(es, ss, Members))[m] = Owed(d, m)
<1> DEFINE netted == [c \in Buckets |-> Netted(d[c])]
           owes == PairDebts(es, ss, Members)
<1>1. owes = [p \in Pairs |-> IF p[1] = p[2] THEN 0 ELSE SumFunction([c \in Buckets |-> netted[c][p]])]
  BY DEF PairDebts
<1>2. ASSUME NEW o \in Members PROVE owes[<<o, m>>] - owes[<<m, o>>] = OwedBy(d, m, o)
  <2>1. PICK g \in [Buckets -> Int] : g = Gap(d, m, o)
    BY OwedByIsInt
  <2>2. PICK p \in Pairs : p = <<o, m>> /\ p[1] = o /\ p[2] = m
    <3>1. <<o, m>> \in Pairs
      BY DEF Pairs
    <3> QED
      BY <3>1
  <2>3. PICK q \in Pairs : q = <<m, o>> /\ q[1] = m /\ q[2] = o
    <3>1. <<m, o>> \in Pairs
      BY DEF Pairs
    <3> QED
      BY <3>1
  <2>4. ASSUME NEW c \in Buckets
        PROVE  /\ netted[c][p] \in Nat /\ netted[c][q] \in Nat
               /\ g[c] = netted[c][p] - netted[c][q]
    <3>1. d[c] \in [Pairs -> Nat]
      BY DEF DebtTables
    <3>2. /\ Netted(d[c]) \in [Pairs -> Nat]
          /\ Netted(d[c])[<<o, m>>] - Netted(d[c])[<<m, o>>] = d[c][<<o, m>>] - d[c][<<m, o>>]
      BY <3>1, NettedIs
    <3>3. netted[c] = Netted(d[c])
      OBVIOUS
    <3>4. g[c] = d[c][<<o, m>>] - d[c][<<m, o>>]
      BY <2>1 DEF Gap
    <3> HIDE DEF netted
    <3> QED
      BY <2>2, <2>3, <3>2, <3>3, <3>4
  <2>5. CASE o = m
    <3>1. p = q
      BY <2>2, <2>3, <2>5
    <3>2. \A c \in Buckets : g[c] = 0
      <4> HIDE DEF netted
      <4> QED
        BY <2>4, <3>1
    <3>3. SumFunction(g) = 0
      BY <3>2, BucketsAreFinite, SumZero
    <3>4. owes[p] = 0
      BY <1>1, <2>2, <2>5
    <3> QED
      BY <2>1, <2>2, <2>3, <3>1, <3>3, <3>4 DEF OwedBy
  <2>6. CASE o # m
    <3>1. PICK a : a = [c \in Buckets |-> netted[c][p]]
      OBVIOUS
    <3>2. PICK b : b = [c \in Buckets |-> netted[c][q]]
      OBVIOUS
    <3>3. a \in [Buckets -> Int] /\ b \in [Buckets -> Int] /\ \A c \in Buckets : a[c] = g[c] + b[c]
      <4> HIDE DEF netted
      <4>1. \A c \in Buckets : a[c] \in Nat /\ b[c] \in Nat /\ g[c] = a[c] - b[c]
        BY <2>4, <3>1, <3>2
      <4>2. \A c \in Buckets : g[c] \in Int
        OBVIOUS
      <4> QED
        BY <3>1, <3>2, <4>1, <4>2
    <3>4. SumFunction(a) = SumFunction(g) + SumFunction(b)
      BY <3>3, BucketsAreFinite, SumAdd
    <3>5. owes[p] = SumFunction(a) /\ owes[q] = SumFunction(b)
      <4> HIDE DEF netted, owes
      <4> QED
        BY <1>1, <2>2, <2>3, <2>6, <3>1, <3>2
    <3>6. SumFunction(a) \in Int /\ SumFunction(g) \in Int /\ SumFunction(b) \in Int
      BY <3>3, BucketsAreFinite, SumIsInt
    <3>7. owes[p] - owes[q] = SumFunction(g)
      BY <3>4, <3>5, <3>6
    <3> HIDE DEF owes
    <3> QED
      BY <2>1, <2>2, <2>3, <3>7 DEF OwedBy
  <2> QED
    BY <2>5, <2>6
<1>3. [o \in Members |-> owes[<<o, m>>] - owes[<<m, o>>]] = [o \in Members |-> OwedBy(d, m, o)]
  <2> HIDE DEF owes
  <2> QED
    BY <1>2
<1>4. NetBalances(owes)[m] = SumFunction([o \in Members |-> owes[<<o, m>>] - owes[<<m, o>>]])
  <2> HIDE DEF owes
  <2> QED
    BY DEF NetBalances
<1> QED
  BY <1>3, <1>4 DEF Owed

-----------------------------------------------------------------------------
LEMMA EngineExpenses ==
    ASSUME TypeOK, IsFiniteSet(DOMAIN expenses), NEW es, es = toEngineExpenses(expenses, groupCurrency)
    PROVE  /\ DOMAIN es = DOMAIN expenses
           /\ \A x \in DOMAIN es :
                 /\ Bears(es[x])
                 /\ es[x].paidBy = expenses[x].paidBy /\ es[x].splits = expenses[x].splits
<1>1. DOMAIN es = DOMAIN expenses
  BY DEF toEngineExpenses
<1>2. ASSUME NEW x \in DOMAIN expenses
      PROVE  /\ Bears(es[x])
             /\ es[x].paidBy = expenses[x].paidBy /\ es[x].splits = expenses[x].splits
  <2>1. PICK e : e = expenses[x]
    OBVIOUS
  <2>2. e \in [paidBy: Members, currency: Buckets, splits: Splits]
    BY <2>1 DEF TypeOK
  <2>3. PICK c \in Buckets : c = IF e.currency = NoCurrency THEN groupCurrency ELSE e.currency
    BY <2>2, NoCurrencyIsABucket DEF TypeOK
  <2>4. es[x] = [e EXCEPT !.currency = c]
    BY <2>1, <2>3 DEF toEngineExpenses
  <2>5. es[x].paidBy = e.paidBy /\ es[x].splits = e.splits /\ es[x].currency = c
    BY <2>2, <2>4
  <2>6. e.splits \in [Members -> Nat]
    <3>1. {0} \cup Amounts \subseteq Nat
      BY AmountsAssumption
    <3> QED
      BY <2>2, <3>1 DEF Splits
  <2> QED
    BY <2>1, <2>2, <2>5, <2>6 DEF Bears
<1> QED
  BY <1>1, <1>2

LEMMA EngineSettlements ==
    ASSUME TypeOK, NEW ss, ss = toEngineSettlements(settlements)
    PROVE  /\ DOMAIN ss = 1..Len(settlements) /\ Len(settlements) \in Nat
           /\ DOMAIN settlements = 1..Len(settlements)
           /\ \A i \in DOMAIN ss :
                 /\ Settles(ss[i])
                 /\ settlements[i].amount \in Nat
                 /\ SettledAmount(ss[i]) = IF settlements[i].status = "approved" THEN settlements[i].amount ELSE 0
                 /\ ss[i].from = settlements[i].from /\ ss[i].to = settlements[i].to
<1>1. DOMAIN settlements = 1..Len(settlements) /\ Len(settlements) \in Nat
  BY DEF TypeOK
<1>2. DOMAIN ss = 1..Len(settlements)
  BY <1>1 DEF toEngineSettlements
<1>3. ASSUME NEW i \in DOMAIN ss
      PROVE  /\ Settles(ss[i])
             /\ settlements[i].amount \in Nat
             /\ SettledAmount(ss[i]) = IF settlements[i].status = "approved" THEN settlements[i].amount ELSE 0
             /\ ss[i].from = settlements[i].from /\ ss[i].to = settlements[i].to
  <2>1. PICK s \in Settlement : s = settlements[i]
    BY <1>1, <1>2 DEF TypeOK
  <2>2. ss[i] = [s EXCEPT !.paid = 0]
    BY <1>1, <1>2, <2>1 DEF toEngineSettlements
  <2>3. PICK t : t = [s EXCEPT !.paid = 0]
    OBVIOUS
  <2>4. /\ t.from = s.from /\ t.to = s.to /\ t.currency = s.currency /\ t.amount = s.amount
        /\ t.status = s.status /\ t.paid = 0
    BY <2>3 DEF Settlement
  <2>5. s.from \in Members /\ s.to \in Members /\ s.currency \in Buckets /\ s.amount \in Nat
    BY DEF Settlement
  <2>6. SettledAmount(t) = IF s.status = "approved" THEN s.amount ELSE 0
    BY <2>4 DEF SettledAmount
  <2>7. SettledAmount(t) \in Nat
    BY <2>5, <2>6
  <2> QED
    BY <2>1, <2>2, <2>3, <2>4, <2>5, <2>6, <2>7 DEF Settles
<1> QED
  BY <1>1, <1>2, <1>3

LEMMA BlobSettles ==
    ASSUME TypeOK
    PROVE  /\ DOMAIN settlements = 1..Len(settlements) /\ Len(settlements) \in Nat
           /\ \A i \in DOMAIN settlements :
                 Settles(settlements[i]) /\ SettledAmount(settlements[i]) = Took(i)
<1>1. DOMAIN settlements = 1..Len(settlements) /\ Len(settlements) \in Nat
  BY DEF TypeOK
<1>2. ASSUME NEW i \in DOMAIN settlements
      PROVE  Settles(settlements[i]) /\ SettledAmount(settlements[i]) = Took(i)
  <2>1. PICK s \in Settlement : s = settlements[i]
    BY <1>1 DEF TypeOK
  <2>2. s.from \in Members /\ s.to \in Members /\ s.currency \in Buckets /\ s.amount \in Nat /\ s.paid \in Nat
    BY DEF Settlement
  <2>3. SettledAmount(s) \in Nat
    BY <2>2 DEF SettledAmount
  <2>4. SettledAmount(s) = Took(i)
    BY <2>1 DEF SettledAmount, Took
  <2> QED
    BY <2>1, <2>2, <2>3, <2>4 DEF Settles
<1> QED
  BY <1>1, <1>2

LEMMA LedgerIs ==
    ASSUME TypeOK, IsFiniteSet(DOMAIN expenses), NEW m \in Members
    PROVE  Ledger(m) = SumFunction(Shares(expenses, m)) + SumFunction(AllSent(settlements, m))
<1> DEFINE Share(x) == IF expenses[x].paidBy = m
                       THEN SumFunction([o \in Members |-> IF o = m THEN 0 ELSE expenses[x].splits[o]])
                       ELSE -expenses[x].splits[m]
<1>1. ASSUME NEW x \in DOMAIN expenses PROVE Share(x) = ExpenseShare(expenses[x], m)
  <2>1. PICK w : w = expenses[x].splits
    OBVIOUS
  <2>2. w \in [Members -> Int]
    <3>1. {0} \cup Amounts \subseteq Int
      BY AmountsAssumption
    <3>2. w \in Splits
      BY <2>1 DEF TypeOK
    <3> QED
      BY <3>1, <3>2 DEF Splits
  <2>3. PICK u : u = [o \in Members |-> IF o = m THEN 0 ELSE w[o]]
    OBVIOUS
  <2>4. u \in [Members -> Int] /\ u[m] = 0 /\ \A o \in Members \ {m} : u[o] = w[o]
    BY <2>2, <2>3
  <2>5. SumFunction(u) = u[m] + SumFunction(Restrict(u, Members \ {m}))
    BY <2>4, BucketsAreFinite, SumRemove
  <2>6. SumFunction(Restrict(u, Members \ {m})) \in Int
    BY <2>4, BucketsAreFinite, SumOfPart
  <2>7. Restrict(u, Members \ {m}) = Restrict(w, Members \ {m})
    BY <2>4 DEF Restrict
  <2>8. SumFunction(u) = SumFunction(Restrict(w, Members \ {m}))
    BY <2>4, <2>5, <2>6, <2>7
  <2> QED
    BY <2>1, <2>3, <2>8 DEF ExpenseShare, OthersOwe
<1>2. [x \in DOMAIN expenses |-> Share(x)] = Shares(expenses, m)
  <2> HIDE DEF Share
  <2> QED
    BY <1>1 DEF Shares
<1>3. PICK paid : paid = [i \in DOMAIN settlements |->
          (IF settlements[i].from = m THEN Took(i) ELSE 0) - (IF settlements[i].to = m THEN Took(i) ELSE 0)]
  OBVIOUS
<1>4. Ledger(m) = SumFunction([x \in DOMAIN expenses |-> Share(x)]) + SumFunction(paid)
  BY <1>3 DEF Ledger
<1>5. paid = AllSent(settlements, m)
  BY <1>3, BlobSettles DEF AllSent, Sent
<1> QED
  BY <1>2, <1>4, <1>5

\* The engine adds up the expenses and what the settlements that it is given took.
LEMMA EngineAddsUp ==
    ASSUME TypeOK, IsFiniteSet(DOMAIN expenses), NEW ss, DOMAIN ss = 1..Len(settlements),
           Len(settlements) \in Nat, \A i \in DOMAIN ss : Settles(ss[i]), NEW m \in Members
    PROVE  /\ SumFunction(Shares(expenses, m)) \in Int
           /\ NetBalances(PairDebts(toEngineExpenses(expenses, groupCurrency), ss, Members))[m]
                 = SumFunction(Shares(expenses, m)) + SumFunction(AllSent(ss, m))
<1>1. PICK es : es = toEngineExpenses(expenses, groupCurrency)
  OBVIOUS
<1>2. DOMAIN es = DOMAIN expenses /\ \A x \in DOMAIN es : Bears(es[x])
  BY <1>1, EngineExpenses
<1>3. /\ ExpenseDebts(es, Members) \in DebtTables
      /\ Shares(es, m) \in [DOMAIN es -> Int]
      /\ Owed(ExpenseDebts(es, Members), m) = SumFunction(Shares(es, m))
  BY <1>2, ExpensesEffect
<1>4. Shares(es, m) = Shares(expenses, m)
  <2>1. ASSUME NEW x \in DOMAIN expenses PROVE ExpenseShare(es[x], m) = ExpenseShare(expenses[x], m)
    <3>1. es[x].paidBy = expenses[x].paidBy /\ es[x].splits = expenses[x].splits
      BY <1>1, <1>2, EngineExpenses
    <3> QED
      BY <3>1 DEF ExpenseShare, OthersOwe
  <2> QED
    BY <1>2, <2>1 DEF Shares
<1>5. PICK d : d = SettleAll(ExpenseDebts(es, Members), ss, Members)
  OBVIOUS
<1>6. /\ d \in DebtTables
      /\ Owed(d, m) = Owed(ExpenseDebts(es, Members), m) + SumFunction(AllSent(ss, m))
  BY <1>3, <1>5, SettleAllEffect
<1>7. NetBalances(PairDebts(es, ss, Members))[m] = Owed(d, m)
  BY <1>5, <1>6, NetBalancesAre
<1>8. SumFunction(Shares(expenses, m)) \in Int
  BY <1>2, <1>3, <1>4, SumIsInt
<1> QED
  BY <1>1, <1>3, <1>4, <1>6, <1>7, <1>8

\* What is approved of nothing that m has part in comes to nothing.
LEMMA UnsettledIs ==
    ASSUME TypeOK, NEW m \in Members, NothingSettled(m), NEW ss, ss = toEngineSettlements(settlements)
    PROVE  /\ SumFunction(AllSent(ss, m)) = 0
           /\ SumFunction([i \in DOMAIN settlements |->
                 IF settlements[i].status = "approved" THEN SettlementShare(settlements[i], m) ELSE 0]) = 0
<1>1. DOMAIN ss = DOMAIN settlements /\ IsFiniteSet(DOMAIN settlements)
  <2>1. DOMAIN settlements = 1..Len(settlements) /\ DOMAIN ss = 1..Len(settlements) /\ Len(settlements) \in Nat
    BY EngineSettlements
  <2> QED
    BY <2>1, FS_Interval
<1>2. PICK A : A = AllSent(ss, m)
  OBVIOUS
<1>3. PICK S : S = [i \in DOMAIN settlements |->
          IF settlements[i].status = "approved" THEN SettlementShare(settlements[i], m) ELSE 0]
  OBVIOUS
<1>4. ASSUME NEW i \in DOMAIN settlements PROVE A[i] = 0 /\ S[i] = 0
  <2>1. PICK s : s = settlements[i]
    OBVIOUS
  <2>2. /\ s.amount \in Nat /\ ss[i].from = s.from /\ ss[i].to = s.to
        /\ SettledAmount(ss[i]) = IF s.status = "approved" THEN s.amount ELSE 0
    BY <1>1, <2>1, EngineSettlements
  <2>3. s.status = "approved" => s.from # m /\ s.to # m
    BY <2>1 DEF NothingSettled
  <2>4. A[i] = Sent(SettledAmount(ss[i]), s.from, s.to, m)
    BY <1>1, <1>2, <2>2 DEF AllSent
  <2>5. A[i] = 0
    BY <2>2, <2>3, <2>4 DEF Sent
  <2>6. S[i] = 0
    BY <1>3, <2>1, <2>3 DEF SettlementShare
  <2> QED
    BY <2>5, <2>6
<1>5. A \in [DOMAIN settlements -> Int] /\ S \in [DOMAIN settlements -> Int]
  <2>1. A = [i \in DOMAIN settlements |-> A[i]] /\ S = [i \in DOMAIN settlements |-> S[i]]
    BY <1>1, <1>2, <1>3 DEF AllSent
  <2> QED
    BY <1>4, <2>1
<1>6. SumFunction(A) = 0 /\ SumFunction(S) = 0
  BY <1>1, <1>4, <1>5, SumZero
<1> QED
  BY <1>2, <1>3, <1>6

LEMMA BooksAddUp == ASSUME TypeOK, IsFiniteSet(DOMAIN expenses) PROVE BalancesAddUp
<1> SUFFICES ASSUME NEW m \in Members
             PROVE  /\ NetOfBlob[m] = Ledger(m)
                    /\ NothingSettled(m) => StatementBalance(expenses, settlements, m) = NetNow[m]
  BY DEF BalancesAddUp
<1>1. NetOfBlob[m] = Ledger(m)
  <2>1. NetOfBlob[m] = SumFunction(Shares(expenses, m)) + SumFunction(AllSent(settlements, m))
    BY BlobSettles, EngineAddsUp DEF NetOfBlob
  <2> QED
    BY <2>1, LedgerIs
<1>2. ASSUME NothingSettled(m) PROVE StatementBalance(expenses, settlements, m) = NetNow[m]
  <2>1. PICK ss : ss = toEngineSettlements(settlements)
    OBVIOUS
  <2>2. DOMAIN ss = 1..Len(settlements) /\ Len(settlements) \in Nat /\ \A i \in DOMAIN ss : Settles(ss[i])
    BY <2>1, EngineSettlements
  <2>3. NetNow = NetBalances(PairDebts(toEngineExpenses(expenses, groupCurrency), ss, Members))
    BY <2>1 DEF NetNow, Debts
  <2>4. /\ SumFunction(Shares(expenses, m)) \in Int
        /\ NetNow[m] = SumFunction(Shares(expenses, m)) + SumFunction(AllSent(ss, m))
    BY <2>2, <2>3, EngineAddsUp
  <2>5. PICK share : share = SumFunction([i \in DOMAIN settlements |->
            IF settlements[i].status = "approved" THEN SettlementShare(settlements[i], m) ELSE 0])
    OBVIOUS
  <2>6. SumFunction(AllSent(ss, m)) = 0 /\ share = 0
    BY <1>2, <2>1, <2>5, UnsettledIs
  <2>7. StatementBalance(expenses, settlements, m) = SumFunction(Shares(expenses, m)) + share
    BY <2>5 DEF StatementBalance, Shares
  <2> QED
    BY <2>4, <2>6, <2>7
<1> QED
  BY <1>1, <1>2

-----------------------------------------------------------------------------
FiniteBooks == IsFiniteSet(DOMAIN expenses)

LEMMA BooksStayFinite == FiniteBooks /\ [Next]_vars => FiniteBooks'
<1> SUFFICES ASSUME FiniteBooks, [Next]_vars PROVE FiniteBooks'
  OBVIOUS
<1>1. ASSUME DOMAIN expenses' = DOMAIN expenses PROVE FiniteBooks'
  BY <1>1 DEF FiniteBooks
<1>2. ASSUME NEW u, NEW x, NEW payer, NEW c, NEW splits, createGroupExpense(u, x, payer, c, splits)
      PROVE  FiniteBooks'
  <2>1. DOMAIN expenses' = DOMAIN expenses \cup {x}
    BY <1>2 DEF createGroupExpense
  <2> QED
    BY <2>1, FS_AddElement DEF FiniteBooks
<1>3. ASSUME NEW u, NEW x, NEW payer, NEW splits, updateGroupExpense(u, x, payer, splits)
      PROVE  FiniteBooks'
  <2>1. DOMAIN expenses' = DOMAIN expenses
    BY <1>3 DEF updateGroupExpense
  <2> QED
    BY <1>1, <2>1
<1>4. ASSUME NEW u, NEW x, deleteGroupExpense(u, x) PROVE FiniteBooks'
  <2>1. DOMAIN expenses' = DOMAIN expenses \ {x}
    BY <1>4 DEF deleteGroupExpense, Restrict
  <2> QED
    BY <2>1, FS_RemoveElement DEF FiniteBooks
<1>5. ASSUME UNCHANGED expenses PROVE FiniteBooks'
  BY <1>5, <1>1
<1>6. ASSUME NEW u \in Members PROVE
      /\ \A c : updateGroupSettings(u, c) => FiniteBooks'
      /\ OpenGroup(u) => FiniteBooks'
      /\ \A p, a : proposeSettlement(u, p, a) => FiniteBooks'
  BY <1>5 DEF updateGroupSettings, OpenGroup, proposeSettlement
<1>7. ASSUME NEW u \in Members PROVE
      \A i : /\ markSettlementAsPaid(u, i) => FiniteBooks'
             /\ \A a : payInPart(u, i, a) => FiniteBooks'
             /\ acceptSettlement(u, i) => FiniteBooks'
             /\ rejectSettlement(u, i) => FiniteBooks'
             /\ cancelSettlement(u, i) => FiniteBooks'
  BY <1>5 DEF markSettlementAsPaid, payInPart, acceptSettlement, rejectSettlement,
     cancelSettlement, markAsPaid, confirmReceipt, rejectProposal, rejectPayment,
     cancelProposal, Moves
<1>8. CASE UNCHANGED vars
  BY <1>5, <1>8 DEF vars
<1>9. CASE Next
  BY <1>2, <1>3, <1>4, <1>6, <1>7, <1>9, Zenon DEF Next
<1> QED
  BY <1>8, <1>9

\* The balances that computeNetBalances makes of a blob are its plain sums, whatever
\* was overpaid or paid in part and in whatever order it was settled, and the entries of
\* buildPersonalLog end on the balance of the group until a settlement of the member is
\* approved.
THEOREM BalancesAgree == Spec => []BalancesAddUp
<1>1. Init => FiniteBooks
  BY FS_EmptySet DEF Init, FiniteBooks
<1>2. TypeOK /\ FiniteBooks => BalancesAddUp
  BY BooksAddUp DEF FiniteBooks
<1> QED
  BY SettlementTypes, BooksStayFinite, <1>1, <1>2, PTL DEF Spec
=============================================================================
