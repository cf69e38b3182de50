----------------------------- MODULE Settlements -----------------------------
(***************************************************************************)
(* The accounting of one group: the expenses and settlements in its blob,  *)
(* and what members do to them.                                            *)
(*                                                                         *)
(* Every operation of the settlement and expense stores edits the newest   *)
(* blob and uploads it only if nobody else did meanwhile (module           *)
(* GroupSync, theorem UpdatesAreKept), so that each of them is one step    *)
(* here; its guards are the checks the mutation makes on the blob it got.  *)
(* What members decide on, amounts above all, they saw on a page loaded    *)
(* some time ago: they are arbitrary.  A tab's idea of the group's         *)
(* currency is kept, because a proposal is made in that currency.          *)
(***************************************************************************)
EXTENDS Balances

CONSTANTS Expenses,        \* identifiers of expenses
          Amounts,         \* the amounts that members type in
          StoredCurrencies,\* what an expense says of its currency
          LegacyAmounts,   \* approved settlements of old blobs
          Dollar,          \* USD
          Tolerance,       \* proposals may exceed the debt by this much
          MaxSettlements,  \* bound on the settlements of a behaviour
          MaxEdits         \* bound on edits, deletions, changes of currency

ASSUME AmountsAssumption == Amounts \subseteq Nat \ {0}
ASSUME LegacyAssumption == LegacyAmounts \subseteq Nat \ {0} /\ Dollar \in Currencies
ASSUME BoundsAssumption == Tolerance \in Nat /\ MaxSettlements \in Nat /\ MaxEdits \in Nat
ASSUME StoredAssumption == StoredCurrencies \subseteq Buckets

VARIABLES expenses,       \* the expenses of the blob, by identifier
          settlements,    \* the settlements of the blob, in order
          groupCurrency,  \* groups.default_currency
          shown,          \* per member, the currency their tab believes in
          edits           \* operations counted against MaxEdits

vars == <<expenses, settlements, groupCurrency, shown, edits>>

Statuses == {"proposed", "marked_paid", "approved", "rejected", "cancelled", "superseded"}

Settlement == [from: Members, to: Members, amount: Nat \ {0}, currency: Buckets,
               status: Statuses, paid: Nat, of: Nat]

Splits == [Members -> {0} \cup Amounts]

\* Those who share an expense bear the same amount each.
EvenSplits ==
    {[m \in Members |-> IF m \in sharing THEN a ELSE 0] :
        a \in Amounts, sharing \in SUBSET Members \ {{}}}

\* Settlements from before they had a currency, as every tab reads them: migrateBlob
\* makes them settlements in dollars, whatever the currency of the group.
Legacy ==
    [from: Members, to: Members, amount: LegacyAmounts, currency: {Dollar},
     status: {"approved"}, paid: {0}, of: {0}]

Init ==
    /\ expenses = <<>>
    /\ settlements \in {<<>>} \cup {<<s>> : s \in Legacy}
    /\ groupCurrency \in Currencies
    /\ shown = [m \in Members |-> groupCurrency]
    /\ edits = 0

-----------------------------------------------------------------------------
(* What the pages and the checks see.                                      *)

\* The debts of the pairs of ms, expenses without a currency being taken to
\* be in the given one.
Debts(ms, default) ==
    PairDebts(toEngineExpenses(expenses, default), toEngineSettlements(settlements), ms)

\* The check of a proposal looks at its two members only.
RemainingDebt(p, currency) == Debts({p[1], p[2]}, currency)[p]

\* Fault: only a settlement that was marked paid counts as a duplicate.
DuplicatePayment(p) ==
    \E i \in DOMAIN settlements :
        /\ settlements[i].status = "marked_paid"
        /\ <<settlements[i].from, settlements[i].to>> = p

DuplicateProposal(p) ==
    \E i \in DOMAIN settlements :
        /\ settlements[i].status = "proposed"
        /\ <<settlements[i].from, settlements[i].to>> = p

\* fetchGroupById, at the end of every operation; it may fail, which leaves
\* the tab as it was and the operation done.
Refresh(u) == shown' \in {shown, [shown EXCEPT ![u] = groupCurrency]}

Edits == edits < MaxEdits /\ edits' = edits + 1

-----------------------------------------------------------------------------
(* Expenses and the group's currency.                                      *)

createGroupExpense(u, x, payer, currency, splits) ==
    /\ x \notin DOMAIN expenses
    /\ expenses' = [y \in DOMAIN expenses \cup {x} |->
            IF y = x THEN [paidBy |-> payer, currency |-> currency, splits |-> splits]
            ELSE expenses[y]]
    /\ Refresh(u)
    /\ UNCHANGED <<settlements, groupCurrency, edits>>

\* Anybody may edit any expense; its currency stays.
updateGroupExpense(u, x, payer, splits) ==
    /\ Edits
    /\ x \in DOMAIN expenses
    /\ expenses' = [expenses EXCEPT ![x].paidBy = payer, ![x].splits = splits]
    /\ Refresh(u)
    /\ UNCHANGED <<settlements, groupCurrency>>

deleteGroupExpense(u, x) ==
    /\ Edits
    /\ x \in DOMAIN expenses
    /\ expenses' = Restrict(expenses, DOMAIN expenses \ {x})
    /\ Refresh(u)
    /\ UNCHANGED <<settlements, groupCurrency>>

\* An admin changes the currency of the group; other tabs are not told.
updateGroupSettings(u, currency) ==
    /\ Edits
    /\ currency # groupCurrency
    /\ groupCurrency' = currency
    /\ shown' = [shown EXCEPT ![u] = currency]
    /\ UNCHANGED <<expenses, settlements>>

OpenGroup(u) ==
    /\ shown[u] # groupCurrency
    /\ Refresh(u)
    /\ UNCHANGED <<expenses, settlements, groupCurrency, edits>>

-----------------------------------------------------------------------------
(* Settlements.                                                            *)

proposeSettlement(u, p, amount) ==
    /\ Len(settlements) < MaxSettlements
    /\ ~DuplicateProposal(p)
    /\ amount - RemainingDebt(p, shown[u]) <= Tolerance
    /\ settlements' = Append(settlements,
            [from |-> p[1], to |-> p[2], amount |-> amount, currency |-> shown[u],
             status |-> "proposed", paid |-> 0, of |-> 0])
    /\ Refresh(u)
    /\ UNCHANGED <<expenses, groupCurrency, edits>>

\* Fault: the status is not looked at.
MovesFromAny(u, i, party, froms, to) ==
    /\ i \in DOMAIN settlements
    /\ u = party
    /\ settlements' = [settlements EXCEPT ![i].status = to]
    /\ Refresh(u)
    /\ UNCHANGED <<expenses, groupCurrency, edits>>

\* The transitions of a settlement: who may make them, and from where.
Moves(u, i, party, froms, to) ==
    /\ i \in DOMAIN settlements
    /\ u = party
    /\ settlements[i].status \in froms
    /\ settlements' = [settlements EXCEPT ![i].status = to]
    /\ Refresh(u)
    /\ UNCHANGED <<expenses, groupCurrency, edits>>

\* The transitions that the engine allows, for the party that it or the store demands.
markAsPaid(u, i) == Moves(u, i, settlements[i].from, {"proposed"}, "marked_paid")
confirmReceipt(u, i) == Moves(u, i, settlements[i].to, {"marked_paid"}, "approved")
rejectProposal(u, i) == Moves(u, i, settlements[i].to, {"proposed"}, "rejected")
rejectPayment(u, i) == Moves(u, i, settlements[i].to, {"marked_paid"}, "rejected")
cancelProposal(u, i) == Moves(u, i, settlements[i].from, {"proposed"}, "cancelled")

\* With the whole amount, or without one.
markSettlementAsPaid(u, i) == markAsPaid(u, i)

\* Fault: the remainder asks for the whole amount again.
WholeAgain(i, paid) == [settlements[i] EXCEPT !.of = i]

Remainder(i, paid) ==
    [settlements[i] EXCEPT !.amount = @ - paid, !.of = i]

\* Fault: paying the whole amount leaves a remainder of nothing.
PaysWholeInPart(u, i, paid) ==
    /\ i \in DOMAIN settlements
    /\ Len(settlements) < MaxSettlements
    /\ u = settlements[i].from
    /\ settlements[i].status = "proposed"
    /\ paid <= settlements[i].amount
    /\ settlements' = Append([settlements EXCEPT ![i].status = "superseded",
                                                 ![i].paid = paid],
                             Remainder(i, paid))
    /\ Refresh(u)
    /\ UNCHANGED <<expenses, groupCurrency, edits>>

\* With an amount below the settlement's: the settlement is superseded by a
\* new proposal for the rest.
payInPart(u, i, paid) ==
    /\ i \in DOMAIN settlements
    /\ Len(settlements) < MaxSettlements
    /\ u = settlements[i].from
    /\ settlements[i].status = "proposed"
    /\ paid < settlements[i].amount
    /\ settlements' = Append([settlements EXCEPT ![i].status = "superseded",
                                                 ![i].paid = paid],
                             Remainder(i, paid))
    /\ Refresh(u)
    /\ UNCHANGED <<expenses, groupCurrency, edits>>

acceptSettlement(u, i) == confirmReceipt(u, i)

\* The creditor refuses what is asked for, or denies that it was paid.
rejectSettlement(u, i) == rejectProposal(u, i) \/ rejectPayment(u, i)

cancelSettlement(u, i) == cancelProposal(u, i)

Next ==
    \E u \in Members :
        \/ \E x \in Expenses, payer \in Members, splits \in EvenSplits :
              \/ \E c \in StoredCurrencies : createGroupExpense(u, x, payer, c, splits)
              \/ updateGroupExpense(u, x, payer, splits)
        \/ \E x \in Expenses : deleteGroupExpense(u, x)
        \/ \E c \in Currencies : updateGroupSettings(u, c)
        \/ OpenGroup(u)
        \/ \E p \in Pairs, a \in Amounts : proposeSettlement(u, p, a)
        \/ \E i \in 1 .. MaxSettlements :
              \/ markSettlementAsPaid(u, i)
              \/ \E a \in Amounts : payInPart(u, i, a)
              \/ acceptSettlement(u, i)
              \/ rejectSettlement(u, i)
              \/ cancelSettlement(u, i)

Spec == Init /\ [][Next]_vars

-----------------------------------------------------------------------------
(* Properties.                                                             *)

\* The blob holds expenses and settlements only, with positive amounts: an
\* amount of zero or below passes none of the engine's checks.
TypeOK ==
    /\ DOMAIN expenses \subseteq Expenses
    /\ \A x \in DOMAIN expenses :
          expenses[x] \in [paidBy: Members, currency: Buckets, splits: Splits]
    /\ settlements \in Seq(Settlement)
    /\ groupCurrency \in Currencies
    /\ shown \in [Members -> Currencies]
    /\ edits \in 0 .. MaxEdits

\* A debtor has one open proposal towards a creditor at most, remainders of
\* partial payments included: findDuplicateProposal keeps two members from
\* settling one debt twice.
OneOpenProposal ==
    \A i, j \in DOMAIN settlements :
        /\ settlements[i].status = "proposed"
        /\ settlements[j].status = "proposed"
        /\ settlements[i].from = settlements[j].from
        /\ settlements[i].to = settlements[j].to
        => i = j

\* A settlement is superseded by one remainder, which asks for what was not
\* paid, of the same member for the same other one, in the same currency.
SupersededOnce ==
    \A j \in DOMAIN settlements :
        LET rest == {i \in DOMAIN settlements : settlements[i].of = j}
        IN  IF settlements[j].status = "superseded"
            THEN \E i \in rest :
                    /\ rest = {i}
                    /\ settlements[i].amount + settlements[j].paid = settlements[j].amount
                    /\ \A f \in {"from", "to", "currency"} :
                          settlements[i][f] = settlements[j][f]
            ELSE rest = {}

\* What settlement i took off the debt, by the words of computeNetBalances:
\* approved ones settle fully, superseded ones only the portion actually paid.
Took(i) ==
    CASE settlements[i].status = "approved" -> settlements[i].amount
      [] settlements[i].status = "superseded" -> settlements[i].paid
      [] OTHER -> 0

\* What a member is owed, net: their shares in others' expenses and what they
\* received count against them, what they paid for others counts for them.
Ledger(m) ==
    LET Shares(x) == IF expenses[x].paidBy = m
                     THEN SumFunction([o \in Members |->
                              IF o = m THEN 0 ELSE expenses[x].splits[o]])
                     ELSE -expenses[x].splits[m]
        Paid(i) == (IF settlements[i].from = m THEN Took(i) ELSE 0)
                   - (IF settlements[i].to = m THEN Took(i) ELSE 0)
    IN  SumFunction([x \in DOMAIN expenses |-> Shares(x)])
        + SumFunction([i \in DOMAIN settlements |-> Paid(i)])

\* computeNetBalances of the settlements as the blob has them, which is what the
\* overview, the list of former members and the statement pass it.
NetOfBlob ==
    NetBalances(PairDebts(toEngineExpenses(expenses, groupCurrency), settlements, Members))

\* The balances of the groups' list, of a group and of the store's own checks, of what
\* toEngineSettlements leaves.
NetNow == NetBalances(Debts(Members, groupCurrency))

NothingSettled(m) ==
    \A i \in DOMAIN settlements :
        settlements[i].status = "approved" => m \notin {settlements[i].from, settlements[i].to}

\* Buckets, caps, debts turned around and debts netted against each other do
\* not change what anybody is owed in total: computeNetBalances of a blob agrees
\* with the plain sums, whatever the order of settlements, whatever was overpaid
\* and whatever was paid in part.  The entries of a member's statement (buildPersonalLog)
\* end on the balance of the group, until a settlement of theirs is approved.
BalancesAddUp ==
    \A m \in Members :
        /\ NetOfBlob[m] = Ledger(m)
        /\ NothingSettled(m) => StatementBalance(expenses, settlements, m) = NetNow[m]

Final == {"approved", "rejected", "cancelled", "superseded"}

\* Settlements are only ever added.  What was agreed on never changes, a final
\* status is final, and a settlement is approved only after it was marked paid.
LifeCycle ==
    [][ /\ Len(settlements') >= Len(settlements)
        /\ \A i \in DOMAIN settlements :
              LET old == settlements[i]
                  new == settlements'[i]
              IN  /\ \A f \in {"from", "to", "amount", "currency", "of"} : new[f] = old[f]
                  /\ old.status \in Final => new = old
                  /\ new.status = "approved" => old.status \in {"marked_paid", "approved"}
      ]_vars

-----------------------------------------------------------------------------
(* What the code says of itself, and does not keep to.                     *)

\* groupSettlementStore.ts, lines 64 and 65: proposals are refused that would
\* overpay the debt, because "approving an oversized settlement silently
\* reverses balances".  So approving a settlement never leaves its creditor
\* owing its debtor more than before.
ApprovalNeverReverses ==
    [][ \A i \in DOMAIN settlements :
          LET s == settlements[i]
              back == <<s.to, s.from>>
          IN  s.status # "approved" /\ settlements'[i].status = "approved" =>
                  Debts(Members, groupCurrency)'[back]
                      <= Debts(Members, groupCurrency)[back] + Tolerance
      ]_vars

\* balanceCalculator.ts, lines 125 and 126: of a superseded settlement, "the portion
\* actually paid" is settled.  So the balances of the group count it.
PaidPartCounts == \A m \in Members : NetNow[m] = Ledger(m)
=============================================================================
