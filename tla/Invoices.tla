------------------------------ MODULE Invoices ------------------------------
(***************************************************************************)
(* The invoices tab of a group (web pages/groups/GroupInvoicesTab.tsx):    *)
(* balances of a window of days, the warning about settlements that exceed *)
(* a debt, and Settle All.  The tab reads one state of the blob, so that   *)
(* each step here looks at another one.  Days count from an arbitrary one  *)
(* up to ThisDay; the amounts are whole cents.                               *)
(***************************************************************************)
EXTENDS Transfers

CONSTANTS
    Housemates,  \* everybody who is or was in the group
    Sums,        \* amounts of expenses and settlements
    ThisDay

ASSUME InvoicesAssumption == IsFiniteSet(Housemates) /\ Sums \subseteq Nat \ {0} /\ ThisDay \in Nat

VARIABLE invoice  \* what the tab looks at

Books == INSTANCE Balances WITH
             Members <- Housemates, Currencies <- {"own", "former"}, NoCurrency <- "none"

Nobody == [expenses |-> <<>>, settlements |-> <<>>, left |-> {}, from |-> 0]

InvoicesInit == invoice = Nobody

\* An expense that one housemate paid for another one.  The tab takes every
\* expense to be in the currency of the group, whatever it says itself.
Paid(payer, other, amount, day) ==
    [paidBy |-> payer, currency |-> "own", day |-> day,
     splits |-> [h \in Housemates |-> IF h = other THEN amount ELSE 0]]

\* A settlement keeps the currency it was proposed in, which may be the one the
\* group had formerly, or none.
Pays(pair, amount, status, currency, day) ==
    [from |-> pair[1], to |-> pair[2], amount |-> amount, status |-> status, paid |-> 0,
     currency |-> currency, day |-> day]

Couples == {p \in Housemates \X Housemates : p[1] # p[2]}

\* Two expenses, of which the second is the older one.  Housemates have no names:
\* whoever paid the first one stands for everybody.
SomeExpenses(days) ==
    LET payer == CHOOSE h \in Housemates : TRUE
    IN  {<<Paid(payer, other, a, d), Paid(q[1], q[2], 1, 0)>> :
            other \in Housemates \ {payer}, q \in Couples, a \in Sums, d \in days}

Approvals(days) ==
    {<<>>} \cup {<<Pays(p, 1, "approved", "own", d)>> : p \in Couples, d \in days}

LookAtBalances ==
    /\ invoice = Nobody
    /\ \E es \in SomeExpenses(0..ThisDay), ss \in Approvals(0..ThisDay),
          gone \in {{}} \cup {{h} : h \in Housemates}, first \in 0..ThisDay :
        invoice' = [expenses |-> es, settlements |-> ss, left |-> gone, from |-> first]

LookAtWarnings ==
    /\ invoice = Nobody
    /\ \E es \in SomeExpenses({0}), ss \in Approvals({0}), p \in Couples, a \in Sums,
          c \in {"own", "former", "none"} :
        invoice' = [Nobody EXCEPT !.expenses = es,
                                  !.settlements = ss \o <<Pays(p, a, "proposed", c, 0)>>]

InvoicesNext == LookAtBalances \/ LookAtWarnings

InvoicesSpec == InvoicesInit /\ [][InvoicesNext]_invoice

-----------------------------------------------------------------------------
\* What the window shows, at the places it has in the blob: the engine takes the
\* settlements in their order, whatever lies between them.
Filtered(entries) == Restrict(entries, {k \in DOMAIN entries : entries[k].day >= invoice.from})

FilteredExpenses == Filtered(invoice.expenses)
FilteredSettlements == Filtered(invoice.settlements)

DebtsOf(es, ss) == Books!PairDebts(es, ss, Housemates)

\* The balances of the window, of those who are still in the group.
ActiveBalances ==
    LET net == Books!NetBalances(DebtsOf(FilteredExpenses, FilteredSettlements))
    IN  [h \in Housemates |-> IF h \in invoice.left THEN 0 ELSE net[h]]

\* The transfers that Settle All proposes, one after the other.
Optimized(net) == MinimalTransfers(net)

\* Those that get through: proposeSettlement knows no window, and refuses what the
\* debt between the two does not cover, so that a transfer that stands for the
\* debts of several pairs is refused.
Proposed(transfers) ==
    LET owed == DebtsOf(invoice.expenses, invoice.settlements)
    IN  {t \in Range(transfers) : t.amount <= owed[<<t.from, t.to>>]}

\* The tab warns of a settlement that exceeds the debt there would be without it.
Oversized(i) ==
    LET s == invoice.settlements[i]
        others == RemoveAt(invoice.settlements, i)
    IN  s.amount > DebtsOf(invoice.expenses, others)[<<s.from, s.to>>]

\* What anybody is owed by p[1] that p[2] was not owed before: the debt turns.
Reverses(s, ss) ==
    LET back == <<s.to, s.from>>
    IN  DebtsOf(invoice.expenses, Append(ss, [s EXCEPT !.status = "approved"]))[back]
            > DebtsOf(invoice.expenses, ss)[back]

Size(n) == IF n < 0 THEN -n ELSE n

\* Settle All clears all debts of the window but for what is owed to or by those
\* who left: its transfers never let anybody pay who is owed, nor more than is
\* owed.  None of those that get through turns a debt around when it is approved.
SettleAllSettles ==
    LET net == ActiveBalances
        ts == Optimized(net)
        after == [h \in Housemates |-> net[h] + SentIn(ts, h) - GotIn(ts, h)]
    IN  /\ \A h \in Housemates : Size(after[h]) <= Size(net[h]) /\ after[h] * net[h] >= 0
        /\ SumFunction([h \in Housemates |-> Size(after[h])]) = Size(SumFunction(net))
        /\ \A t \in Proposed(ts) :
              ~Reverses(Pays(<<t.from, t.to>>, t.amount, "proposed", "own", ThisDay),
                        invoice.settlements)

\* The tab warns before an approval that turns a debt around, of a settlement in
\* the currency of the group or without one.
WarnedBeforeReversal ==
    \A i \in DOMAIN invoice.settlements :
        LET s == invoice.settlements[i] IN
        s.status = "proposed" /\ s.currency # "former" /\ ~Oversized(i)
            => ~Reverses(s, RemoveAt(invoice.settlements, i))
=============================================================================
