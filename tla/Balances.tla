------------------------------ MODULE Balances ------------------------------
(***************************************************************************)
(* The balance engine of the shared package: who owes whom, given the      *)
(* expenses and settlements of a group.  Amounts are whole cents: the code *)
(* rounds every result to cents, and every amount it is given here was     *)
(* rounded when stored.                                                    *)
(*                                                                         *)
(* An expense is a record [paidBy, currency, splits], splits giving every  *)
(* member's share, zero for members without one.  A settlement is a record *)
(* with (at least) from, to, amount, currency, status and paid, the amount *)
(* paid before the settlement was superseded by its remainder.             *)
(***************************************************************************)
EXTENDS Integers, Sequences, FiniteSets, SequencesExt

CONSTANTS Members,     \* everybody who is or was in the group
          Currencies,
          NoCurrency   \* the currency of an expense or settlement without one

ASSUME MembersAssumption == IsFiniteSet(Members)
ASSUME CurrenciesAssumption == IsFiniteSet(Currencies) /\ NoCurrency \notin Currencies

Buckets == Currencies \cup {NoCurrency}
Pairs == Members \X Members       \* <<debtor, creditor>>
Back(p) == <<p[2], p[1]>>
Within(p, ms) == p[1] \in ms /\ p[2] \in ms
Positive(n) == IF n > 0 THEN n ELSE 0

(***************************************************************************)
(* From the blob to the engine.  Neither an expense nor a settlement is    *)
(* taken over unchanged: an expense without a currency gets the given one, *)
(* and a settlement loses the amount that was paid of it.                  *)
(***************************************************************************)
toEngineExpenses(es, default) ==
    [x \in DOMAIN es |->
        [es[x] EXCEPT !.currency = IF @ = NoCurrency THEN default ELSE @]]

toEngineSettlements(ss) == [i \in DOMAIN ss |-> [ss[i] EXCEPT !.paid = 0]]

(***************************************************************************)
(* computeNetBalances, for the members ms.                                 *)
(***************************************************************************)
ExpenseDebts(es, ms) ==
    [c \in Buckets |-> [p \in Pairs |->
        IF Within(p, ms)
        THEN SumFunction([x \in DOMAIN es |->
                IF es[x].currency = c /\ es[x].paidBy = p[2]
                THEN es[x].splits[p[1]] ELSE 0])
        ELSE 0]]

\* What a settlement takes off the debt: an approved one all of it, a
\* superseded one the part that was paid, every other one nothing.
SettledAmount(s) ==
    CASE s.status = "approved" -> s.amount
      [] s.status = "superseded" -> s.paid
      [] OTHER -> 0

HasDebt(debts, c) == \E p \in Pairs : debts[c][p] > 0

\* A settlement without a currency goes to the only currency with debts, if
\* there is one and the bucket of debts without a currency has none.
BucketOf(debts, s) ==
    LET others == {c \in Currencies : HasDebt(debts, c)}
    IN  IF s.currency = NoCurrency /\ ~HasDebt(debts, NoCurrency)
                                   /\ Cardinality(others) = 1
        THEN CHOOSE c \in others : TRUE
        ELSE s.currency

\* Fault: what exceeds the debt is forgotten.
ForgetsExcess(debts, s) ==
    LET c == BucketOf(debts, s)
    IN  [debts EXCEPT ![c][<<s.from, s.to>>] = Positive(@ - SettledAmount(s))]

\* More than is owed turns into a debt the other way.
Settle(debts, s) ==
    LET c == BucketOf(debts, s)
        owed == <<s.from, s.to>>
        left == debts[c][owed] - SettledAmount(s)
        paid == [debts[c] EXCEPT ![owed] = Positive(left)]
    IN  [debts EXCEPT ![c] = [paid EXCEPT ![Back(owed)] = @ + Positive(-left)]]

SettleAll(debts, ss, ms) ==
    FoldLeft(LAMBDA d, s : IF SettledAmount(s) > 0 /\ Within(<<s.from, s.to>>, ms)
                           THEN Settle(d, s) ELSE d,
             debts, ss)

\* Two members who owe each other owe the difference only.
Netted(bucket) ==
    [p \in Pairs |-> IF bucket[p] > 0 /\ bucket[Back(p)] > 0
                     THEN Positive(bucket[p] - bucket[Back(p)])
                     ELSE bucket[p]]

PairDebts(es, ss, ms) ==
    LET debts == SettleAll(ExpenseDebts(es, ms), ss, ms)
        netted == [c \in Buckets |-> Netted(debts[c])]
    IN  [p \in Pairs |-> IF p[1] = p[2] THEN 0
                         ELSE SumFunction([c \in Buckets |-> netted[c][p]])]

NetBalances(owes) ==
    [m \in Members |-> SumFunction([o \in Members |-> owes[<<o, m>>] - owes[<<m, o>>]])]

(***************************************************************************)
(* buildPersonalLog: the statement of member m, one entry for each expense *)
(* m has part in and each approved settlement of m; the balance of the     *)
(* last entry is the sum of their shares.                                  *)
(***************************************************************************)
\* Fault: payers count their own share as owed to them.
EverybodyOwes(e, m) == SumFunction(e.splits)

OthersOwe(e, m) == SumFunction(Restrict(e.splits, Members \ {m}))

ExpenseShare(e, m) == IF e.paidBy = m THEN OthersOwe(e, m) ELSE -e.splits[m]

\* Who sends goes down, who receives goes up.
SettlementShare(s, m) ==
    (IF s.to = m THEN s.amount ELSE 0) - (IF s.from = m THEN s.amount ELSE 0)

StatementBalance(es, ss, m) ==
    SumFunction([x \in DOMAIN es |-> ExpenseShare(es[x], m)])
    + SumFunction([i \in DOMAIN ss |->
            IF ss[i].status = "approved" THEN SettlementShare(ss[i], m) ELSE 0])
=============================================================================
