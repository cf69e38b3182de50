------------------------------ MODULE Transfers ------------------------------
(***************************************************************************)
(* generateMinimalTransfers of the shared package: the few transfers that  *)
(* clear all debts.  net gives what everybody is owed, in whole cents,     *)
(* below zero what they owe.                                               *)
(***************************************************************************)
EXTENDS Integers, Sequences, FiniteSets, SequencesExt

ByAmount(net, ms) ==
    CHOOSE s \in SetToSeqs(ms) : \A i, j \in DOMAIN s : i < j => net[s[i]] >= net[s[j]]

Owing(net, ms) == [i \in DOMAIN ms |-> [user |-> ms[i], amount |-> net[ms[i]]]]

\* Fault: both sides advance after every transfer.
AlwaysAdvances(people, amount) == Tail(people)

Advance(people, amount) ==
    IF people[1].amount = amount THEN Tail(people)
    ELSE [people EXCEPT ![1].amount = @ - amount]

\* The largest creditor and the largest debtor settle as much as they can, until
\* one side is exhausted.
Transfer(t) ==
    IF t.creditors = <<>> \/ t.debtors = <<>> THEN t
    ELSE LET c == t.creditors[1]
             d == t.debtors[1]
             amount == IF c.amount < d.amount THEN c.amount ELSE d.amount
         IN  [creditors |-> Advance(t.creditors, amount),
              debtors |-> Advance(t.debtors, amount),
              transfers |-> Append(t.transfers,
                  [from |-> d.user, to |-> c.user, amount |-> amount])]

MinimalTransfers(net) ==
    LET people == DOMAIN net
        debt == [m \in people |-> -net[m]]
        start == [creditors |-> Owing(net, ByAmount(net, {m \in people : net[m] > 0})),
                  debtors |-> Owing(debt, ByAmount(debt, {m \in people : debt[m] > 0})),
                  transfers |-> <<>>]
    IN  FoldLeft(LAMBDA t, k : Transfer(t), start,
                 [k \in 1 .. Cardinality(people) |-> k]).transfers

\* What m sends, and gets, by the transfers ts.
SentIn(ts, m) == SumFunction([k \in DOMAIN ts |-> IF ts[k].from = m THEN ts[k].amount ELSE 0])
GotIn(ts, m) == SumFunction([k \in DOMAIN ts |-> IF ts[k].to = m THEN ts[k].amount ELSE 0])

\* The transfers of generateMinimalTransfers bring every balance to zero, take
\* fewer transfers than there are members, and nobody both pays and receives.
TransfersSettle(net) ==
    LET ts == MinimalTransfers(net)
    IN  /\ \A m \in DOMAIN net : net[m] + SentIn(ts, m) = GotIn(ts, m)
        /\ \A m \in DOMAIN net : SentIn(ts, m) = 0 \/ GotIn(ts, m) = 0
        /\ DOMAIN net # {} => Len(ts) < Cardinality(DOMAIN net)
=============================================================================
