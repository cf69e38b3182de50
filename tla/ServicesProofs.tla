--------------------------- MODULE ServicesProofs ---------------------------
(***************************************************************************)
(* The promises of the parts, for the specification that runs one of them  *)
(* at a time: the invariants of PartsProofs and those, here, of the        *)
(* invoices of a group and of what the pages of a tab show.                *)
(***************************************************************************)
EXTENDS MCServices, PartsProofs

-----------------------------------------------------------------------------
(* Invoices                                                                *)

\* The sums of the engine.
LEMMA BooksSum == ASSUME NEW f PROVE Books!SumFunction(f) = SumFunction(f)
  BY DEF Books!SumFunction, SumFunction, Books!SumFunctionOnSet, SumFunctionOnSet,
         Books!FoldFunctionOnSet, FoldFunctionOnSet, Books!MapThenFoldSet, MapThenFoldSet

LEMMA BooksCardinality == ASSUME NEW S PROVE Books!Cardinality(S) = Cardinality(S)
  BY DEF Books!Cardinality, Cardinality

Coins == {"own", "former", "none"}
Twos == Housemates \X Housemates

LEMMA BooksAre == Books!Buckets = Coins /\ Books!Pairs = Twos /\ IsFiniteSet(Coins) /\ IsFiniteSet(Housemates)
<1>1. IsFiniteSet({}) /\ IsFiniteSet({"own"}) /\ IsFiniteSet({"own", "former"}) /\ IsFiniteSet({"own", "former", "none"})
  <2>1. IsFiniteSet({})
    BY FS_EmptySet
  <2>2. \A S, x : IsFiniteSet(S) => IsFiniteSet(S \cup {x})
    BY FS_AddElement
  <2>3. {"own"} = {} \cup {"own"} /\ {"own", "former"} = {"own"} \cup {"former"}
        /\ {"own", "former", "none"} = {"own", "former"} \cup {"none"}
    OBVIOUS
  <2>4. IsFiniteSet({"own"})
    BY <2>1, <2>2, <2>3
  <2>5. IsFiniteSet({"own", "former"})
    BY <2>2, <2>3, <2>4
  <2> QED
    BY <2>1, <2>2, <2>3, <2>4, <2>5
<1>2. Books!Buckets = Coins /\ Books!Pairs = Twos
  BY DEF Books!Buckets, Books!Pairs, Coins, Twos
<1> QED
  BY <1>1, <1>2, InvoicesAssumption DEF Coins

\* The debts of a group that only ever spent in its own currency.
OwnTables == {d \in [Coins -> [Twos -> Nat]] : \A p \in Twos : d["former"][p] = 0 /\ d["none"][p] = 0}

Spends(e) == e.paidBy \in Housemates /\ e.currency = "own" /\ e.splits \in [Housemates -> Nat]

Payments == [from : Housemates, to : Housemates, amount : Nat \ {0}, status : {"approved", "proposed"},
             paid : {0}, currency : Coins, day : Nat]
Approves(s) == s \in Payments /\ (s.status = "approved" => s.currency = "own")

LEMMA OwnTable ==
    ASSUME NEW d \in OwnTables
    PROVE  /\ d \in [Coins -> [Twos -> Nat]]
           /\ d["own"] \in [Twos -> Nat]
           /\ \A c \in Coins : \A p \in Twos : d[c][p] \in Nat /\ (c # "own" => d[c][p] = 0)
<1>1. d \in [Coins -> [Twos -> Nat]] /\ \A p \in Twos : d["former"][p] = 0 /\ d["none"][p] = 0
  BY DEF OwnTables
<1>2. "own" \in Coins /\ \A c \in Coins : c = "own" \/ c = "former" \/ c = "none"
  BY DEF Coins
<1>3. \A c \in Coins : d[c] \in [Twos -> Nat]
  BY <1>1
<1> QED
  BY <1>1, <1>2, <1>3

\* The debts of the expenses.
LEMMA SpendingDebts ==
    ASSUME NEW es, IsFiniteSet(DOMAIN es), \A x \in DOMAIN es : Spends(es[x])
    PROVE  Books!ExpenseDebts(es, Housemates) \in OwnTables
<1>1. PICK D : D = DOMAIN es /\ IsFiniteSet(D)
  OBVIOUS
<1>2. PICK owing : owing = [c \in Coins |-> [p \in Twos |-> [x \in D |->
            IF es[x].currency = c /\ es[x].paidBy = p[2] THEN es[x].splits[p[1]] ELSE 0]]]
  OBVIOUS
<1>3. ASSUME NEW c \in Coins, NEW p \in Twos
      PROVE  owing[c][p] \in [D -> Nat] /\ (c # "own" => \A x \in D : owing[c][p][x] = 0)
  <2>1. \A x \in D : es[x].splits[p[1]] \in Nat /\ es[x].currency = "own"
    BY <1>1 DEF Spends, Twos
  <2>2. owing[c][p] = [x \in D |-> IF es[x].currency = c /\ es[x].paidBy = p[2] THEN es[x].splits[p[1]] ELSE 0]
    BY <1>2
  <2> QED
    BY <2>1, <2>2
<1>4. PICK d : d = [c \in Coins |-> [p \in Twos |-> SumFunction(owing[c][p])]]
  OBVIOUS
<1>5. ASSUME NEW c \in Coins, NEW p \in Twos
      PROVE  d[c][p] \in Nat /\ (c # "own" => d[c][p] = 0)
  <2>1. PICK f \in [D -> Nat] : f = owing[c][p]
    BY <1>3
  <2>2. d[c][p] = SumFunction(f)
    BY <1>4, <2>1
  <2>3. SumFunction(f) \in Nat
    BY <1>1, SumIsNat
  <2>4. ASSUME c # "own" PROVE SumFunction(f) = 0
    <3>1. f \in [D -> Int] /\ \A x \in D : f[x] = 0
      BY <1>3, <2>1, <2>4
    <3> QED
      BY <1>1, <3>1, SumZero
  <2> QED
    BY <2>2, <2>3, <2>4
<1>6. d \in OwnTables
  <2>1. d \in [Coins -> [Twos -> Nat]]
    BY <1>4, <1>5
  <2>2. "former" \in Coins /\ "none" \in Coins
    BY DEF Coins
  <2> QED
    BY <1>5, <2>1, <2>2 DEF OwnTables
<1>7. Books!ExpenseDebts(es, Housemates) = d
  <2>1. ASSUME NEW c \in Coins, NEW p \in Twos
        PROVE  Books!SumFunction([x \in DOMAIN es |->
                   IF es[x].currency = c /\ es[x].paidBy = p[2] THEN es[x].splits[p[1]] ELSE 0]) = d[c][p]
    <3>1. owing[c][p] = [x \in DOMAIN es |-> IF es[x].currency = c /\ es[x].paidBy = p[2] THEN es[x].splits[p[1]] ELSE 0]
      BY <1>1, <1>2
    <3>2. d[c][p] = SumFunction(owing[c][p])
      BY <1>4
    <3> QED
      BY <3>1, <3>2, BooksSum
  <2>2. \A p \in Twos : Books!Within(p, Housemates)
    BY DEF Books!Within, Twos
  <2>3. Books!ExpenseDebts(es, Housemates) = [c \in Coins |-> [p \in Twos |-> d[c][p]]]
    BY <2>1, <2>2, BooksAre DEF Books!ExpenseDebts
  <2>4. d = [c \in Coins |-> [p \in Twos |-> d[c][p]]]
    BY <1>4
  <2> QED
    BY <2>3, <2>4
<1> QED
  BY <1>6, <1>7

LEMMA AmountIs ==
    ASSUME NEW s \in Payments
    PROVE  Books!SettledAmount(s) = IF s.status = "approved" THEN s.amount ELSE 0
  BY DEF Books!SettledAmount, Payments

LEMMA BucketOfPayment ==
    ASSUME NEW d \in OwnTables, NEW s \in Payments,
           s.currency = "own" \/ (s.currency = "none" /\ \E p \in Twos : d["own"][p] > 0)
    PROVE  Books!BucketOf(d, s) = "own"
<1>1. CASE s.currency = "own"
  BY <1>1 DEF Books!BucketOf
<1>2. CASE s.currency = "none" /\ \E p \in Twos : d["own"][p] > 0
  <2>1. Books!HasDebt(d, "own") /\ ~Books!HasDebt(d, "former") /\ ~Books!HasDebt(d, "none")
    <3>1. \A p \in Twos : d["former"][p] = 0 /\ d["none"][p] = 0
      BY DEF OwnTables
    <3> QED
      BY <1>2, <3>1, BooksAre DEF Books!HasDebt
  <2>2. {c \in {"own", "former"} : Books!HasDebt(d, c)} = {"own"}
    BY <2>1
  <2>3. Cardinality({"own"}) = 1
    BY FS_Singleton
  <2>4. (CHOOSE c \in {"own"} : TRUE) = "own"
    OBVIOUS
  <2>5. Books!Cardinality({"own"}) = 1
    BY <2>3, BooksCardinality
  <2> QED
    BY <1>2, <2>1, <2>2, <2>4, <2>5 DEF Books!BucketOf
<1> QED
  BY <1>1, <1>2

\* One settlement after the other.
SettleNext(d, s) ==
    IF Books!SettledAmount(s) > 0 /\ Books!Within(<<s.from, s.to>>, Housemates) THEN Books!Settle(d, s) ELSE d

\* What a settlement of a does to the debts b, from f to t.
Pays2(b, e, f, t, a) ==
    /\ e \in [Twos -> Nat]
    /\ f # t => /\ e[<<f, t>>] = Books!Positive(b[<<f, t>>] - a)
                /\ e[<<t, f>>] = b[<<t, f>>] + Books!Positive(-(b[<<f, t>>] - a))

LEMMA SettleOwn ==
    ASSUME NEW d \in OwnTables, NEW s \in Payments, s.status = "approved", Books!BucketOf(d, s) = "own"
    PROVE  /\ Books!Settle(d, s) = SettleNext(d, s) /\ SettleNext(d, s) \in OwnTables
           /\ Pays2(d["own"], SettleNext(d, s)["own"], s.from, s.to, s.amount)
<1>1. PICK f \in Housemates, t \in Housemates, a \in Nat \ {0} : f = s.from /\ t = s.to /\ a = s.amount
  BY DEF Payments
<1>2. Books!SettledAmount(s) = a
  BY <1>1, AmountIs
<1>3. PICK b \in [Twos -> Nat] : b = d["own"]
  BY OwnTable
<1>4. <<f, t>> \in Twos /\ <<t, f>> \in Twos /\ Books!Back(<<f, t>>) = <<t, f>>
  BY DEF Twos, Books!Back
<1>5. \A n \in Int : Books!Positive(n) \in Nat
  BY DEF Books!Positive
<1>6. PICK left \in Int : left = b[<<f, t>>] - a
  <2>1. b[<<f, t>>] \in Nat
    BY <1>4
  <2>2. b[<<f, t>>] - a \in Int
    BY <2>1
  <2> QED
    BY <2>2
<1>7. PICK paid : paid = [b EXCEPT ![<<f, t>>] = Books!Positive(left)]
  OBVIOUS
<1>8. paid \in [Twos -> Nat] /\ paid[<<f, t>>] = Books!Positive(left) /\ (f # t => paid[<<t, f>>] = b[<<t, f>>])
  BY <1>4, <1>5, <1>7
<1>9. PICK e : e = [paid EXCEPT ![<<t, f>>] = @ + Books!Positive(-left)]
  OBVIOUS
<1>10. /\ e \in [Twos -> Nat] /\ e[<<t, f>>] = paid[<<t, f>>] + Books!Positive(-left)
       /\ f # t => e[<<f, t>>] = paid[<<f, t>>]
  <2>1. -left \in Int
    OBVIOUS
  <2>2. Books!Positive(-left) \in Nat /\ paid[<<t, f>>] \in Nat
    BY <1>4, <1>5, <1>8, <2>1
  <2>3. paid[<<t, f>>] + Books!Positive(-left) \in Nat
    BY <2>2
  <2> QED
    BY <1>4, <1>8, <1>9, <2>3
<1>11. Pays2(b, e, f, t, a)
  BY <1>6, <1>8, <1>10 DEF Pays2
<1>12. PICK n : n = [d EXCEPT !["own"] = e]
  OBVIOUS
<1>13. n \in OwnTables /\ n["own"] = e
  <2>1. d \in [Coins -> [Twos -> Nat]] /\ \A p \in Twos : d["former"][p] = 0 /\ d["none"][p] = 0
    BY DEF OwnTables
  <2>2. "own" \in Coins /\ "former" \in Coins /\ "none" \in Coins
    BY DEF Coins
  <2>3. n \in [Coins -> [Twos -> Nat]] /\ n["own"] = e /\ n["former"] = d["former"] /\ n["none"] = d["none"]
    BY <1>10, <1>12, <2>1, <2>2
  <2> QED
    BY <2>1, <2>3 DEF OwnTables
<1>14. Books!Settle(d, s) = n
  <2>1. Books!Settle(d, s) =
          [d EXCEPT !["own"] = [[d["own"] EXCEPT ![<<f, t>>] = Books!Positive(d["own"][<<f, t>>] - a)]
                                    EXCEPT ![<<t, f>>] = @ + Books!Positive(-(d["own"][<<f, t>>] - a))]]
    BY <1>1, <1>2, <1>4 DEF Books!Settle
  <2> QED
    BY <1>3, <1>6, <1>7, <1>9, <1>12, <2>1, Zenon
<1>15. SettleNext(d, s) = Books!Settle(d, s)
  BY <1>1, <1>2 DEF SettleNext, Books!Within
<1> QED
  BY <1>1, <1>3, <1>11, <1>13, <1>14, <1>15

LEMMA SettleKeepsOwn ==
    ASSUME NEW d \in OwnTables, NEW s, Approves(s) PROVE SettleNext(d, s) \in OwnTables
<1>1. s \in Payments /\ (s.status = "approved" => s.currency = "own")
  BY DEF Approves
<1>2. CASE s.status = "approved"
  <2>1. Books!BucketOf(d, s) = "own"
    BY <1>1, <1>2, BucketOfPayment
  <2> QED
    BY <1>1, <1>2, <2>1, SettleOwn
<1>3. CASE s.status # "approved"
  <2>1. Books!SettledAmount(s) = 0
    BY <1>1, <1>3, AmountIs
  <2> QED
    BY <2>1 DEF SettleNext
<1> QED
  BY <1>2, <1>3

\* The table SettleAll chooses its result from.
SettleTable(g, debts, ss) ==
    g = [S \in SUBSET DOMAIN ss |-> IF S = {} THEN debts ELSE SettleNext(g[S \ {Max(S)}], ss[Max(S)])]

LEMMA BooksMax == ASSUME NEW S PROVE Books!Max(S) = Max(S)
  BY DEF Books!Max, Max

LEMMA SettleAllTable ==
    ASSUME NEW debts, NEW ss
    PROVE  Books!SettleAll(debts, ss, Housemates) = (CHOOSE g : SettleTable(g, debts, ss))[DOMAIN ss]
  BY BooksMax DEF Books!SettleAll, Books!FoldLeft, Books!MapThenFoldSet, SettleTable, SettleNext, Books!Max, Max

AllTables == [Coins -> [Twos -> Nat]]

LEMMA SettleStays == ASSUME NEW d \in AllTables, NEW s \in Payments PROVE SettleNext(d, s) \in AllTables
<1>1. PICK c \in Coins : c = Books!BucketOf(d, s)
  <2>1. s.currency \in Coins
    BY DEF Payments
  <2>2. PICK rivals : rivals = {c \in {"own", "former"} : Books!HasDebt(d, c)}
    OBVIOUS
  <2>3. Cardinality(rivals) = 1 => (CHOOSE c \in rivals : TRUE) \in rivals
    BY FS_EmptySet
  <2>4. Books!Cardinality(rivals) = 1 => (CHOOSE c \in rivals : TRUE) \in Coins
    BY <2>2, <2>3, BooksCardinality DEF Coins
  <2>5. Books!BucketOf(d, s) \in Coins
    BY <2>1, <2>2, <2>4 DEF Books!BucketOf
  <2> QED
    BY <2>5
<1>2. PICK f \in Housemates, t \in Housemates : f = s.from /\ t = s.to
  BY DEF Payments
<1>3. PICK a \in Nat : a = Books!SettledAmount(s)
  <2>1. s.amount \in Nat
    BY DEF Payments
  <2> QED
    BY <2>1, AmountIs
<1>4. PICK b \in [Twos -> Nat] : b = d[c]
  BY DEF AllTables
<1>5. <<f, t>> \in Twos /\ <<t, f>> \in Twos /\ Books!Back(<<f, t>>) = <<t, f>>
  BY DEF Twos, Books!Back
<1>6. \A n \in Int : Books!Positive(n) \in Nat
  BY DEF Books!Positive
<1>7. PICK left \in Int : left = b[<<f, t>>] - a
  <2>1. b[<<f, t>>] \in Nat
    BY <1>5
  <2>2. b[<<f, t>>] - a \in Int
    BY <2>1
  <2> QED
    BY <2>2
<1>8. PICK paid \in [Twos -> Nat] : paid = [b EXCEPT ![<<f, t>>] = Books!Positive(left)]
  <2>1. [b EXCEPT ![<<f, t>>] = Books!Positive(left)] \in [Twos -> Nat]
    BY <1>5, <1>6
  <2> QED
    BY <2>1
<1>9. PICK e \in [Twos -> Nat] : e = [paid EXCEPT ![<<t, f>>] = @ + Books!Positive(-left)]
  <2>1. -left \in Int
    OBVIOUS
  <2>2. Books!Positive(-left) \in Nat /\ paid[<<t, f>>] \in Nat
    BY <1>5, <1>6, <2>1
  <2>3. paid[<<t, f>>] + Books!Positive(-left) \in Nat
    BY <2>2
  <2>4. [paid EXCEPT ![<<t, f>>] = @ + Books!Positive(-left)] \in [Twos -> Nat]
    BY <1>5, <2>3
  <2> QED
    BY <2>4
<1>10. Books!Settle(d, s) = [d EXCEPT ![c] = e]
  <2>1. Books!Settle(d, s) =
          [d EXCEPT ![c] = [[d[c] EXCEPT ![<<f, t>>] = Books!Positive(d[c][<<f, t>>] - a)]
                                    EXCEPT ![<<t, f>>] = @ + Books!Positive(-(d[c][<<f, t>>] - a))]]
    BY <1>1, <1>2, <1>3, <1>5 DEF Books!Settle
  <2> QED
    BY <1>4, <1>7, <1>8, <1>9, <2>1, Zenon
<1>11. [d EXCEPT ![c] = e] \in AllTables
  BY DEF AllTables
<1> QED
  BY <1>10, <1>11 DEF SettleNext

LEMMA SettleTableExists ==
    ASSUME NEW n \in Nat, NEW ss, DOMAIN ss \in SUBSET (1..n), \A i \in DOMAIN ss : ss[i] \in Payments,
           NEW debts \in AllTables
    PROVE  \E g : SettleTable(g, debts, ss)
<1>1. PICK D \in SUBSET (1..n) : D = DOMAIN ss /\ IsFiniteSet(D)
  <2>1. 1 \in Int /\ n \in Int
    OBVIOUS
  <2>2. IsFiniteSet(1..n)
    BY <2>1, FS_Interval
  <2>3. IsFiniteSet(DOMAIN ss)
    BY <2>2, FS_Subset
  <2> QED
    BY <2>3
<1>2. PICK c : c = [s \in SUBSET D |-> Max(s)]
  OBVIOUS
<1>3. Picks(c, D)
  <2>1. ASSUME NEW s \in SUBSET D, s # {} PROVE c[s] \in s
    <3>1. s \in SUBSET (1..n)
      BY <1>1
    <3>2. Max(s) \in s
      BY <2>1, <3>1, LargestOf
    <3> QED
      BY <1>2, <3>2
  <2> QED
    BY <2>1 DEF Picks
<1>4. PICK step : step = [p \in D \X AllTables |-> SettleNext(p[2], ss[p[1]])]
  OBVIOUS
<1>5. step \in [D \X AllTables -> AllTables]
  <2>1. \A p \in D \X AllTables : SettleNext(p[2], ss[p[1]]) \in AllTables
    BY <1>1, SettleStays
  <2> QED
    BY <1>4, <2>1
<1>6. PICK g \in [SUBSET D -> AllTables] : Folds(g, D, c, step, debts)
  BY <1>1, <1>3, <1>5, FoldExists
<1>7. g = [s \in SUBSET D |-> IF s = {} THEN debts ELSE step[<<c[s], g[s \ {c[s]}]>>]]
  BY <1>6 DEF Folds
<1>8. ASSUME NEW s \in SUBSET D, s # {}
      PROVE  step[<<c[s], g[s \ {c[s]}]>>] = SettleNext(g[s \ {Max(s)}], ss[Max(s)])
  <2>1. c[s] = Max(s) /\ c[s] \in s
    BY <1>2, <1>3, <1>8 DEF Picks
  <2>2. PICK x \in D : x = c[s]
    BY <2>1
  <2>3. PICK b \in AllTables : b = g[s \ {x}]
    BY <1>6
  <2>4. step[<<x, b>>] = SettleNext(b, ss[x])
    BY <1>4
  <2> QED
    BY <2>1, <2>2, <2>3, <2>4
<1>9. g = [s \in SUBSET D |-> IF s = {} THEN debts ELSE SettleNext(g[s \ {Max(s)}], ss[Max(s)])]
  BY <1>7, <1>8
<1>10. SettleTable(g, debts, ss)
  BY <1>1, <1>9 DEF SettleTable
<1> QED
  BY <1>10

LEMMA SettledTable ==
    ASSUME NEW n \in Nat, NEW ss, DOMAIN ss \in SUBSET (1..n), \A i \in DOMAIN ss : Approves(ss[i]),
           NEW debts \in OwnTables
    PROVE  \E g : /\ SettleTable(g, debts, ss) /\ Books!SettleAll(debts, ss, Housemates) = g[DOMAIN ss]
                  /\ \A S \in SUBSET DOMAIN ss : g[S] \in OwnTables
<1>1. PICK g : SettleTable(g, debts, ss) /\ Books!SettleAll(debts, ss, Housemates) = g[DOMAIN ss]
  <2>1. debts \in AllTables /\ \A i \in DOMAIN ss : ss[i] \in Payments
    BY DEF OwnTables, AllTables, Approves
  <2>2. SettleTable(CHOOSE g : SettleTable(g, debts, ss), debts, ss)
    BY <2>1, SettleTableExists
  <2> QED
    BY <2>2, SettleAllTable
<1>2. PICK D \in SUBSET (1..n) : D = DOMAIN ss /\ IsFiniteSet(D)
  <2>1. 1 \in Int /\ n \in Int
    OBVIOUS
  <2>2. IsFiniteSet(1..n)
    BY <2>1, FS_Interval
  <2>3. IsFiniteSet(DOMAIN ss)
    BY <2>2, FS_Subset
  <2> QED
    BY <2>3
<1>3. PICK P : P = {S \in SUBSET D : g[S] \in OwnTables}
  OBVIOUS
<1>4. {} \in P
  BY <1>1, <1>2, <1>3 DEF SettleTable
<1>5. ASSUME NEW S \in SUBSET D, NEW y \in S, \A x \in S : S \ {x} \in P PROVE S \in P
  <2>1. S \in SUBSET (1..n) /\ S # {}
    BY <1>2
  <2>2. PICK x \in S : x = Max(S)
    BY <2>1, LargestOf
  <2>3. g[S] = SettleNext(g[S \ {x}], ss[x])
    BY <1>1, <1>2, <2>1, <2>2 DEF SettleTable
  <2>4. g[S \ {x}] \in OwnTables /\ Approves(ss[x])
    BY <1>2, <1>3, <1>5
  <2>5. g[S] \in OwnTables
    BY <2>3, <2>4, SettleKeepsOwn
  <2> QED
    BY <1>3, <2>5
<1>6. \A S \in SUBSET D : S \in P
  <2>1. ASSUME NEW S \in SUBSET D, \A T \in SUBSET D : Cardinality(T) < Cardinality(S) => T \in P
        PROVE  S \in P
    <3>1. CASE S = {}
      BY <1>4, <3>1
    <3>2. CASE S # {}
      <4>1. PICK y \in S : TRUE
        BY <3>2
      <4>2. \A x \in S : S \ {x} \in P
        <5> TAKE x \in S
        <5>1. Cardinality(S \ {x}) < Cardinality(S) /\ S \ {x} \in SUBSET D
          BY <1>2, SmallerWithout
        <5> QED
          BY <2>1, <5>1
      <4> QED
        BY <1>5, <4>1, <4>2
    <3> QED
      BY <3>1, <3>2
  <2>2. \A S \in SUBSET D : (\A T \in SUBSET D : Cardinality(T) < Cardinality(S) => T \in P) => S \in P
    BY <2>1, Zenon
  <2>3. IsFiniteSet(D)
    BY <1>2, Zenon
  <2> QED
    BY <2>2, <2>3, SubsetInduction, Zenon
<1> QED
  BY <1>1, <1>2, <1>3, <1>6

LEMMA TableAt ==
    ASSUME NEW g, NEW debts, NEW ss, SettleTable(g, debts, ss), NEW k \in Nat \ {0}, 1..k \in SUBSET DOMAIN ss
    PROVE  g[1..k] = SettleNext(g[1..(k - 1)], ss[k])
<1>1. Max(1..k) = k /\ (1..k) \ {k} = 1..(k - 1) /\ 1..k # {}
  <2>1. Max(1..k) = k /\ (1..k) \ {k} = 1..(k - 1)
    BY LargestUpTo
  <2>2. 1 \in 1..k
    OBVIOUS
  <2> QED
    BY <2>1, <2>2
<1>2. g[1..k] = SettleNext(g[(1..k) \ {Max(1..k)}], ss[Max(1..k)])
  BY <1>1 DEF SettleTable
<1> QED
  BY <1>1, <1>2

\* One more settlement.
LEMMA SettleAllMore ==
    ASSUME NEW n \in Nat, NEW ss \in Seq(Payments), Len(ss) = n, \A i \in 1..n : Approves(ss[i]),
           NEW s \in Payments, NEW debts \in OwnTables
    PROVE  /\ Books!SettleAll(debts, ss, Housemates) \in OwnTables
           /\ Books!SettleAll(debts, Append(ss, s), Housemates)
                = SettleNext(Books!SettleAll(debts, ss, Housemates), s)
<1>1. DOMAIN ss = 1..n /\ 1..n \in SUBSET (1..n) /\ \A i \in DOMAIN ss : Approves(ss[i])
  OBVIOUS
<1>2. PICK g : /\ SettleTable(g, debts, ss) /\ Books!SettleAll(debts, ss, Housemates) = g[DOMAIN ss]
               /\ \A S \in SUBSET DOMAIN ss : g[S] \in OwnTables
  BY <1>1, SettledTable
<1>3. PICK m \in Nat : m = n + 1
  OBVIOUS
<1>4. PICK qq \in Seq(Payments) : qq = Append(ss, s)
  <2>1. Append(ss, s) \in Seq(Payments)
    OBVIOUS
  <2> QED
    BY <2>1, Zenon
<1>5. /\ DOMAIN qq = 1..m /\ 1..m \in SUBSET (1..m) /\ qq[m] = s /\ m \in Nat \ {0}
      /\ \A i \in 1..n : qq[i] = ss[i] /\ i \in 1..m
  BY <1>3, <1>4
<1>6. \A i \in DOMAIN qq : qq[i] \in Payments
  OBVIOUS
<1>7. PICK h : SettleTable(h, debts, qq) /\ Books!SettleAll(debts, qq, Housemates) = h[DOMAIN qq]
  <2>1. debts \in AllTables
    BY DEF OwnTables, AllTables
  <2>2. SettleTable(CHOOSE h : SettleTable(h, debts, qq), debts, qq)
    BY <1>5, <1>6, <2>1, SettleTableExists
  <2> QED
    BY <2>2, SettleAllTable
<1>8. PICK S : S = {k \in 0..n : h[1..k] = g[1..k]}
  OBVIOUS
<1>9. 0 \in S
  <2>1. 1..0 = {} /\ 0 \in 0..n
    OBVIOUS
  <2>2. h[{}] = debts /\ g[{}] = debts
    BY <1>2, <1>7 DEF SettleTable
  <2> QED
    BY <1>8, <2>1, <2>2
<1>10. ASSUME NEW k \in 1..n, k - 1 \in S PROVE k \in S
  <2>1. k \in Nat \ {0} /\ k \in 0..n
    OBVIOUS
  <2>2. 1..k \in SUBSET (1..n)
    BY <2>1
  <2>3. g[1..k] = SettleNext(g[1..(k - 1)], ss[k])
    BY <1>1, <1>2, <2>1, <2>2, TableAt
  <2>4. h[1..k] = SettleNext(h[1..(k - 1)], qq[k])
    <3>1. \A i \in 1..k : i \in 1..m
      BY <1>5, <2>2
    <3>2. 1..k \in SUBSET DOMAIN qq
      BY <1>5, <3>1
    <3> QED
      BY <1>7, <2>1, <3>2, TableAt
  <2> QED
    BY <1>5, <1>8, <1>10, <2>1, <2>3, <2>4
<1>11. n \in S
  BY <1>9, <1>10, CountedUp
<1>12. h[1..n] = g[1..n]
  BY <1>8, <1>11
<1>13. h[1..m] = SettleNext(h[1..n], s)
  <2>1. h[1..m] = SettleNext(h[1..(m - 1)], qq[m])
    BY <1>5, <1>7, TableAt
  <2>2. m - 1 = n
    BY <1>3
  <2> QED
    BY <1>5, <2>1, <2>2
<1> QED
  BY <1>1, <1>2, <1>4, <1>5, <1>7, <1>12, <1>13

\* What p[1] owes p[2], when d has all debts.
Owes(d, p) ==
    IF p[1] = p[2] THEN 0
    ELSE IF d["own"][p] > 0 /\ d["own"][<<p[2], p[1]>>] > 0
         THEN Books!Positive(d["own"][p] - d["own"][<<p[2], p[1]>>])
         ELSE d["own"][p]

LEMMA DebtsAre ==
    ASSUME NEW es, NEW ss, NEW d \in OwnTables,
           d = Books!SettleAll(Books!ExpenseDebts(es, Housemates), ss, Housemates)
    PROVE  /\ DebtsOf(es, ss) \in [Twos -> Nat]
           /\ \A p \in Twos : DebtsOf(es, ss)[p] = Owes(d, p)
<1>1. PICK netted : netted = [c \in Coins |-> Books!Netted(d[c])]
  OBVIOUS
<1>2. DebtsOf(es, ss) = [p \in Twos |-> IF p[1] = p[2] THEN 0 ELSE Books!SumFunction([c \in Coins |-> netted[c][p]])]
  BY <1>1, BooksAre DEF DebtsOf, Books!PairDebts
<1>3. ASSUME NEW p \in Twos, NEW c \in Coins
      PROVE  netted[c][p] \in Nat /\ (c # "own" => netted[c][p] = 0)
             /\ (p[1] # p[2] /\ c = "own" => netted[c][p] = Owes(d, p))
  <2>1. netted[c] = Books!Netted(d[c])
    BY <1>1
  <2>2. Books!Back(p) = <<p[2], p[1]>> /\ <<p[2], p[1]>> \in Twos
    BY DEF Books!Back, Twos
  <2>3. netted[c][p] = IF d[c][p] > 0 /\ d[c][<<p[2], p[1]>>] > 0
                       THEN Books!Positive(d[c][p] - d[c][<<p[2], p[1]>>]) ELSE d[c][p]
    BY <2>1, <2>2, BooksAre DEF Books!Netted
  <2>4. PICK x \in Nat, y \in Nat : x = d[c][p] /\ y = d[c][<<p[2], p[1]>>] /\ (c # "own" => x = 0)
    BY <2>2, OwnTable
  <2>5. netted[c][p] = IF x > 0 /\ y > 0 THEN Books!Positive(x - y) ELSE x
    BY <2>3, <2>4
  <2>6. (IF x > 0 /\ y > 0 THEN Books!Positive(x - y) ELSE x) \in Nat
    BY DEF Books!Positive
  <2>7. c # "own" => (IF x > 0 /\ y > 0 THEN Books!Positive(x - y) ELSE x) = 0
    BY <2>4
  <2>8. p[1] # p[2] /\ c = "own" => Owes(d, p) = netted[c][p]
    BY <2>3 DEF Owes
  <2> QED
    BY <2>5, <2>6, <2>7, <2>8
<1>4. ASSUME NEW p \in Twos, p[1] # p[2] PROVE Books!SumFunction([c \in Coins |-> netted[c][p]]) = Owes(d, p)
  <2>1. PICK f : f = [c \in Coins |-> netted[c][p]]
    OBVIOUS
  <2>2. f \in [Coins -> Int] /\ \A c \in Coins : c # "own" => f[c] = 0
    BY <1>3, <2>1
  <2>3. "own" \in Coins
    BY DEF Coins
  <2>4. SumFunction(f) = f["own"]
    BY <2>2, <2>3, BooksAre, SumOfOne
  <2>5. f["own"] = Owes(d, p)
    BY <1>3, <1>4, <2>1, <2>3
  <2> QED
    BY <2>1, <2>4, <2>5, BooksSum
<1>5. \A p \in Twos : DebtsOf(es, ss)[p] = Owes(d, p)
  BY <1>2, <1>4 DEF Owes
<1>6. ASSUME NEW p \in Twos PROVE Owes(d, p) \in Nat
  <2>1. CASE p[1] = p[2]
    BY <2>1 DEF Owes
  <2>2. CASE p[1] # p[2]
    <3>1. "own" \in Coins
      BY DEF Coins
    <3> QED
      BY <1>3, <2>2, <3>1
  <2> QED
    BY <2>1, <2>2
<1> QED
  BY <1>2, <1>5, <1>6

-----------------------------------------------------------------------------
(* Neither Settle All nor an approval the tab did not warn of turns a debt. *)
Book(es, ss) ==
    /\ IsFiniteSet(DOMAIN es) /\ \A x \in DOMAIN es : Spends(es[x])
    /\ ss \in Seq(Payments) /\ \A i \in 1..Len(ss) : Approves(ss[i])

Grants(s) == [s EXCEPT !.status = "approved"]

LEMMA Granted ==
    ASSUME NEW s \in Payments
    PROVE  /\ Grants(s) \in Payments /\ Grants(s).status = "approved" /\ Grants(s).currency = s.currency
           /\ Grants(s).from = s.from /\ Grants(s).to = s.to /\ Grants(s).amount = s.amount
  BY DEF Grants, Payments

LEMMA BookDebts ==
    ASSUME NEW es, NEW ss, Book(es, ss)
    PROVE  \E d \in OwnTables : d = Books!SettleAll(Books!ExpenseDebts(es, Housemates), ss, Housemates)
<1>1. PICK b \in OwnTables : b = Books!ExpenseDebts(es, Housemates)
  BY SpendingDebts DEF Book
<1>2. PICK n \in Nat : n = Len(ss) /\ DOMAIN ss = 1..n /\ DOMAIN ss \in SUBSET (1..n) /\ \A i \in DOMAIN ss : Approves(ss[i])
  BY DEF Book
<1>3. Books!SettleAll(b, ss, Housemates) \in OwnTables
  BY <1>2, SettledTable
<1> QED
  BY <1>1, <1>3

\* Whoever pays what they owe, or less, is not owed for it.
LEMMA StillOwes ==
    ASSUME NEW d \in OwnTables, NEW s \in Payments, s.currency # "former",
           s.amount <= Owes(d, <<s.from, s.to>>)
    PROVE  Owes(SettleNext(d, Grants(s)), <<s.to, s.from>>) = 0 /\ SettleNext(d, Grants(s)) \in OwnTables
<1>1. PICK f \in Housemates, t \in Housemates, a \in Nat \ {0} : f = s.from /\ t = s.to /\ a = s.amount
  BY DEF Payments
<1>2. <<f, t>> \in Twos /\ <<t, f>> \in Twos
  BY DEF Twos
<1>3. PICK x \in Nat : x = d["own"][<<f, t>>]
  BY <1>2, OwnTable
<1>4. PICK y \in Nat : y = d["own"][<<t, f>>]
  BY <1>2, OwnTable
<1>5. f # t
  <2>1. ASSUME f = t PROVE FALSE
    <3>1. Owes(d, <<s.from, s.to>>) = 0
      BY <1>1, <2>1 DEF Owes
    <3>2. a <= 0
      BY <1>1, <3>1
    <3> QED
      BY <3>2
  <2> QED
    BY <2>1
<1>6. a <= IF x > 0 /\ y > 0 THEN Books!Positive(x - y) ELSE x
  <2>1. Owes(d, <<s.from, s.to>>) = IF x > 0 /\ y > 0 THEN Books!Positive(x - y) ELSE x
    BY <1>1, <1>3, <1>4, <1>5 DEF Owes
  <2> QED
    BY <1>1, <2>1
<1>7. a <= x /\ x > 0 /\ (y = 0 \/ y <= x - a)
  BY <1>6 DEF Books!Positive
<1>8. Grants(s) \in Payments /\ Books!BucketOf(d, Grants(s)) = "own"
  <2>1. Grants(s) \in Payments /\ Grants(s).currency = s.currency
    BY Granted
  <2>2. s.currency = "own" \/ s.currency = "none"
    BY DEF Payments, Coins
  <2>3. \E p \in Twos : d["own"][p] > 0
    BY <1>2, <1>3, <1>7
  <2> QED
    BY <2>1, <2>2, <2>3, BucketOfPayment
<1>9. PICK e : e = SettleNext(d, Grants(s))
  OBVIOUS
<1>10. e \in OwnTables /\ Pays2(d["own"], e["own"], f, t, a)
  BY <1>1, <1>8, <1>9, SettleOwn, Granted
<1>11. e["own"][<<f, t>>] = x - a /\ e["own"][<<t, f>>] = y
  <2>1. /\ e["own"][<<f, t>>] = Books!Positive(x - a)
        /\ e["own"][<<t, f>>] = y + Books!Positive(-(x - a))
    BY <1>3, <1>4, <1>5, <1>10 DEF Pays2
  <2>2. Books!Positive(x - a) = x - a /\ Books!Positive(-(x - a)) = 0
    BY <1>7 DEF Books!Positive
  <2> QED
    BY <2>1, <2>2
<1>12. Owes(e, <<t, f>>) = 0
  <2>1. Owes(e, <<t, f>>) = IF y > 0 /\ x - a > 0 THEN Books!Positive(y - (x - a)) ELSE y
    BY <1>5, <1>11 DEF Owes
  <2> QED
    BY <1>7, <2>1 DEF Books!Positive
<1> QED
  BY <1>1, <1>9, <1>10, <1>12

LEMMA NoReversal ==
    ASSUME NEW es, NEW ss, Book(es, ss), NEW s \in Payments, s.currency # "former",
           s.amount <= DebtsOf(es, ss)[<<s.from, s.to>>]
    PROVE  ~(DebtsOf(es, Append(ss, Grants(s)))[<<s.to, s.from>>] > DebtsOf(es, ss)[<<s.to, s.from>>])
<1>1. PICK d \in OwnTables : d = Books!SettleAll(Books!ExpenseDebts(es, Housemates), ss, Housemates)
  BY BookDebts
<1>2. <<s.from, s.to>> \in Twos /\ <<s.to, s.from>> \in Twos
  BY DEF Twos, Payments
<1>3. DebtsOf(es, ss) \in [Twos -> Nat] /\ \A p \in Twos : DebtsOf(es, ss)[p] = Owes(d, p)
  BY <1>1, DebtsAre
<1>4. s.amount <= Owes(d, <<s.from, s.to>>)
  BY <1>2, <1>3
<1>5. Grants(s) \in Payments
  BY Granted
<1>6. PICK e \in OwnTables : e = SettleNext(d, Grants(s)) /\ Owes(e, <<s.to, s.from>>) = 0
  BY <1>4, StillOwes
<1>7. e = Books!SettleAll(Books!ExpenseDebts(es, Housemates), Append(ss, Grants(s)), Housemates)
  <2>1. PICK b \in OwnTables : b = Books!ExpenseDebts(es, Housemates)
    BY SpendingDebts DEF Book
  <2>2. PICK n \in Nat : n = Len(ss) /\ ss \in Seq(Payments) /\ \A i \in 1..n : Approves(ss[i])
    BY DEF Book
  <2>3. PICK r \in Payments : r = Grants(s)
    BY <1>5
  <2>4. Books!SettleAll(b, Append(ss, r), Housemates) = SettleNext(Books!SettleAll(b, ss, Housemates), r)
    BY <2>2, SettleAllMore
  <2> QED
    BY <1>1, <1>6, <2>1, <2>3, <2>4
<1>8. DebtsOf(es, Append(ss, Grants(s)))[<<s.to, s.from>>] = 0
  BY <1>2, <1>6, <1>7, DebtsAre
<1> QED
  BY <1>2, <1>3, <1>8

\* The tab only ever looks at such books.
LooksAtBook == Book(invoice.expenses, invoice.settlements)

LEMMA BookOfTwo ==
    ASSUME NEW days, days \in SUBSET Nat, NEW es \in SomeExpenses(days)
    PROVE  IsFiniteSet(DOMAIN es) /\ \A x \in DOMAIN es : Spends(es[x])
<1>1. PICK payer : payer = CHOOSE h \in Housemates : TRUE
  OBVIOUS
<1>2. PICK other \in Housemates \ {payer}, q \in Couples, a \in Sums, d \in days :
        es = <<Paid(payer, other, a, d), Paid(q[1], q[2], 1, 0)>>
  BY <1>1 DEF SomeExpenses
<1>3. payer \in Housemates
  BY <1>1, <1>2
<1>4. ASSUME NEW p \in Housemates, NEW o, NEW n \in Nat, NEW t PROVE Spends(Paid(p, o, n, t))
  BY DEF Spends, Paid
<1>5. Spends(Paid(payer, other, a, d)) /\ Spends(Paid(q[1], q[2], 1, 0))
  <2>1. a \in Nat /\ q[1] \in Housemates /\ 1 \in Nat
    BY InvoicesAssumption DEF Couples
  <2> QED
    BY <1>3, <1>4, <2>1
<1>6. DOMAIN es = 1..2 /\ es[1] = Paid(payer, other, a, d) /\ es[2] = Paid(q[1], q[2], 1, 0)
  BY <1>2
<1>7. IsFiniteSet(1..2)
  <2>1. 1 \in Int /\ 2 \in Int
    OBVIOUS
  <2> QED
    BY <2>1, FS_Interval
<1>8. \A x \in 1..2 : x = 1 \/ x = 2
  OBVIOUS
<1> QED
  BY <1>5, <1>6, <1>7, <1>8

LEMMA PaymentIs ==
    ASSUME NEW f \in Housemates, NEW t \in Housemates, NEW a \in Nat \ {0}, NEW status \in {"approved", "proposed"},
           NEW c \in Coins, NEW day \in Nat
    PROVE  /\ Pays(<<f, t>>, a, status, c, day) \in Payments
           /\ Pays(<<f, t>>, a, status, c, day).currency = c /\ Pays(<<f, t>>, a, status, c, day).status = status
           /\ Pays(<<f, t>>, a, status, c, day).from = f /\ Pays(<<f, t>>, a, status, c, day).to = t
           /\ Pays(<<f, t>>, a, status, c, day).amount = a
  BY DEF Pays, Payments

Fitting == {s \in Payments : Approves(s)}

LEMMA FittingBook ==
    ASSUME NEW es, IsFiniteSet(DOMAIN es), \A x \in DOMAIN es : Spends(es[x]), NEW ss \in Seq(Fitting)
    PROVE  Book(es, ss)
<1>1. ss \in Seq(Payments)
  <2>1. \A x \in Fitting : x \in Payments
    BY DEF Fitting
  <2> QED
    BY <2>1
<1>2. \A i \in 1..Len(ss) : ss[i] \in Fitting
  OBVIOUS
<1> QED
  BY <1>1, <1>2 DEF Book, Fitting

LEMMA BookFits == ASSUME NEW es, NEW ss, Book(es, ss) PROVE ss \in Seq(Fitting)
<1>1. ss \in Seq(Payments) /\ \A i \in 1..Len(ss) : ss[i] \in Fitting
  BY DEF Book, Fitting
<1>2. PICK n \in Nat : n = Len(ss) /\ ss \in [1..n -> Payments]
  BY <1>1
<1>3. ss \in [1..n -> Fitting]
  BY <1>1, <1>2
<1> QED
  BY <1>3

LEMMA FittingApprovals ==
    ASSUME NEW days, days \in SUBSET Nat, NEW ss \in Approvals(days) PROVE ss \in Seq(Fitting)
<1>1. CASE ss = <<>>
  BY <1>1
<1>2. ASSUME NEW p \in Couples, NEW d \in days, ss = <<Pays(p, 1, "approved", "own", d)>> PROVE ss \in Seq(Fitting)
  <2>1. PICK f \in Housemates, t \in Housemates : p = <<f, t>>
    BY DEF Couples
  <2>2. PICK s : s = Pays(<<f, t>>, 1, "approved", "own", d)
    OBVIOUS
  <2>3. s \in Fitting
    <3>1. d \in Nat /\ 1 \in Nat \ {0} /\ "own" \in Coins
      BY DEF Coins
    <3> QED
      BY <2>2, <3>1, PaymentIs DEF Fitting, Approves
  <2>4. ss = <<s>>
    BY <1>2, <2>1, <2>2
  <2> QED
    BY <2>3, <2>4
<1> QED
  BY <1>1, <1>2 DEF Approvals

LEMMA LooksInitially == InvoicesInit => LooksAtBook
<1> SUFFICES ASSUME InvoicesInit PROVE LooksAtBook
  OBVIOUS
<1>1. invoice.expenses = <<>> /\ invoice.settlements = <<>>
  BY DEF InvoicesInit, Nobody
<1>2. DOMAIN <<>> = {} /\ IsFiniteSet({}) /\ <<>> \in Seq(Fitting)
  BY FS_EmptySet
<1> QED
  BY <1>1, <1>2, FittingBook DEF LooksAtBook

LEMMA LooksNext == LooksAtBook /\ [InvoicesNext]_invoice => LooksAtBook'
<1> SUFFICES ASSUME LooksAtBook, [InvoicesNext]_invoice PROVE LooksAtBook'
  OBVIOUS
<1>1. CASE LookAtBalances
  <2>1. PICK es \in SomeExpenses(0..ThisDay), ss \in Approvals(0..ThisDay),
                 gone \in {{}} \cup {{h} : h \in Housemates}, first \in 0..ThisDay :
          invoice' = [expenses |-> es, settlements |-> ss, left |-> gone, from |-> first]
    BY <1>1 DEF LookAtBalances
  <2>2. 0..ThisDay \in SUBSET Nat
    BY InvoicesAssumption
  <2>3. Book(es, ss)
    BY <2>2, BookOfTwo, FittingApprovals, FittingBook
  <2>4. invoice'.expenses = es /\ invoice'.settlements = ss
    BY <2>1
  <2> QED
    BY <2>3, <2>4 DEF LooksAtBook
<1>2. CASE LookAtWarnings
  <2>1. PICK es \in SomeExpenses({0}), ss \in Approvals({0}), p \in Couples, a \in Sums, c \in {"own", "former", "none"} :
          invoice' = [Nobody EXCEPT !.expenses = es, !.settlements = ss \o <<Pays(p, a, "proposed", c, 0)>>]
    BY <1>2 DEF LookAtWarnings
  <2>2. {0} \in SUBSET Nat
    OBVIOUS
  <2>3. PICK f \in Housemates, t \in Housemates : p = <<f, t>>
    BY DEF Couples
  <2>4. PICK s : s = Pays(<<f, t>>, a, "proposed", c, 0)
    OBVIOUS
  <2>5. s \in Fitting
    <3>1. a \in Nat \ {0} /\ 0 \in Nat /\ c \in Coins /\ "proposed" # "approved"
      BY InvoicesAssumption DEF Coins
    <3> QED
      BY <2>4, <3>1, PaymentIs DEF Fitting, Approves
  <2>6. ss \o <<s>> \in Seq(Fitting)
    <3>1. ss \in Seq(Fitting)
      BY <2>2, FittingApprovals
    <3> QED
      BY <2>5, <3>1
  <2>7. Book(es, ss \o <<s>>)
    BY <2>2, <2>6, BookOfTwo, FittingBook
  <2>8. invoice'.expenses = es /\ invoice'.settlements = ss \o <<s>>
    BY <2>1, <2>3, <2>4 DEF Nobody
  <2> QED
    BY <2>7, <2>8 DEF LooksAtBook
<1>3. CASE UNCHANGED invoice
  BY <1>3 DEF LooksAtBook
<1> QED
  BY <1>1, <1>2, <1>3 DEF InvoicesNext

-----------------------------------------------------------------------------
(* The balances of the window.                                             *)
LEMMA ActiveNets == LooksAtBook => DOMAIN ActiveBalances = Housemates /\ Nets(ActiveBalances)
<1> SUFFICES ASSUME LooksAtBook PROVE DOMAIN ActiveBalances = Housemates /\ Nets(ActiveBalances)
  OBVIOUS
<1>1. PICK es, ss : es = invoice.expenses /\ ss = invoice.settlements /\ Book(es, ss)
  BY DEF LooksAtBook
<1>2. PICK I \in SUBSET DOMAIN es : I = {k \in DOMAIN es : es[k].day >= invoice.from}
  OBVIOUS
<1>3. PICK J \in SUBSET DOMAIN ss : J = {k \in DOMAIN ss : ss[k].day >= invoice.from}
  OBVIOUS
<1>4. PICK fe : fe = Restrict(es, I)
  OBVIOUS
<1>5. PICK fs : fs = Restrict(ss, J)
  OBVIOUS
<1>6. FilteredExpenses = fe /\ FilteredSettlements = fs
  BY <1>1, <1>2, <1>3, <1>4, <1>5 DEF FilteredExpenses, FilteredSettlements, Filtered
<1>7. PICK b \in OwnTables : b = Books!ExpenseDebts(fe, Housemates)
  <2>1. DOMAIN fe = I /\ \A x \in I : fe[x] = es[x]
    BY <1>4 DEF Restrict
  <2>2. IsFiniteSet(I) /\ \A x \in I : Spends(es[x])
    BY <1>1, FS_Subset DEF Book
  <2> QED
    BY <2>1, <2>2, SpendingDebts
<1>8. PICK d \in OwnTables : d = Books!SettleAll(b, fs, Housemates)
  <2>1. DOMAIN fs = J /\ \A x \in J : fs[x] = ss[x]
    BY <1>5 DEF Restrict
  <2>2. PICK n \in Nat : n = Len(ss) /\ DOMAIN ss = 1..n /\ \A i \in 1..n : Approves(ss[i])
    BY <1>1 DEF Book
  <2>3. DOMAIN fs \in SUBSET (1..n) /\ \A i \in DOMAIN fs : Approves(fs[i])
    BY <2>1, <2>2
  <2> QED
    BY <2>3, SettledTable
<1>9. PICK owes \in [Twos -> Nat] : owes = DebtsOf(fe, fs)
  BY <1>7, <1>8, DebtsAre
<1>10. PICK dues : dues = Books!NetBalances(owes)
  OBVIOUS
<1>11. ASSUME NEW m \in Housemates PROVE dues[m] \in Int
  <2>1. PICK f : f = [o \in Housemates |-> owes[<<o, m>>] - owes[<<m, o>>]]
    OBVIOUS
  <2>2. dues[m] = SumFunction(f)
    BY <1>10, <2>1, BooksSum DEF Books!NetBalances
  <2>3. \A o \in Housemates : owes[<<o, m>>] \in Nat /\ owes[<<m, o>>] \in Nat
    BY DEF Twos
  <2>4. f \in [Housemates -> Int]
    BY <2>1, <2>3
  <2> QED
    BY <2>2, <2>4, InvoicesAssumption, SumIsInt
<1>12. ActiveBalances = [h \in Housemates |-> IF h \in invoice.left THEN 0 ELSE dues[h]]
  BY <1>6, <1>9, <1>10 DEF ActiveBalances
<1>13. ActiveBalances \in [Housemates -> Int]
  BY <1>11, <1>12
<1> QED
  BY <1>12, <1>13, InvoicesAssumption DEF Nets

\* What is left when all transfers are made, for any balances.
LEMMA LeftAfter ==
    ASSUME NEW dues, Nets(dues), NEW after,
           after = [h \in DOMAIN dues |-> dues[h] + SentIn(MinimalTransfers(dues), h) - GotIn(MinimalTransfers(dues), h)]
    PROVE  /\ \A h \in DOMAIN dues : Size(after[h]) <= Size(dues[h]) /\ after[h] * dues[h] >= 0
           /\ SumFunction([h \in DOMAIN dues |-> Size(after[h])]) = Size(SumFunction(dues))
<1>1. PICK D : D = DOMAIN dues /\ IsFiniteSet(D) /\ dues \in [D -> Int]
  BY DEF Nets
<1>2. PICK ts : ts = MinimalTransfers(dues)
  OBVIOUS
<1>3. PICK cr, db, l : Leaves(ts, dues, cr, db, l)
  BY <1>2, TransfersLeave
<1>4. /\ TransfersOf(ts, l, dues) /\ cr \in [D -> Nat] /\ db \in [D -> Nat]
      /\ SumFunction(cr) - SumFunction(db) = SumFunction(dues)
      /\ \A m \in D : (cr[m] # 0 => dues[m] > 0) /\ (db[m] # 0 => dues[m] < 0)
      /\ \A m \in D : dues[m] + SentIn(ts, m) = GotIn(ts, m) + (cr[m] - db[m])
      /\ (\A m \in D : cr[m] = 0) \/ (\A m \in D : db[m] = 0)
  BY <1>1, <1>3 DEF Leaves
<1>5. ASSUME NEW m \in D
      PROVE  /\ dues[m] \in Int /\ cr[m] \in Nat /\ db[m] \in Nat /\ after[m] = cr[m] - db[m]
             /\ dues[m] > 0 => db[m] = 0 /\ cr[m] <= dues[m]
             /\ dues[m] < 0 => cr[m] = 0 /\ db[m] <= -dues[m]
             /\ dues[m] = 0 => cr[m] = 0 /\ db[m] = 0
  <2>1. PICK s \in Nat, g \in Nat : s = SentIn(ts, m) /\ g = GotIn(ts, m)
    BY <1>1, <1>4, SentAndGot
  <2>2. (~(dues[m] < 0) => s = 0) /\ (~(dues[m] > 0) => g = 0)
    BY <1>1, <1>4, <2>1, SentAndGot
  <2>3. PICK n \in Int : n = dues[m]
    BY <1>1
  <2>4. PICK x \in Nat : x = cr[m]
    BY <1>4
  <2>5. PICK y \in Nat : y = db[m]
    BY <1>4
  <2>6. n + s = g + (x - y)
    BY <1>4, <2>1, <2>3, <2>4, <2>5
  <2>7. (x # 0 => n > 0) /\ (y # 0 => n < 0)
    BY <1>4, <2>3, <2>4, <2>5
  <2>8. after[m] = n + s - g
    BY <1>1, <1>2, <2>1, <2>3
  <2>9. after[m] = x - y
    BY <2>1, <2>3, <2>4, <2>5, <2>6, <2>8
  <2>10. (~(n < 0) => s = 0) /\ (~(n > 0) => g = 0)
    BY <2>2, <2>3
  <2>11. (n > 0 => y = 0 /\ x <= n) /\ (n < 0 => x = 0 /\ y <= -n) /\ (n = 0 => x = 0 /\ y = 0)
    BY <2>6, <2>7, <2>10
  <2> QED
    BY <2>3, <2>4, <2>5, <2>9, <2>11
<1>6. ASSUME NEW m \in D PROVE Size(after[m]) <= Size(dues[m]) /\ after[m] * dues[m] >= 0
  <2>1. PICK n \in Int : n = dues[m]
    BY <1>5
  <2>2. PICK x \in Nat : x = cr[m]
    BY <1>5
  <2>3. PICK y \in Nat : y = db[m]
    BY <1>5
  <2>4. after[m] = x - y /\ (n > 0 => y = 0 /\ x <= n) /\ (n < 0 => x = 0 /\ y <= -n) /\ (n = 0 => x = 0 /\ y = 0)
    BY <1>5, <2>1, <2>2, <2>3
  <2>5. Size(after[m]) <= Size(n)
    BY <2>4 DEF Size
  <2>6. after[m] * n >= 0
    <3>1. CASE n > 0
      <4>1. after[m] = x /\ n \in Nat
        BY <2>4, <3>1
      <4>2. \A i, j \in Nat : i * j >= 0
        OBVIOUS
      <4> QED
        BY <4>1, <4>2
    <3>2. CASE n < 0
      <4>1. PICK k \in Nat : k = -n
        BY <3>2
      <4>2. after[m] = -y /\ n = -k
        BY <2>4, <3>2, <4>1
      <4>3. \A i, j \in Nat : (-i) * (-j) >= 0
        OBVIOUS
      <4> QED
        BY <4>2, <4>3
    <3>3. CASE n = 0
      <4>1. after[m] = 0
        BY <2>4, <3>3
      <4> QED
        BY <3>3, <4>1
    <3> QED
      BY <3>1, <3>2, <3>3
  <2> QED
    BY <2>1, <2>5, <2>6
<1>7. SumFunction([h \in D |-> Size(after[h])]) = Size(SumFunction(dues))
  <2>1. SumFunction(cr) \in Nat /\ SumFunction(db) \in Nat /\ SumFunction(dues) \in Int
    BY <1>1, <1>4, SumIsNat, SumIsInt
  <2>2. \A f \in [D -> Nat] : f \in [D -> Int]
    OBVIOUS
  <2>3. CASE \A m \in D : cr[m] = 0
    <3>1. \A h \in D : Size(after[h]) = db[h]
      <4>1. \A x \in Nat : Size(0 - x) = x
        BY DEF Size
      <4> TAKE h \in D
      <4>2. db[h] \in Nat /\ after[h] = 0 - db[h]
        BY <1>5, <2>3
      <4> QED
        BY <4>1, <4>2
    <3>2. [h \in D |-> Size(after[h])] = db
      BY <1>4, <3>1
    <3>3. SumFunction(cr) = 0
      BY <1>1, <1>4, <2>2, <2>3, SumZero
    <3>4. Size(SumFunction(dues)) = SumFunction(db)
      BY <1>4, <2>1, <3>3 DEF Size
    <3> QED
      BY <3>2, <3>4
  <2>4. CASE \A m \in D : db[m] = 0
    <3>1. \A h \in D : Size(after[h]) = cr[h]
      <4>1. \A x \in Nat : Size(x - 0) = x
        BY DEF Size
      <4> TAKE h \in D
      <4>2. cr[h] \in Nat /\ after[h] = cr[h] - 0
        BY <1>5, <2>4
      <4> QED
        BY <4>1, <4>2
    <3>2. [h \in D |-> Size(after[h])] = cr
      BY <1>4, <3>1
    <3>3. SumFunction(db) = 0
      BY <1>1, <1>4, <2>2, <2>4, SumZero
    <3>4. Size(SumFunction(dues)) = SumFunction(cr)
      BY <1>4, <2>1, <3>3 DEF Size
    <3> QED
      BY <3>2, <3>4
  <2> QED
    BY <1>4, <2>3, <2>4
<1> QED
  BY <1>1, <1>6, <1>7

LEMMA TurnsNothing ==
    ASSUME LooksAtBook, NEW ss, Book(invoice.expenses, ss), NEW s \in Payments, s.currency # "former",
           s.amount <= DebtsOf(invoice.expenses, ss)[<<s.from, s.to>>]
    PROVE  ~Reverses(s, ss)
<1>1. ~(DebtsOf(invoice.expenses, Append(ss, Grants(s)))[<<s.to, s.from>>]
            > DebtsOf(invoice.expenses, ss)[<<s.to, s.from>>])
  BY NoReversal
<1> QED
  BY <1>1 DEF Reverses, Grants

LEMMA SettlesAll == LooksAtBook => SettleAllSettles
<1> SUFFICES ASSUME LooksAtBook PROVE SettleAllSettles
  OBVIOUS
<1>1. PICK dues : dues = ActiveBalances
  OBVIOUS
<1>2. DOMAIN dues = Housemates /\ Nets(dues)
  BY <1>1, ActiveNets
<1>3. PICK ts : ts = MinimalTransfers(dues)
  OBVIOUS
<1>4. PICK after : after = [h \in Housemates |-> dues[h] + SentIn(ts, h) - GotIn(ts, h)]
  OBVIOUS
<1>5. /\ \A h \in Housemates : Size(after[h]) <= Size(dues[h]) /\ after[h] * dues[h] >= 0
      /\ SumFunction([h \in Housemates |-> Size(after[h])]) = Size(SumFunction(dues))
  BY <1>2, <1>3, <1>4, LeftAfter
<1>6. PICK l : TransfersOf(ts, l, dues)
  BY <1>2, <1>3, TransfersLeave DEF Leaves
<1>7. ASSUME NEW t \in Proposed(ts)
      PROVE  ~Reverses(Pays(<<t.from, t.to>>, t.amount, "proposed", "own", ThisDay), invoice.settlements)
  <2>1. t \in Range(ts) /\ t.amount <= DebtsOf(invoice.expenses, invoice.settlements)[<<t.from, t.to>>]
    BY DEF Proposed
  <2>2. t \in [from : Housemates, to : Housemates, amount : Nat \ {0}]
    BY <1>2, <1>6, <2>1 DEF Range, TransfersOf
  <2>3. PICK s : s = Pays(<<t.from, t.to>>, t.amount, "proposed", "own", ThisDay)
    OBVIOUS
  <2>4. s \in Payments /\ s.currency = "own" /\ s.from = t.from /\ s.to = t.to /\ s.amount = t.amount
    <3>1. "own" \in Coins /\ ThisDay \in Nat
      BY InvoicesAssumption DEF Coins
    <3> QED
      BY <2>2, <2>3, <3>1, PaymentIs
  <2>5. s.currency # "former" /\ s.amount <= DebtsOf(invoice.expenses, invoice.settlements)[<<s.from, s.to>>]
    BY <2>1, <2>4
  <2>6. Book(invoice.expenses, invoice.settlements)
    BY DEF LooksAtBook
  <2> QED
    BY <2>3, <2>4, <2>5, <2>6, TurnsNothing
<1> QED
  BY <1>1, <1>3, <1>4, <1>5, <1>7 DEF SettleAllSettles, Optimized

LEMMA Warns == LooksAtBook => WarnedBeforeReversal
<1> SUFFICES ASSUME LooksAtBook, NEW i \in DOMAIN invoice.settlements,
                    invoice.settlements[i].status = "proposed",
                    invoice.settlements[i].currency # "former", ~Oversized(i)
             PROVE  ~Reverses(invoice.settlements[i], RemoveAt(invoice.settlements, i))
  BY DEF WarnedBeforeReversal
<1>1. PICK ss \in Seq(Fitting) : ss = invoice.settlements
  BY BookFits DEF LooksAtBook
<1>2. PICK n \in Nat : n = Len(ss) /\ DOMAIN ss = 1..n
  OBVIOUS
<1>3. PICK s \in Payments : s = ss[i]
  <2>1. ss[i] \in Fitting
    BY <1>1
  <2> QED
    BY <2>1 DEF Fitting
<1>4. PICK remaining : remaining = RemoveAt(ss, i)
  OBVIOUS
<1>5. remaining \in Seq(Fitting)
  <2>1. i \in 1..n
    BY <1>1, <1>2
  <2>2. SubSeq(ss, 1, i - 1) \in Seq(Fitting)
    BY <1>2, <2>1
  <2>3. SubSeq(ss, i + 1, n) \in Seq(Fitting)
    BY <1>2, <2>1
  <2>4. \A u, v \in Seq(Fitting) : u \o v \in Seq(Fitting)
    OBVIOUS
  <2>5. remaining = SubSeq(ss, 1, i - 1) \o SubSeq(ss, i + 1, n)
    BY <1>2, <1>4 DEF RemoveAt
  <2> QED
    BY <2>2, <2>3, <2>4, <2>5
<1>6. Book(invoice.expenses, remaining)
  BY <1>5, FittingBook DEF LooksAtBook, Book
<1>7. s.amount <= DebtsOf(invoice.expenses, remaining)[<<s.from, s.to>>]
  <2>1. ~(s.amount > DebtsOf(invoice.expenses, remaining)[<<s.from, s.to>>])
    BY <1>1, <1>3, <1>4 DEF Oversized
  <2>2. PICK p \in Twos : p = <<s.from, s.to>>
    BY DEF Twos, Payments
  <2>3. PICK d \in OwnTables : d = Books!SettleAll(Books!ExpenseDebts(invoice.expenses, Housemates), remaining, Housemates)
    BY <1>6, BookDebts
  <2>4. DebtsOf(invoice.expenses, remaining)[p] \in Nat
    BY <2>3, DebtsAre
  <2>5. s.amount \in Nat
    BY DEF Payments
  <2> QED
    BY <2>1, <2>2, <2>4, <2>5
<1> QED
  BY <1>1, <1>3, <1>4, <1>6, <1>7, TurnsNothing

LEMMA InvoicesHold == LooksAtBook => SettleAllSettles /\ WarnedBeforeReversal
  BY SettlesAll, Warns

-----------------------------------------------------------------------------
(* The list of the groups, and the page of one                             *)

PageKinds == {"page", "read", "denied"}
FetchRecords ==
    [kind : PageKinds \cup {"none", "groups", "listed", "balances"}, of : Users \cup {NoUser},
     id : Groups \cup {NoGroup}, n : Nat, rows : SUBSET Groups, at : Nat]
FetchTyped(r) ==
    /\ r \in FetchRecords
    /\ r.kind # "none" => r.of \in Users
    /\ r.kind \in PageKinds => r.id \in Groups

\* A page is open only while somebody is signed in, and its group is the one that was
\* asked for last; only its events are on their way.
PagesTyped ==
    /\ news \in [Groups -> Nat] /\ inGroup \in [Users -> SUBSET Groups]
    /\ signedIn \in Users \cup {NoUser} /\ page \in Groups \cup {NoGroup}
    /\ balanceCache \in [Groups -> Users \cup {NoUser}]
    /\ event \subseteq {"changed", "deleted"} \X ({page} \ {NoGroup})
    /\ page # NoGroup => activeFetch = page /\ signedIn # NoUser
    /\ page = NoGroup => due = FALSE
    /\ {due, blind, outlived} \subseteq BOOLEAN

\* Requests are counted: no two on their way have one number.
FetchesOrdered ==
    /\ fetch \in [Fetches -> FetchRecords] /\ \A f \in Fetches : FetchTyped(fetch[f])
    /\ started \in Nat /\ landed \in Nat /\ landed <= started
    /\ \A f \in Fetches : fetch[f].kind # "none" => fetch[f].n <= started
    /\ \A f, h \in Fetches :
           f # h /\ fetch[f].kind # "none" /\ fetch[h].kind # "none" => fetch[f].n # fetch[h].n

\* A request for the group of the page.
UnderWay(f) == fetch[f].kind \in PageKinds /\ fetch[f].id = page

\* It is the last one, and no later one has arrived.
Leads(f) ==
    /\ UnderWay(f) /\ fetch[f].of = signedIn /\ fetch[f].n > landed
    /\ \A h \in Fetches : h # f /\ UnderWay(h) => fetch[h].n < fetch[f].n

\* It will read what is there, or has read it.
ReadsRight(f) ==
    \/ fetch[f].kind = "page"
    \/ fetch[f].kind = "read" /\ fetch[f].at = news[page] /\ page \in inGroup[signedIn]
    \/ fetch[f].kind = "denied" /\ page \notin inGroup[signedIn]

ShownRight ==
    IF page \in inGroup[signedIn] THEN currentGroup = [id |-> page, at |-> news[page]]
    ELSE currentGroup.id # page

\* Nothing is on its way that would have the page fetch again.
Awaits == page # NoGroup /\ event = {} /\ ~due /\ ~blind

\* A page that awaits no event shows what is there, and requests that are still on
\* their way were overtaken; or it will be shown by the last of them.
PageKept ==
    Awaits => \/ \E f \in Fetches : Leads(f) /\ ReadsRight(f)
              \/ ShownRight /\ \A f \in Fetches : UnderWay(f) => fetch[f].n < landed

GroupPagesInv == PagesTyped /\ FetchesOrdered /\ PageKept /\ ListIsOwn

LEMMA NoFetchIs == FetchTyped(NoFetch) /\ NoFetch.kind = "none"
  BY DEF NoFetch, FetchTyped, FetchRecords, PageKinds

LEMMA NoList == \A e : [h \in {} |-> e] = <<>>
  OBVIOUS

LEMMA GroupPagesStart == GroupPagesInit => GroupPagesInv
<1> SUFFICES ASSUME GroupPagesInit PROVE GroupPagesInv
  OBVIOUS
<1>1. PagesTyped
  BY DEF GroupPagesInit, PagesTyped
<1>2. FetchesOrdered
  BY NoFetchIs DEF GroupPagesInit, FetchesOrdered, FetchTyped
<1>3. PageKept
  BY DEF GroupPagesInit, PageKept, Awaits
<1>4. ListIsOwn
  BY DEF GroupPagesInit, ListIsOwn
<1> QED
  BY <1>1, <1>2, <1>3, <1>4 DEF GroupPagesInv

LEMMA FetchOf ==
    ASSUME FetchesOrdered, NEW f \in Fetches
    PROVE  /\ fetch[f] \in FetchRecords /\ FetchTyped(fetch[f]) /\ fetch[f].n \in Nat
           /\ fetch[f].kind # "none" => fetch[f].of \in Users /\ fetch[f].n <= started
           /\ fetch[f].kind \in PageKinds => fetch[f].id \in Groups
  BY DEF FetchesOrdered, FetchTyped, FetchRecords

\* What one request may become: it ends, goes on, or is new.
FetchGoes(f, r) ==
    /\ FetchTyped(r)
    /\ \/ r.kind = "none"
       \/ /\ fetch[f].kind # "none" /\ r.n = fetch[f].n /\ r.id = fetch[f].id /\ r.of = fetch[f].of
          /\ r.kind \in PageKinds <=> fetch[f].kind \in PageKinds
       \/ fetch[f].kind = "none" /\ started' = started + 1 /\ r.n = started'

LEMMA FetchMoves ==
    ASSUME FetchesOrdered, NEW f \in Fetches, NEW r, FetchGoes(f, r), fetch' = [fetch EXCEPT ![f] = r],
           started' \in {started, started + 1}, landed' \in Nat, landed' <= started'
    PROVE  /\ FetchesOrdered' /\ fetch'[f] = r
           /\ \A h \in Fetches : h # f => fetch'[h] = fetch[h]
<1>1. /\ fetch' \in [Fetches -> FetchRecords] /\ fetch'[f] = r
      /\ \A h \in Fetches : h # f => fetch'[h] = fetch[h]
  BY DEF FetchesOrdered, FetchGoes, FetchTyped
<1>2. \A h \in Fetches : FetchTyped(fetch'[h])
  BY <1>1 DEF FetchesOrdered, FetchGoes
<1>3. started' \in Nat /\ started <= started' /\ started \in Nat
  BY DEF FetchesOrdered
<1>4. \A h \in Fetches : fetch'[h].kind # "none" => fetch'[h].n <= started'
  <2> SUFFICES ASSUME NEW h \in Fetches, fetch'[h].kind # "none" PROVE fetch'[h].n <= started'
    OBVIOUS
  <2>1. CASE h = f
    BY <1>1, <1>3, <2>1, FetchOf DEF FetchGoes
  <2>2. CASE h # f
    BY <1>1, <1>3, <2>2, FetchOf
  <2> QED
    BY <2>1, <2>2
<1>5. \A g, h \in Fetches :
        g # h /\ fetch'[g].kind # "none" /\ fetch'[h].kind # "none" => fetch'[g].n # fetch'[h].n
  <2>1. ASSUME NEW h \in Fetches, h # f, fetch[h].kind # "none", r.kind # "none" PROVE fetch[h].n # r.n
    <3>1. CASE fetch[f].kind # "none" /\ r.n = fetch[f].n
      BY <2>1, <3>1 DEF FetchesOrdered
    <3>2. CASE started' = started + 1 /\ r.n = started'
      BY <1>3, <2>1, <3>2, FetchOf
    <3> QED
      BY <2>1, <3>1, <3>2 DEF FetchGoes
  <2> QED
    BY <1>1, <2>1 DEF FetchesOrdered
<1> QED
  BY <1>1, <1>2, <1>3, <1>4, <1>5 DEF FetchesOrdered

\* The requests for the page's group are what they were.
FlightsStay ==
    \A f \in Fetches : (UnderWay(f)' <=> UnderWay(f)) /\ (UnderWay(f) => fetch'[f] = fetch[f])

\* A step that leaves the page alone, or has it wait.
LEMMA PageStays ==
    ASSUME PageKept, UNCHANGED <<page, signedIn, landed, currentGroup>>, FlightsStay,
           Awaits' => Awaits /\ news'[page] = news[page]
                             /\ (page \in inGroup'[signedIn] <=> page \in inGroup[signedIn])
    PROVE  PageKept'
<1> SUFFICES ASSUME Awaits' 
             PROVE  \/ \E f \in Fetches : Leads(f)' /\ ReadsRight(f)'
                    \/ ShownRight' /\ \A f \in Fetches : UnderWay(f)' => fetch'[f].n < landed'
  BY DEF PageKept
<1>1. CASE \E f \in Fetches : Leads(f) /\ ReadsRight(f)
  <2>1. PICK f \in Fetches : Leads(f) /\ ReadsRight(f)
    BY <1>1
  <2>2. UnderWay(f)' /\ fetch'[f] = fetch[f]
    BY <2>1 DEF FlightsStay, Leads
  <2>3. Leads(f)'
    BY <2>1, <2>2 DEF FlightsStay, Leads
  <2>4. ReadsRight(f)'
    BY <2>1, <2>2 DEF ReadsRight
  <2> QED
    BY <2>3, <2>4
<1>2. CASE ShownRight /\ \A f \in Fetches : UnderWay(f) => fetch[f].n < landed
  BY <1>2 DEF FlightsStay, ShownRight
<1> QED
  BY <1>1, <1>2 DEF PageKept

\* A request for the group of the page is the last one.
LEMMA PageAsked ==
    ASSUME FetchesOrdered, NEW f \in Fetches, NEW r, FetchGoes(f, r), fetch' = [fetch EXCEPT ![f] = r],
           fetch[f].kind = "none", started' = started + 1, landed' \in {0, landed},
           r.kind = "page", r.id = page', r.of = signedIn'
    PROVE  PageKept' /\ FetchesOrdered'
<1>1. started \in Nat /\ landed \in Nat /\ landed <= started
  BY DEF FetchesOrdered
<1>2. /\ FetchesOrdered' /\ fetch'[f] = r /\ r.n = started'
      /\ \A h \in Fetches : h # f => fetch'[h] = fetch[h]
  <2>1. landed' \in Nat /\ landed' <= started'
    BY <1>1
  <2>2. r.n = started'
    BY DEF FetchGoes
  <2> QED
    BY <2>1, <2>2, FetchMoves
<1>3. \A h \in Fetches : h # f /\ UnderWay(h)' => fetch'[h].n < fetch'[f].n
  <2> SUFFICES ASSUME NEW h \in Fetches, h # f, UnderWay(h)' PROVE fetch[h].n < started + 1
    BY <1>2
  <2>1. fetch[h].kind # "none"
    BY <1>2 DEF UnderWay, PageKinds
  <2> QED
    BY <1>1, <2>1, FetchOf
<1>4. Leads(f)' /\ ReadsRight(f)'
  BY <1>1, <1>2, <1>3 DEF Leads, UnderWay, PageKinds, ReadsRight
<1> QED
  BY <1>2, <1>4 DEF PageKept

\* What a step does that sends, drops or answers one request other than for the page
\* of a group, or nothing.
LEMMA FlightsAreOthers ==
    ASSUME FetchesOrdered, NEW f \in Fetches, NEW r, FetchGoes(f, r), fetch' = [fetch EXCEPT ![f] = r],
           started' \in {started, started + 1}, UNCHANGED landed,
           UNCHANGED page, ~UnderWay(f), r.kind \in PageKinds => fetch[f].kind \in PageKinds
    PROVE  FlightsStay /\ FetchesOrdered'
<1>1. landed' \in Nat /\ landed' <= started'
  BY DEF FetchesOrdered
<1>2. /\ FetchesOrdered' /\ fetch'[f] = r
      /\ \A h \in Fetches : h # f => fetch'[h] = fetch[h]
  BY <1>1, FetchMoves
<1>3. ~UnderWay(f)'
  BY <1>2 DEF UnderWay, FetchGoes, PageKinds
<1> QED
  BY <1>2, <1>3 DEF FlightsStay, UnderWay

LEMMA FlightsAsTheyWere ==
    ASSUME FetchesOrdered, UNCHANGED <<fetch, started, landed, page>> PROVE FlightsStay /\ FetchesOrdered'
  BY DEF FetchesOrdered, FlightsStay, UnderWay

\* The members of the group; the room of the page is told.
LEMMA ToldWaits ==
    ASSUME PagesTyped, NEW what \in {"changed", "deleted"}, NEW g \in Groups, Told(what, g), UNCHANGED <<page, due>>
    PROVE  /\ event' \subseteq {"changed", "deleted"} \X ({page} \ {NoGroup}) /\ blind' \in BOOLEAN
           /\ Awaits' => Awaits /\ g # page
<1>1. CASE page = g
  <2>1. CASE event' = event \cup {<<what, g>>} /\ blind' = blind
    <3>1. event' \subseteq {"changed", "deleted"} \X ({page} \ {NoGroup})
      BY <1>1, <2>1, GroupPagesAssumption DEF PagesTyped
    <3>2. event' # {}
      BY <2>1
    <3> QED
      BY <2>1, <3>1, <3>2 DEF PagesTyped, Awaits
  <2>2. CASE event' = event /\ blind' = TRUE
    BY <1>1, <2>2 DEF PagesTyped, Awaits
  <2> QED
    BY <1>1, <2>1, <2>2 DEF Told
<1>2. CASE page # g
  BY <1>2 DEF Told, PagesTyped, Awaits
<1> QED
  BY <1>1, <1>2

LEMMA MembersKeep ==
    ASSUME GroupPagesInv, NEW g \in Groups,
           GroupChanges(g) \/ GroupDeleted(g) \/ \E u \in Users : MemberRemoved(u, g)
    PROVE  GroupPagesInv'
<1>1. PICK what \in {"changed", "deleted"} : Told(what, g)
  BY DEF GroupChanges, GroupDeleted, MemberRemoved
<1>2. UNCHANGED <<signedIn, groups, balanceCache, page, currentGroup, activeFetch, due, fetch, started,
                  landed, outlived>>
  BY DEF GroupChanges, GroupDeleted, MemberRemoved, listVars, pageVars
<1>3. /\ news' \in [Groups -> Nat] /\ inGroup' \in [Users -> SUBSET Groups]
      /\ \A h \in Groups : h # g => /\ news'[h] = news[h]
                                    /\ \A u \in Users : h \in inGroup'[u] <=> h \in inGroup[u]
  BY DEF GroupChanges, GroupDeleted, MemberRemoved, Deleted, GroupPagesInv, PagesTyped
<1>4. /\ event' \subseteq {"changed", "deleted"} \X ({page} \ {NoGroup}) /\ blind' \in BOOLEAN
      /\ Awaits' => Awaits /\ g # page
  BY <1>1, <1>2, ToldWaits DEF GroupPagesInv
<1>5. PagesTyped'
  BY <1>2, <1>3, <1>4 DEF GroupPagesInv, PagesTyped
<1>6. FlightsStay /\ FetchesOrdered'
  BY <1>2, FlightsAsTheyWere DEF GroupPagesInv
<1>7. Awaits' => Awaits /\ news'[page] = news[page]
                        /\ (page \in inGroup'[signedIn] <=> page \in inGroup[signedIn])
  <2> SUFFICES ASSUME Awaits' PROVE Awaits /\ news'[page] = news[page]
                                    /\ (page \in inGroup'[signedIn] <=> page \in inGroup[signedIn])
    OBVIOUS
  <2>1. Awaits /\ g # page
    BY <1>4
  <2>2. page \in Groups /\ signedIn \in Users
    BY <2>1 DEF Awaits, GroupPagesInv, PagesTyped
  <2> QED
    BY <1>3, <2>1, <2>2
<1>8. PageKept'
  BY <1>2, <1>6, <1>7, PageStays DEF GroupPagesInv
<1>9. ListIsOwn'
  BY <1>2 DEF GroupPagesInv, ListIsOwn
<1> QED
  BY <1>5, <1>6, <1>8, <1>9 DEF GroupPagesInv

\* With nobody signed in, no page is open.
LEMMA NobodysPage == ASSUME PagesTyped, signedIn = NoUser PROVE page = NoGroup /\ event = {}
  BY DEF PagesTyped

LEMMA AccountsKeep == ASSUME GroupPagesInv, Accounts PROVE GroupPagesInv'
<1>1. UNCHANGED <<news, inGroup, activeFetch, fetch, started, landed, blind, outlived>>
  BY DEF Accounts, SignIn, SignOut, serverVars, pageVars
<1>2. page' = NoGroup /\ event' = {} /\ due' = FALSE
  BY NobodysPage DEF Accounts, SignIn, SignOut, pageVars, GroupPagesInv, PagesTyped
<1>3. signedIn' \in Users \cup {NoUser} /\ balanceCache' \in [Groups -> Users \cup {NoUser}]
  BY DEF Accounts, SignIn, SignOut, listVars, GroupPagesInv, PagesTyped
<1>4. PagesTyped'
  BY <1>1, <1>2, <1>3 DEF GroupPagesInv, PagesTyped
<1>5. FetchesOrdered'
  BY <1>1 DEF GroupPagesInv, FetchesOrdered
<1>6. PageKept'
  BY <1>2 DEF PageKept, Awaits
<1>7. CASE SignOut
  <2>1. /\ groups' = <<>> /\ balanceCache' = [g \in Groups |-> NoUser]
        /\ signedIn' = NoUser /\ currentGroup' = Nothing
    BY <1>7 DEF SignOut
  <2>2. DOMAIN groups' = {}
    BY <2>1
  <2>3. ListIsOwn'
    BY <2>1, <2>2 DEF ListIsOwn
  <2> QED
    BY <1>4, <1>5, <1>6, <2>3 DEF GroupPagesInv
<1>8. CASE \E u \in Users : SignIn(u)
  <2>1. PICK u \in Users : signedIn = NoUser /\ signedIn' = u
    BY <1>8 DEF SignIn
  <2>2. UNCHANGED <<groups, balanceCache>>
    BY <1>8 DEF SignIn, listVars
  <2> QED
    BY <1>1, <1>4, <1>5, <1>6, <2>1, <2>2, GroupPagesAssumption DEF GroupPagesInv, ListIsOwn
<1> QED
  BY <1>7, <1>8 DEF Accounts

\* The new record of a request that starts.
LEMMA StartGoes ==
    ASSUME PagesTyped, FetchesOrdered, NEW f \in Fetches, NEW sort \in PageKinds \cup {"groups"}, NEW g,
           Start(f, sort, g), sort \in PageKinds => g \in Groups, g \in Groups \cup {NoGroup}
    PROVE  \E r : /\ FetchGoes(f, r) /\ fetch' = [fetch EXCEPT ![f] = r] /\ fetch[f].kind = "none"
                  /\ r.kind = sort /\ r.id = g /\ r.of = signedIn /\ signedIn # NoUser
                  /\ started' = started + 1
<1> DEFINE r == [kind |-> sort, of |-> signedIn, id |-> g, n |-> started', rows |-> {}, at |-> 0]
<1>1. /\ signedIn # NoUser /\ fetch[f].kind = "none" /\ started' = started + 1
      /\ fetch' = [fetch EXCEPT ![f] = r]
  BY DEF Start
<1>2. started' \in Nat /\ signedIn \in Users
  BY <1>1 DEF FetchesOrdered, PagesTyped
<1>3. FetchTyped(r)
  BY <1>2 DEF FetchTyped, FetchRecords
<1>4. FetchGoes(f, r)
  BY <1>1, <1>3 DEF FetchGoes
<1> QED
  BY <1>1, <1>4

\* The requests for the list.
LEMMA ListingKeeps ==
    ASSUME GroupPagesInv, NEW f \in Fetches,
           fetchGroups(f) \/ ListGroups(f) \/ ShowGroups(f) \/ ShowBalances(f)
    PROVE  GroupPagesInv'
<1> USE DEF GroupPagesInv
<1>1. UNCHANGED <<news, inGroup, signedIn, page, currentGroup, activeFetch, due, event, landed, blind>>
  BY DEF fetchGroups, ListGroups, ShowGroups, ShowBalances, serverVars, pageVars
<1>2. fetch[f].kind \notin PageKinds /\ started' \in {started, started + 1}
  BY DEF fetchGroups, ListGroups, ShowGroups, ShowBalances, Start, PageKinds
<1>3. PICK r : FetchGoes(f, r) /\ fetch' = [fetch EXCEPT ![f] = r] /\ r.kind \notin PageKinds
  <2>1. CASE fetchGroups(f)
    <3>1. Start(f, "groups", NoGroup)
      BY <2>1 DEF fetchGroups
    <3> QED
      BY <3>1, StartGoes DEF PageKinds
  <2>2. CASE ListGroups(f)
    <3>1. PICK s : s = inGroup[fetch[f].of]
      OBVIOUS
    <3>2. fetch[f] \in FetchRecords /\ fetch[f].of \in Users /\ fetch[f].kind = "groups"
      BY <2>2, FetchOf DEF ListGroups
    <3>3. s \subseteq Groups
      BY <3>1, <3>2 DEF PagesTyped
    <3> DEFINE q == [fetch[f] EXCEPT !.kind = "listed", !.rows = s]
    <3>4. /\ q \in FetchRecords /\ q.kind = "listed" /\ q.of = fetch[f].of /\ q.n = fetch[f].n
          /\ q.id = fetch[f].id
      BY <3>2, <3>3 DEF FetchRecords
    <3>5. fetch' = [fetch EXCEPT ![f] = q]
      BY <2>2, <3>1 DEF ListGroups
    <3> HIDE DEF q
    <3>6. FetchGoes(f, q)
      BY <3>2, <3>4 DEF FetchGoes, FetchTyped, PageKinds
    <3> QED
      BY <3>4, <3>5, <3>6 DEF PageKinds
  <2>3. CASE ShowGroups(f)
    <3>1. fetch[f] \in FetchRecords /\ fetch[f].of \in Users /\ fetch[f].kind = "listed"
      BY <2>3, FetchOf DEF ShowGroups
    <3> DEFINE q == [fetch[f] EXCEPT !.kind = "balances"]
    <3>2. /\ q \in FetchRecords /\ q.kind = "balances" /\ q.of = fetch[f].of /\ q.n = fetch[f].n
          /\ q.id = fetch[f].id
      BY <3>1 DEF FetchRecords
    <3>3. fetch' = [fetch EXCEPT ![f] = q]
      BY <2>3 DEF ShowGroups, Becomes
    <3> HIDE DEF q
    <3>4. FetchGoes(f, q)
      BY <3>1, <3>2 DEF FetchGoes, FetchTyped, PageKinds
    <3> QED
      BY <3>2, <3>3, <3>4 DEF PageKinds
  <2>4. CASE ShowBalances(f)
    BY <2>4, NoFetchIs DEF ShowBalances, FetchEnds, FetchGoes, PageKinds
  <2> QED
    BY <2>1, <2>2, <2>3, <2>4
<1>4. FlightsStay /\ FetchesOrdered'
  BY <1>1, <1>2, <1>3, FlightsAreOthers DEF UnderWay
<1>5. PageKept'
  BY <1>1, <1>4, PageStays DEF Awaits
<1>6. ASSUME Outlives(f), fetch[f].kind # "none"
      PROVE  /\ outlived' \in BOOLEAN
             /\ ~outlived' => ~outlived /\ fetch[f].of = signedIn /\ signedIn \in Users /\ signedIn # NoUser
  BY <1>6, FetchOf, GroupPagesAssumption DEF Outlives, PagesTyped
<1>7. balanceCache' \in [Groups -> Users \cup {NoUser}] /\ outlived' \in BOOLEAN /\ ListIsOwn'
  <2>1. CASE fetchGroups(f) \/ ListGroups(f)
    <3>1. UNCHANGED <<groups, balanceCache, outlived>>
      BY <2>1 DEF fetchGroups, ListGroups, listVars
    <3> QED
      BY <1>1, <3>1 DEF PagesTyped, ListIsOwn
  <2>2. CASE ShowGroups(f)
    BY <1>1, <1>6, <2>2 DEF ShowGroups, ListIsOwn, PagesTyped
  <2>3. CASE ShowBalances(f)
    <3>1. PICK u : u = fetch[f].of /\ u \in Users
      BY <2>3, FetchOf DEF ShowBalances
    <3>2. PICK s : s = fetch[f].rows /\ s \subseteq Groups
      BY FetchOf DEF FetchRecords
    <3>3. PICK failed \in SUBSET {g \in fetch[f].rows : balanceCache[g] = NoUser} :
            LET known == fetch[f].rows \ failed
                value == [g \in known |-> IF balanceCache[g] = NoUser THEN fetch[f].of ELSE balanceCache[g]]
            IN  /\ balanceCache' = [g \in Groups |-> IF g \in known THEN value[g] ELSE balanceCache[g]]
                /\ groups' = [g \in DOMAIN groups |-> IF g \in known THEN value[g] ELSE groups[g]]
      BY <2>3 DEF ShowBalances
    <3>4. /\ balanceCache' \in [Groups -> Users \cup {NoUser}]
          /\ \A g \in Groups : balanceCache'[g] \in {balanceCache[g], u}
          /\ \A g \in DOMAIN groups' : g \in DOMAIN groups /\ groups'[g] \in {groups[g], u, balanceCache[g]}
          /\ \A g \in DOMAIN groups' : g \notin Groups => groups'[g] = groups[g]
      BY <3>1, <3>2, <3>3 DEF PagesTyped
    <3> QED
      BY <1>1, <1>6, <2>3, <3>1, <3>4 DEF ShowBalances, ListIsOwn
  <2> QED
    BY <2>1, <2>2, <2>3
<1>8. PagesTyped'
  BY <1>1, <1>7 DEF PagesTyped
<1> QED
  BY <1>4, <1>5, <1>7, <1>8

LEMMA ExpiryKeeps ==
    ASSUME GroupPagesInv, NEW g \in Groups, BalanceExpires(g) PROVE GroupPagesInv'
<1> USE DEF GroupPagesInv
<1>1. UNCHANGED <<news, inGroup, signedIn, groups, page, currentGroup, activeFetch, due, event, fetch,
                  started, landed, blind, outlived>>
  BY DEF BalanceExpires, serverVars, pageVars
<1>2. /\ balanceCache' \in [Groups -> Users \cup {NoUser}]
      /\ \A h \in Groups : balanceCache'[h] \in {balanceCache[h], NoUser}
  BY DEF BalanceExpires, PagesTyped
<1>3. FlightsStay /\ FetchesOrdered'
  BY <1>1, FlightsAsTheyWere
<1>4. PageKept'
  BY <1>1, <1>3, PageStays DEF Awaits
<1>5. PagesTyped' /\ ListIsOwn'
  BY <1>1, <1>2 DEF PagesTyped, ListIsOwn
<1> QED
  BY <1>3, <1>4, <1>5

LEMMA FailureKeeps ==
    ASSUME GroupPagesInv, NEW f \in Fetches, FetchFails(f) PROVE GroupPagesInv'
<1> USE DEF GroupPagesInv
<1>1. /\ UNCHANGED <<news, inGroup, signedIn, groups, balanceCache, page, currentGroup, activeFetch, due,
                     event, started, landed, outlived>>
      /\ fetch[f].kind # "none" /\ fetch' = [fetch EXCEPT ![f] = NoFetch]
      /\ blind' = (blind \/ fetch[f].kind \notin {"groups", "listed", "balances"})
  BY DEF FetchFails, FetchEnds, serverVars, listVars, pageVars
<1>2. FetchGoes(f, NoFetch)
  BY NoFetchIs DEF FetchGoes
<1>3. FetchesOrdered'
  <2>1. landed' \in Nat /\ landed' <= started' /\ started' = started
    BY <1>1 DEF FetchesOrdered
  <2> QED
    BY <1>1, <1>2, <2>1, FetchMoves
<1>4. PagesTyped' /\ ListIsOwn'
  BY <1>1 DEF PagesTyped, ListIsOwn
<1>5. PageKept'
  <2>1. CASE fetch[f].kind \in PageKinds
    BY <1>1, <2>1 DEF PageKinds, PageKept, Awaits
  <2>2. CASE fetch[f].kind \notin PageKinds
    <3>1. FlightsStay
      BY <1>1, <1>2, <2>2, NoFetchIs, FlightsAreOthers DEF UnderWay, PageKinds
    <3>2. Awaits' => Awaits
      BY <1>1 DEF Awaits
    <3> QED
      BY <1>1, <3>1, <3>2, PageStays
  <2> QED
    BY <2>1, <2>2
<1> QED
  BY <1>3, <1>4, <1>5

\* A page is opened, or asks again.
LEMMA AskingKeeps ==
    ASSUME GroupPagesInv, NEW f \in Fetches, TimerFires(f) \/ \E g \in Groups : OpenPage(f, g)
    PROVE  GroupPagesInv'
<1> USE DEF GroupPagesInv
<1>1. PICK g : fetchGroupById(f, g) /\ page' = g /\ g \in Groups /\ due' = FALSE /\ landed' \in {0, landed}
  <2>1. CASE TimerFires(f)
    <3>1. due /\ fetchGroupById(f, page) /\ UNCHANGED <<page, landed>> /\ due' = FALSE
      BY <2>1 DEF TimerFires
    <3>2. page \in Groups
      BY <3>1 DEF PagesTyped
    <3> QED
      BY <3>1, <3>2
  <2>2. CASE \E g \in Groups : OpenPage(f, g)
    BY <2>2 DEF OpenPage
  <2> QED
    BY <2>1, <2>2
<1>2. UNCHANGED <<news, inGroup, signedIn, groups, balanceCache, currentGroup, outlived>>
  BY DEF TimerFires, OpenPage, serverVars, listVars
<1>3. Start(f, "page", g) /\ activeFetch' = g
  BY <1>1 DEF fetchGroupById
<1>4. PICK r : /\ FetchGoes(f, r) /\ fetch' = [fetch EXCEPT ![f] = r] /\ fetch[f].kind = "none"
               /\ r.kind = "page" /\ r.id = g /\ r.of = signedIn /\ signedIn # NoUser
               /\ started' = started + 1
  BY <1>1, <1>3, StartGoes DEF PageKinds
<1>5. PageKept' /\ FetchesOrdered'
  BY <1>1, <1>2, <1>4, PageAsked
<1>6. event' \subseteq {"changed", "deleted"} \X ({page'} \ {NoGroup}) /\ blind' \in BOOLEAN
  BY DEF TimerFires, OpenPage, PagesTyped
<1>7. PagesTyped'
  BY <1>1, <1>2, <1>3, <1>4, <1>6 DEF PagesTyped
<1>8. ListIsOwn'
  BY <1>2 DEF ListIsOwn
<1> QED
  BY <1>5, <1>7, <1>8

\* The timer fires for an open page only.
LEMMA LeavingKeeps ==
    ASSUME GroupPagesInv, ClosePage \/ \E g \in Groups : leaveGroup(g) \/ deleteGroup(g)
    PROVE  GroupPagesInv'
<1> USE DEF GroupPagesInv
<1>1. /\ UNCHANGED <<news, signedIn, groups, balanceCache, activeFetch, fetch, started, landed, blind, outlived>>
      /\ page' = NoGroup /\ due' = FALSE /\ event' = {} /\ currentGroup' \in {currentGroup, Nothing}
  BY DEF ClosePage, leaveGroup, deleteGroup, LeavesPage, serverVars, listVars
<1>2. inGroup' \in [Users -> SUBSET Groups]
  BY DEF ClosePage, leaveGroup, deleteGroup, LeavesPage, Deleted, serverVars, PagesTyped
<1>3. FetchesOrdered'
  BY <1>1 DEF FetchesOrdered
<1>4. PagesTyped' /\ ListIsOwn' /\ PageKept'
  BY <1>1, <1>2 DEF PagesTyped, ListIsOwn, PageKept, Awaits
<1> QED
  BY <1>3, <1>4

\* A group that is removed leaves nothing in the list that was not in it.
LEMMA RemovalKeepsList ==
    ASSUME PagesTyped, ListIsOwn, NEW g \in Groups, removeGroupLocally(g), UNCHANGED <<signedIn, outlived>>
    PROVE  /\ ListIsOwn' /\ balanceCache' \in [Groups -> Users \cup {NoUser}]
           /\ currentGroup'.id # g \/ g = NoGroup
<1>1. groups' = [h \in DOMAIN groups \ {g} |-> groups[h]]
  BY DEF removeGroupLocally
<1>2. /\ balanceCache' \in [Groups -> Users \cup {NoUser}]
      /\ \A h \in Groups : balanceCache'[h] \in {balanceCache[h], NoUser}
      /\ currentGroup' = IF currentGroup.id = g THEN Nothing ELSE currentGroup
  BY DEF removeGroupLocally, PagesTyped
<1>3. currentGroup'.id # g \/ g = NoGroup
  BY <1>2 DEF Nothing
<1>4. \A h \in DOMAIN groups' : h \in DOMAIN groups /\ groups'[h] = groups[h]
  BY <1>1
<1>5. groups = <<>> => groups' = <<>>
  <2>1. ASSUME groups = <<>> PROVE groups' = <<>>
    <3>1. DOMAIN groups = {}
      BY <2>1
    <3>2. groups' = [h \in {} |-> groups[h]]
      BY <1>1, <3>1
    <3> QED
      BY <3>2
  <2> QED
    BY <2>1
<1>6. ListIsOwn'
  BY <1>2, <1>4, <1>5 DEF ListIsOwn
<1> QED
  BY <1>2, <1>3, <1>6

\* Every event of the page has it wait for its timer.
LEMMA EventsKeep ==
    ASSUME GroupPagesInv, NEW g \in Groups, NEW what \in {"changed", "deleted"}, EventComes(what, g)
    PROVE  GroupPagesInv'
<1> USE DEF GroupPagesInv
<1>1. /\ UNCHANGED <<news, inGroup, signedIn, page, activeFetch, fetch, started, landed, blind, outlived>>
      /\ event' \subseteq event /\ due' = (due \/ page = g) /\ <<what, g>> \in event
  BY DEF EventComes, incrementGroupDataVersion, serverVars
<1>2. page = g
  BY <1>1 DEF PagesTyped
<1>3. due' = TRUE
  BY <1>1, <1>2
<1>4. PageKept'
  BY <1>3 DEF PageKept, Awaits
<1>5. FetchesOrdered'
  BY <1>1, FlightsAsTheyWere
<1>6. ListIsOwn' /\ balanceCache' \in [Groups -> Users \cup {NoUser}]
  <2>1. CASE removeGroupLocally(g)
    BY <1>1, <2>1, RemovalKeepsList
  <2>2. CASE UNCHANGED <<groups, balanceCache, currentGroup>>
    BY <1>1, <2>2 DEF ListIsOwn, PagesTyped
  <2> QED
    BY <2>1, <2>2 DEF EventComes, listVars
<1>7. PagesTyped'
  BY <1>1, <1>2, <1>3, <1>6 DEF PagesTyped
<1> QED
  BY <1>4, <1>5, <1>6, <1>7

\* The server answers: the last request reads what is there.
LEMMA ServerReads ==
    ASSUME GroupPagesInv, NEW f \in Fetches, ReadGroup(f) PROVE GroupPagesInv'
<1> USE DEF GroupPagesInv
<1>1. /\ UNCHANGED <<news, inGroup, signedIn, groups, balanceCache, page, currentGroup, activeFetch, due,
                     event, started, landed, blind, outlived>>
      /\ fetch[f].kind = "page"
  BY DEF ReadGroup, serverVars, listVars, pageVars
<1>2. PICK g \in Groups, u \in Users : g = fetch[f].id /\ u = fetch[f].of
  BY <1>1, FetchOf DEF PageKinds
<1>3. PICK sort \in {"read", "denied"} : sort = IF g \in inGroup[u] THEN "read" ELSE "denied"
  OBVIOUS
<1>4. PICK m \in Nat : m = news[g]
  BY DEF PagesTyped
<1> DEFINE r == [fetch[f] EXCEPT !.kind = sort, !.at = m]
<1>5. /\ r \in FetchRecords /\ r.kind = sort /\ r.at = m /\ r.of = u /\ r.id = g
      /\ r.n = fetch[f].n
  BY <1>2, FetchOf DEF FetchRecords, PageKinds
<1>6. fetch' = [fetch EXCEPT ![f] = r]
  BY <1>2, <1>3, <1>4 DEF ReadGroup
<1> HIDE DEF r
<1>7. FetchGoes(f, r)
  BY <1>1, <1>2, <1>5 DEF FetchGoes, FetchTyped, PageKinds
<1>8. FetchesOrdered' /\ fetch'[f] = r /\ \A h \in Fetches : h # f => fetch'[h] = fetch[h]
  <2>1. landed' \in Nat /\ landed' <= started' /\ started' = started
    BY <1>1 DEF FetchesOrdered
  <2> QED
    BY <1>6, <1>7, <2>1, FetchMoves
<1>9. \A h \in Fetches : /\ UnderWay(h)' <=> UnderWay(h)
                         /\ fetch'[h].n = fetch[h].n /\ fetch'[h].of = fetch[h].of
  BY <1>1, <1>2, <1>5, <1>8 DEF UnderWay, PageKinds
<1>10. PageKept'
  <2> SUFFICES ASSUME Awaits'
               PROVE  \/ \E h \in Fetches : Leads(h)' /\ ReadsRight(h)'
                      \/ ShownRight' /\ \A h \in Fetches : UnderWay(h)' => fetch'[h].n < landed'
    BY DEF PageKept
  <2>1. Awaits
    BY <1>1 DEF Awaits
  <2>2. CASE \E h \in Fetches : Leads(h) /\ ReadsRight(h)
    <3>1. PICK h \in Fetches : Leads(h) /\ ReadsRight(h)
      BY <2>2
    <3>2. Leads(h)'
      BY <1>1, <1>9, <3>1 DEF Leads
    <3>3. ReadsRight(h)'
      <4>1. CASE h = f
        <5>1. g = page /\ u = signedIn
          BY <1>2, <3>1, <4>1 DEF Leads, UnderWay
        <5> QED
          BY <1>1, <1>3, <1>4, <1>5, <1>8, <4>1, <5>1 DEF ReadsRight
      <4>2. CASE h # f
        BY <1>1, <1>8, <3>1, <4>2 DEF ReadsRight
      <4> QED
        BY <4>1, <4>2
    <3> QED
      BY <3>2, <3>3
  <2>3. CASE ShownRight /\ \A h \in Fetches : UnderWay(h) => fetch[h].n < landed
    BY <1>1, <1>9, <2>3 DEF ShownRight
  <2> QED
    BY <2>1, <2>2, <2>3 DEF PageKept
<1>11. PagesTyped' /\ ListIsOwn'
  BY <1>1 DEF PagesTyped, ListIsOwn
<1> QED
  BY <1>8, <1>10, <1>11

\* An answer arrives.
LEMMA LandingIs ==
    ASSUME FetchesOrdered, NEW f \in Fetches, fetch[f].kind \in PageKinds, Lands(f), UNCHANGED started
    PROVE  /\ FetchesOrdered' /\ fetch'[f] = NoFetch
           /\ \A h \in Fetches : h # f => fetch'[h] = fetch[h]
<1>1. /\ fetch' = [fetch EXCEPT ![f] = NoFetch] /\ FetchGoes(f, NoFetch)
      /\ landed' \in {landed, fetch[f].n}
  BY NoFetchIs DEF Lands, FetchEnds, FetchGoes
<1>2. landed' \in Nat /\ landed' <= started'
  BY <1>1, FetchOf DEF FetchesOrdered, PageKinds
<1> QED
  BY <1>1, <1>2, FetchMoves

\* The page after an answer: it is the one of the last request, or was overtaken.
LEMMA LandingKeepsPage ==
    ASSUME GroupPagesInv, NEW f \in Fetches, fetch[f].kind \in {"read", "denied"}, Lands(f),
           UNCHANGED <<news, inGroup, signedIn, page, activeFetch, due, event, started>>,
           IF activeFetch = fetch[f].id
           THEN /\ blind' = (blind \/ fetch[f].n < landed)
                /\ fetch[f].kind = "read" => currentGroup' = [id |-> fetch[f].id, at |-> fetch[f].at]
                /\ fetch[f].kind = "denied" => currentGroup'.id # fetch[f].id
           ELSE UNCHANGED <<currentGroup, blind>>
    PROVE  FetchesOrdered' /\ PageKept' /\ blind' \in BOOLEAN
<1> USE DEF GroupPagesInv
<1>1. fetch[f].kind \in PageKinds /\ fetch[f].kind # "none" /\ fetch[f].kind # "page"
  BY DEF PageKinds
<1>2. /\ FetchesOrdered' /\ fetch'[f] = NoFetch
      /\ \A h \in Fetches : h # f => fetch'[h] = fetch[h]
  BY <1>1, LandingIs
<1>3. \A h \in Fetches : UnderWay(h)' <=> UnderWay(h) /\ h # f
  BY <1>2, NoFetchIs DEF UnderWay, PageKinds
<1>4. blind' \in BOOLEAN
  BY DEF PagesTyped
<1>5. PageKept'
  <2> SUFFICES ASSUME Awaits'
               PROVE  \/ \E h \in Fetches : Leads(h)' /\ ReadsRight(h)'
                      \/ ShownRight' /\ \A h \in Fetches : UnderWay(h)' => fetch'[h].n < landed'
    BY DEF PageKept
  <2>1. Awaits /\ activeFetch = page /\ page \in Groups
    <3>1. ~blind' => ~blind
      OBVIOUS
    <3> QED
      BY <3>1 DEF Awaits, PagesTyped
  <2>2. CASE fetch[f].id # page
    <3>1. UNCHANGED <<currentGroup, landed>> /\ ~UnderWay(f)
      BY <2>1, <2>2 DEF Lands, UnderWay
    <3>2. FlightsStay
      BY <1>2, <1>3, <3>1 DEF FlightsStay
    <3>3. PageKept'
      BY <2>1, <3>1, <3>2, PageStays
    <3> QED
      BY <3>3 DEF PageKept
  <2>3. CASE fetch[f].id = page
    <3>1. UnderWay(f) /\ ~(fetch[f].n < landed) /\ fetch[f].n \in Nat /\ landed \in Nat
      BY <1>1, <2>1, <2>3, FetchOf DEF UnderWay, Awaits, FetchesOrdered
    <3>2. PICK h \in Fetches : Leads(h) /\ ReadsRight(h)
      BY <2>1, <3>1 DEF PageKept
    <3>3. landed' = IF fetch[f].n > landed THEN fetch[f].n ELSE landed
      BY <2>1, <2>3 DEF Lands
    <3>4. CASE h = f
      <4>1. landed' = fetch[f].n
        BY <3>2, <3>3, <3>4 DEF Leads
      <4>2. \A k \in Fetches : UnderWay(k)' => fetch'[k].n < landed'
        BY <1>2, <1>3, <3>2, <3>4, <4>1 DEF Leads
      <4>3. ShownRight'
        BY <1>1, <2>1, <2>3, <3>2, <3>4 DEF ReadsRight, ShownRight
      <4> QED
        BY <4>2, <4>3
    <3>5. CASE h # f
      <4>1. fetch[f].n < fetch[h].n /\ fetch[h].n > landed
        BY <3>1, <3>2, <3>5 DEF Leads
      <4>2. fetch[h].n > landed'
        BY <3>1, <3>3, <4>1
      <4>3. fetch'[h] = fetch[h]
        BY <1>2, <3>5
      <4>4. Leads(h)'
        BY <1>2, <1>3, <3>2, <3>5, <4>2, <4>3 DEF Leads
      <4>5. ReadsRight(h)'
        BY <3>2, <4>3 DEF ReadsRight
      <4> QED
        BY <4>4, <4>5
    <3> QED
      BY <3>4, <3>5
  <2> QED
    BY <2>2, <2>3
<1> QED
  BY <1>2, <1>4, <1>5

LEMMA ShownKeeps ==
    ASSUME GroupPagesInv, NEW f \in Fetches, ShowGroup(f) PROVE GroupPagesInv'
<1> USE DEF GroupPagesInv
<1>1. /\ fetch[f].kind = "read" /\ Lands(f)
      /\ UNCHANGED <<news, inGroup, signedIn, groups, balanceCache, page, activeFetch, due, event, started>>
      /\ IF activeFetch = fetch[f].id
         THEN /\ currentGroup' = [id |-> fetch[f].id, at |-> fetch[f].at]
              /\ blind' = (blind \/ fetch[f].n < landed) /\ Outlives(f)
         ELSE UNCHANGED <<currentGroup, blind, outlived>>
  BY DEF ShowGroup, serverVars, listVars
<1>2. FetchesOrdered' /\ PageKept' /\ blind' \in BOOLEAN
  BY <1>1, LandingKeepsPage
<1>3. outlived' \in BOOLEAN /\ ListIsOwn'
  <2>1. CASE UNCHANGED <<currentGroup, outlived>>
    BY <1>1, <2>1 DEF PagesTyped, ListIsOwn
  <2>2. CASE Outlives(f)
    <3>1. fetch[f].of \in Users
      BY <1>1, FetchOf
    <3>2. outlived' = (outlived \/ fetch[f].of # signedIn)
      BY <2>2 DEF Outlives
    <3>3. outlived' \/ (~outlived /\ signedIn # NoUser)
      BY <3>1, <3>2, GroupPagesAssumption DEF PagesTyped
    <3>4. outlived' \in BOOLEAN
      BY <3>2 DEF PagesTyped
    <3> QED
      BY <1>1, <3>3, <3>4 DEF ListIsOwn
  <2> QED
    BY <1>1, <2>1, <2>2
<1>4. PagesTyped'
  BY <1>1, <1>2, <1>3 DEF PagesTyped
<1> QED
  BY <1>2, <1>3, <1>4

LEMMA DropKeeps ==
    ASSUME GroupPagesInv, NEW f \in Fetches, DropGroup(f) PROVE GroupPagesInv'
<1> USE DEF GroupPagesInv
<1>1. /\ fetch[f].kind = "denied" /\ Lands(f)
      /\ UNCHANGED <<news, inGroup, signedIn, page, activeFetch, due, event, started, outlived>>
      /\ IF activeFetch = fetch[f].id
         THEN removeGroupLocally(fetch[f].id) /\ blind' = (blind \/ fetch[f].n < landed)
         ELSE UNCHANGED <<groups, balanceCache, currentGroup, blind>>
  BY DEF DropGroup, serverVars, listVars
<1>2. PICK g \in Groups : g = fetch[f].id
  BY <1>1, FetchOf DEF PageKinds
<1>3. /\ ListIsOwn' /\ balanceCache' \in [Groups -> Users \cup {NoUser}]
      /\ activeFetch = g => currentGroup'.id # g
  <2>1. CASE activeFetch = g
    BY <1>1, <1>2, <2>1, RemovalKeepsList, GroupPagesAssumption
  <2>2. CASE activeFetch # g
    BY <1>1, <1>2, <2>2 DEF PagesTyped, ListIsOwn
  <2> QED
    BY <2>1, <2>2
<1>4. FetchesOrdered' /\ PageKept' /\ blind' \in BOOLEAN
  BY <1>1, <1>2, <1>3, LandingKeepsPage
<1>5. PagesTyped'
  BY <1>1, <1>3, <1>4 DEF PagesTyped
<1> QED
  BY <1>3, <1>4, <1>5

LEMMA GroupPagesSteps == GroupPagesInv /\ [GroupListNext \/ GroupPageNext]_groupPagesVars => GroupPagesInv'
<1> SUFFICES ASSUME GroupPagesInv, [GroupListNext \/ GroupPageNext]_groupPagesVars PROVE GroupPagesInv'
  OBVIOUS
<1>1. CASE UNCHANGED groupPagesVars
  <2>1. UNCHANGED <<news, inGroup, signedIn, groups, balanceCache, page, currentGroup, activeFetch, due,
                    event, fetch, started, landed, blind, outlived>>
    BY <1>1 DEF groupPagesVars
  <2>2. FlightsStay /\ FetchesOrdered'
    BY <2>1, FlightsAsTheyWere DEF GroupPagesInv
  <2>3. PageKept'
    BY <2>1, <2>2, PageStays DEF Awaits, GroupPagesInv
  <2>4. PagesTyped' /\ ListIsOwn'
    BY <2>1 DEF GroupPagesInv, PagesTyped, ListIsOwn
  <2> QED
    BY <2>2, <2>3, <2>4 DEF GroupPagesInv
<1>2. CASE GroupListNext
  BY <1>2, AccountsKeep, ExpiryKeeps, MembersKeep, ListingKeeps, FailureKeeps DEF GroupListNext
<1>3. CASE GroupPageNext
  BY <1>3, AccountsKeep, LeavingKeeps, MembersKeep, EventsKeep, AskingKeeps, ServerReads, ShownKeeps,
     DropKeeps, FailureKeeps DEF GroupPageNext
<1> QED
  BY <1>1, <1>2, <1>3

LEMMA PageFollows == GroupPagesInv => PageFollowsGroup
<1> SUFFICES ASSUME GroupPagesInv, Awaits, \A f \in Fetches : fetch[f].kind \notin {"page", "read", "denied"}
             PROVE  ShownRight
  BY DEF PageFollowsGroup, Awaits, ShownRight
<1>1. \A f \in Fetches : ~Leads(f)
  BY DEF Leads, UnderWay, PageKinds
<1> QED
  BY <1>1 DEF GroupPagesInv, PageKept

-----------------------------------------------------------------------------
(* The cache of the expenses                                               *)

Readings == UNION {[D -> [of : GroupIds, at : Nat]] : D \in SUBSET GroupIds}
JobRecords ==
    [kind : {"none", "edit", "open", "rest", "all"}, id : GroupIds \cup {NoGroupId},
     step : {"none", "upload", "stored", "reading", "read", "unread"},
     at : Nat, left : SUBSET GroupIds,
     got : Readings]

CacheTyped ==
    /\ sheets \in [GroupIds -> Nat] /\ mineAt \in [GroupIds -> Nat]
    /\ shownGroup \in [id : GroupIds \cup {NoGroupId}, at : Nat]
    /\ groupExpensesCache \in Readings
    /\ job \in [Jobs -> JobRecords]
    /\ \A j \in Jobs : job[j].kind \in {"edit", "open", "rest"} => job[j].id \in GroupIds

\* What the cache holds of a group, if anything, is no older than n.
NoOlder(c, g, n) == g \in DOMAIN c => c[g].at >= n

\* An edit of a group that is not excused is the only one, runs beside no load of all
\* groups, and will not leave anything that is older than itself.
EditSound(j) ==
    LET g == job[j].id IN
    job[j].kind = "edit" /\ g \notin excused =>
        /\ \A k \in Jobs : k # j => ~(job[k].kind = "edit" /\ job[k].id = g)
        /\ \A k \in Jobs : job[k].kind # "all"
        /\ job[j].step = "upload" => NoOlder(groupExpensesCache, g, mineAt[g])
        /\ job[j].step = "read" => job[j].at >= mineAt[g]

\* A load of all groups has read no group as it was before an edit of the tab.
LoadSound(j) ==
    job[j].kind = "all" =>
        \A g \in DOMAIN job[j].got :
            job[j].got[g].of = g /\ (g \notin excused => job[j].got[g].at >= mineAt[g])

\* Only edits store, and a job that is none has no step.
InStep(r) ==
    /\ r.kind # "edit" => r.step # "upload"
    /\ r.kind = "none" => r.step = "none"

CacheInv ==
    /\ CacheTyped
    /\ \A g \in GroupIds : mineAt[g] <= sheets[g]
    /\ \A j \in Jobs : EditSound(j) /\ LoadSound(j)
    /\ CacheKeepsEdits
    /\ \A j \in Jobs : InStep(job[j])

LEMMA ReadingsAre ==
    /\ <<>> \in Readings /\ DOMAIN <<>> = {}
    /\ \A c \in Readings : DOMAIN c \subseteq GroupIds
           /\ \A g \in DOMAIN c : c[g].of \in GroupIds /\ c[g].at \in Nat
<1>1. <<>> \in [{} -> [of : GroupIds, at : Nat]]
  OBVIOUS
<1> QED
  BY <1>1 DEF Readings

\* One group more is read, or read again.
LEMMA ReadingAdds ==
    ASSUME NEW c \in Readings, NEW g \in GroupIds, NEW e \in [of : GroupIds, at : Nat], NEW d,
           d = [h \in DOMAIN c \cup {g} |-> IF h = g THEN e ELSE c[h]]
    PROVE  /\ d \in Readings /\ DOMAIN d = DOMAIN c \cup {g} /\ d[g] = e
           /\ \A h \in DOMAIN c : h # g => d[h] = c[h]
<1>1. PICK D \in SUBSET GroupIds : c \in [D -> [of : GroupIds, at : Nat]]
  BY DEF Readings
<1>2. d \in [D \cup {g} -> [of : GroupIds, at : Nat]]
  BY <1>1
<1> QED
  BY <1>1, <1>2 DEF Readings

LEMMA NoJobIs ==
    NoJob \in JobRecords /\ NoJob.kind = "none" /\ NoJob.step = "none" /\ NoJob.got = <<>>
  BY ReadingsAre DEF NoJob, JobRecords

LEMMA CacheBegins == GroupCacheInit => CacheInv
<1> SUFFICES ASSUME GroupCacheInit PROVE CacheInv
  OBVIOUS
<1>1. \A j \in Jobs : job[j] = NoJob
  BY DEF GroupCacheInit
<1>2. <<>> \in Readings /\ DOMAIN <<>> = {}
  BY ReadingsAre
<1>3. CacheTyped
  BY <1>1, <1>2, NoJobIs DEF GroupCacheInit, CacheTyped, NothingShown
<1>4. \A j \in Jobs : EditSound(j) /\ LoadSound(j)
  BY <1>1, NoJobIs DEF EditSound, LoadSound
<1>5. CacheKeepsEdits
  BY <1>2 DEF CacheKeepsEdits, GroupCacheInit
<1>6. \A g \in GroupIds : mineAt[g] <= sheets[g]
  BY DEF GroupCacheInit
<1> QED
  BY <1>1, <1>3, <1>4, <1>5, <1>6, NoJobIs DEF CacheInv, InStep

\* What a job may become: it goes on or ends, or opens something.
JobGoesOn(j, r) ==
    LET old == job[j] IN
    /\ \/ r.kind = old.kind /\ r.id = old.id
       \/ r.kind = "none"
       \/ old.kind = "none" /\ r.kind \in {"open", "rest"} /\ r.id \in GroupIds
    /\ r.kind = "edit" /\ r.id \notin excused =>
           /\ r.step = "upload" => NoOlder(groupExpensesCache, r.id, mineAt[r.id])
           /\ r.step = "read" => r.at >= mineAt[r.id]
    /\ r.kind = "none" /\ old.kind = "edit" /\ old.id \notin excused =>
           NoOlder(groupExpensesCache, old.id, mineAt[old.id])
    /\ r.kind = "all" =>
           \A g \in DOMAIN r.got : r.got[g].of = g /\ (g \notin excused => r.got[g].at >= mineAt[g])
    /\ InStep(r)

\* The step of one job in which nothing is cached and no edit is stored.
LEMMA JobMoves ==
    ASSUME CacheInv, NEW j \in Jobs, NEW r \in JobRecords, job' = [job EXCEPT ![j] = r],
           JobGoesOn(j, r), UNCHANGED <<mineAt, groupExpensesCache, excused>>,
           sheets' \in [GroupIds -> Nat], \A g \in GroupIds : sheets[g] <= sheets'[g],
           shownGroup' \in [id : GroupIds \cup {NoGroupId}, at : Nat]
    PROVE  CacheInv'
<1>1. /\ job' \in [Jobs -> JobRecords] /\ job'[j] = r
      /\ \A k \in Jobs : k # j => job'[k] = job[k]
  BY DEF CacheInv, CacheTyped
<1>2. job[j].kind \in {"none", "edit", "open", "rest", "all"}
  BY DEF CacheInv, CacheTyped, JobRecords
<1>3. CacheTyped'
  BY <1>1 DEF CacheInv, CacheTyped, JobGoesOn
<1>4. \A k \in Jobs : EditSound(k)'
  <2> SUFFICES ASSUME NEW k \in Jobs PROVE EditSound(k)'
    OBVIOUS
  <2>1. EditSound(k) /\ EditSound(j)
    BY DEF CacheInv
  <2>2. CASE k = j
    BY <1>1, <2>1, <2>2 DEF EditSound, JobGoesOn
  <2>3. CASE k # j
    BY <1>1, <2>1, <2>3 DEF EditSound, JobGoesOn
  <2> QED
    BY <2>2, <2>3
<1>5. \A k \in Jobs : LoadSound(k)'
  BY <1>1 DEF CacheInv, LoadSound, JobGoesOn
<1>6. CacheKeepsEdits'
  <2> SUFFICES ASSUME NEW g \in DOMAIN groupExpensesCache
               PROVE  /\ groupExpensesCache[g].of = g
                      /\ (\A k \in Jobs : job'[k].id = g => job'[k].kind # "edit")
                           /\ g \notin excused => groupExpensesCache[g].at >= mineAt[g]
    BY DEF CacheKeepsEdits
  <2>1. groupExpensesCache[g].of = g
    BY DEF CacheInv, CacheKeepsEdits
  <2>2. ASSUME \A k \in Jobs : job'[k].id = g => job'[k].kind # "edit", g \notin excused
        PROVE  groupExpensesCache[g].at >= mineAt[g]
    <3>1. CASE job[j].id = g /\ job[j].kind = "edit"
      BY <1>1, <2>2, <3>1 DEF JobGoesOn, NoOlder
    <3>2. CASE ~(job[j].id = g /\ job[j].kind = "edit")
      <4>1. \A k \in Jobs : job[k].id = g => job[k].kind # "edit"
        BY <1>1, <2>2, <3>2
      <4> QED
        BY <2>2, <4>1 DEF CacheInv, CacheKeepsEdits
    <3> QED
      BY <3>1, <3>2
  <2> QED
    BY <2>1, <2>2
<1>7. \A g \in GroupIds : mineAt'[g] <= sheets'[g]
  BY DEF CacheInv, CacheTyped
<1>8. \A k \in Jobs : InStep(job'[k])
  BY <1>1 DEF CacheInv, JobGoesOn
<1> QED
  BY <1>3, <1>4, <1>5, <1>6, <1>7, <1>8 DEF CacheInv

LEMMA JobOf ==
    ASSUME CacheInv, NEW j \in Jobs
    PROVE  /\ job[j] \in JobRecords /\ EditSound(j) /\ LoadSound(j)
           /\ job[j].kind \in {"edit", "open", "rest"} => job[j].id \in GroupIds
           /\ job[j].step = "upload" => job[j].kind = "edit"
           /\ InStep(job[j])
  BY DEF CacheInv, CacheTyped, InStep

LEMMA NoneGoes ==
    ASSUME CacheInv, NEW j \in Jobs, job[j].kind # "edit" \/ job[j].step = "upload"
    PROVE  JobGoesOn(j, NoJob)
  BY JobOf, NoJobIs DEF JobGoesOn, EditSound, InStep

LEMMA MatesKeep ==
    ASSUME CacheInv, NEW g \in GroupIds, MateEdits(g) PROVE CacheInv'
<1>1. /\ UNCHANGED <<shownGroup, askedGroup, groupExpensesCache, job, mineAt, excused>>
      /\ \A h \in GroupIds : sheets[h] <= sheets'[h]
      /\ sheets' \in [GroupIds -> Nat]
  BY DEF MateEdits, CacheInv, CacheTyped
<1>2. CacheTyped' /\ \A h \in GroupIds : mineAt'[h] <= sheets'[h]
  BY <1>1 DEF CacheInv, CacheTyped
<1>3. (\A j \in Jobs : EditSound(j)' /\ LoadSound(j)') /\ CacheKeepsEdits'
  BY <1>1 DEF CacheInv, EditSound, LoadSound, CacheKeepsEdits
<1> QED
  BY <1>1, <1>2, <1>3 DEF CacheInv

\* A job begins that edits no expenses and loads not all groups.
LEMMA OpeningKeeps ==
    ASSUME CacheInv, NEW j \in Jobs, NEW g \in GroupIds, OpensGroup(j, g) \/ EditsTheRest(j, g)
    PROVE  CacheInv'
<1>1. PICK sort \in {"open", "rest"}, step \in {"reading", "stored"} : Begins(j, sort, g, step)
  BY DEF OpensGroup, EditsTheRest
<1> DEFINE r == [NoJob EXCEPT !.kind = sort, !.id = g, !.step = step]
<1>2. r \in JobRecords /\ r.kind = sort /\ r.id = g /\ r.step = step
  BY NoJobIs DEF JobRecords
<1>3. job[j] = NoJob /\ job' = [job EXCEPT ![j] = r]
  BY <1>1 DEF Begins
<1> HIDE DEF r
<1>4. JobGoesOn(j, r)
  BY <1>2, <1>3, NoJobIs DEF JobGoesOn, InStep
<1>5. UNCHANGED <<sheets, shownGroup, groupExpensesCache, mineAt, excused>>
  BY DEF OpensGroup, EditsTheRest
<1>6. /\ sheets' \in [GroupIds -> Nat] /\ \A h \in GroupIds : sheets[h] <= sheets'[h]
      /\ shownGroup' \in [id : GroupIds \cup {NoGroupId}, at : Nat]
  BY <1>5 DEF CacheInv, CacheTyped
<1> QED
  BY <1>2, <1>3, <1>4, <1>5, <1>6, JobMoves

LEMMA EditingKeeps ==
    ASSUME CacheInv, NEW j \in Jobs, NEW g \in GroupIds, EditsExpenses(j, g) PROVE CacheInv'
<1>1. PICK sort \in {"edit"} : Begins(j, sort, g, "upload")
  BY DEF EditsExpenses
<1> DEFINE r == [NoJob EXCEPT !.kind = sort, !.id = g, !.step = "upload"]
<1>2. r \in JobRecords /\ r.kind = sort /\ r.id = g /\ r.step = "upload"
  BY NoJobIs DEF JobRecords
<1>3. job[j] = NoJob /\ job' = [job EXCEPT ![j] = r]
  BY <1>1 DEF Begins
<1> HIDE DEF r
<1>4. /\ job' \in [Jobs -> JobRecords] /\ job'[j] = r
      /\ \A k \in Jobs : k # j => job'[k] = job[k]
  BY <1>2, <1>3 DEF CacheInv, CacheTyped
<1>5. /\ UNCHANGED <<sheets, shownGroup, groupExpensesCache, mineAt>>
      /\ excused \subseteq excused'
      /\ g \notin excused' => \A k \in Jobs : job[k].kind # "all" /\ ~(job[k].kind = "edit" /\ job[k].id = g)
  BY DEF EditsExpenses
<1>6. CacheTyped' /\ \A h \in GroupIds : mineAt'[h] <= sheets'[h]
  BY <1>2, <1>4, <1>5 DEF CacheInv, CacheTyped
<1>7. \A k \in Jobs : EditSound(k)'
  <2> SUFFICES ASSUME NEW k \in Jobs PROVE EditSound(k)'
    OBVIOUS
  <2>1. CASE k = j
    <3> SUFFICES ASSUME g \notin excused'
                 PROVE  /\ \A h \in Jobs : h # j => ~(job'[h].kind = "edit" /\ job'[h].id = g)
                        /\ \A h \in Jobs : job'[h].kind # "all"
                        /\ NoOlder(groupExpensesCache, g, mineAt[g])
      BY <1>2, <1>4, <1>5, <2>1 DEF EditSound, NoOlder
    <3>1. \A h \in Jobs : job[h].id = g => job[h].kind # "edit"
      BY <1>5
    <3>2. NoOlder(groupExpensesCache, g, mineAt[g])
      BY <1>5, <3>1 DEF CacheInv, CacheKeepsEdits, NoOlder
    <3> QED
      BY <1>2, <1>4, <1>5, <3>2
  <2>2. CASE k # j
    <3>1. EditSound(k)
      BY DEF CacheInv
    <3>2. job[k].kind = "edit" /\ job[k].id \notin excused' => job[k].id # g
      BY <1>5
    <3>3. r.kind # "all"
      BY <1>2
    <3> QED
      BY <1>2, <1>4, <1>5, <2>2, <3>1, <3>2, <3>3 DEF EditSound, NoOlder
  <2> QED
    BY <2>1, <2>2
<1>8. \A k \in Jobs : LoadSound(k)'
  BY <1>2, <1>4, <1>5 DEF CacheInv, LoadSound
<1>9. CacheKeepsEdits'
  <2>1. \A k \in Jobs : job[k].kind = "edit" => job'[k].kind = "edit" /\ job'[k].id = job[k].id
    BY <1>3, <1>4, NoJobIs
  <2> QED
    BY <1>5, <2>1 DEF CacheInv, CacheKeepsEdits
<1>10. \A k \in Jobs : InStep(job'[k])
  BY <1>1, <1>2, <1>4 DEF CacheInv, InStep
<1> QED
  BY <1>5, <1>6, <1>7, <1>8, <1>9, <1>10 DEF CacheInv

LEMMA StoringKeeps ==
    ASSUME CacheInv, NEW j \in Jobs, StoresExpenses(j) PROVE CacheInv'
<1> DEFINE g == job[j].id
           r == [job[j] EXCEPT !.step = "stored"]
<1>1. job[j] \in JobRecords /\ job[j].kind = "edit" /\ g \in GroupIds /\ EditSound(j)
  BY JobOf DEF StoresExpenses, At
<1>2. r \in JobRecords /\ r.kind = job[j].kind /\ r.id = g /\ r.step = "stored"
  BY <1>1 DEF JobRecords
<1>3. /\ job' = [job EXCEPT ![j] = r] /\ sheets' = [sheets EXCEPT ![g] = @ + 1]
      /\ mineAt' = [mineAt EXCEPT ![g] = sheets[g] + 1]
      /\ UNCHANGED <<shownGroup, groupExpensesCache, excused>>
  BY DEF StoresExpenses, StepsTo
<1> HIDE DEF r
<1>4. /\ job' \in [Jobs -> JobRecords] /\ job'[j] = r
      /\ \A k \in Jobs : k # j => job'[k] = job[k]
  BY <1>2, <1>3 DEF CacheInv, CacheTyped
<1>5. /\ sheets' \in [GroupIds -> Nat] /\ mineAt' \in [GroupIds -> Nat]
      /\ \A h \in GroupIds : h # g => mineAt'[h] = mineAt[h]
      /\ \A h \in GroupIds : mineAt'[h] <= sheets'[h]
  BY <1>1, <1>3 DEF CacheInv, CacheTyped
<1>6. CacheTyped'
  BY <1>1, <1>2, <1>3, <1>4, <1>5 DEF CacheInv, CacheTyped
<1>7. \A k \in Jobs : job'[k].kind = job[k].kind /\ job'[k].id = job[k].id /\ job'[k].got = job[k].got
  <2>1. r.got = job[j].got
    BY <1>1 DEF JobRecords, r
  <2> QED
    BY <1>2, <1>4, <2>1
<1>8. \A k \in Jobs : EditSound(k)'
  <2> SUFFICES ASSUME NEW k \in Jobs PROVE EditSound(k)'
    OBVIOUS
  <2>1. CASE k = j
    BY <1>1, <1>2, <1>3, <1>4, <1>7, <2>1 DEF EditSound
  <2>2. CASE k # j
    <3>1. EditSound(k) /\ job[k] \in JobRecords /\ (job[k].kind = "edit" => job[k].id \in GroupIds)
      BY JobOf
    <3>2. job[k].kind = "edit" /\ job[k].id \notin excused => job[k].id # g
      BY <1>1, <2>2 DEF EditSound
    <3> QED
      BY <1>3, <1>4, <1>5, <1>7, <2>2, <3>1, <3>2 DEF EditSound
  <2> QED
    BY <2>1, <2>2
<1>9. \A k \in Jobs : LoadSound(k)'
  <2> SUFFICES ASSUME NEW k \in Jobs, job[k].kind = "all", NEW h \in DOMAIN job[k].got
               PROVE  /\ job[k].got[h].of = h
                      /\ h \notin excused => job[k].got[h].at >= mineAt'[h]
    BY <1>3, <1>7 DEF LoadSound
  <2>1. LoadSound(k) /\ h \in GroupIds
    BY JobOf, ReadingsAre DEF JobRecords
  <2>2. h \notin excused => h # g
    BY <1>1 DEF EditSound
  <2> QED
    BY <1>5, <2>1, <2>2 DEF LoadSound
<1>10. CacheKeepsEdits'
  <2> SUFFICES ASSUME NEW h \in DOMAIN groupExpensesCache
               PROVE  /\ groupExpensesCache[h].of = h
                      /\ (\A k \in Jobs : job[k].id = h => job[k].kind # "edit") /\ h \notin excused
                             => groupExpensesCache[h].at >= mineAt'[h]
    BY <1>3, <1>7 DEF CacheKeepsEdits
  <2>1. h \in GroupIds
    BY ReadingsAre DEF CacheInv, CacheTyped
  <2> QED
    BY <1>1, <1>5, <2>1 DEF CacheInv, CacheKeepsEdits
<1>11. \A k \in Jobs : InStep(job'[k])
  BY <1>1, <1>2, <1>4 DEF CacheInv, InStep
<1> QED
  BY <1>3, <1>5, <1>6, <1>8, <1>9, <1>10, <1>11 DEF CacheInv

LEMMA ShownStays ==
    ASSUME CacheInv
    PROVE  /\ shownGroup \in [id : GroupIds \cup {NoGroupId}, at : Nat]
           /\ sheets \in [GroupIds -> Nat] /\ \A g \in GroupIds : sheets[g] <= sheets[g]
  BY DEF CacheInv, CacheTyped

LEMMA FailingKeeps ==
    ASSUME CacheInv, NEW j \in Jobs, EditFails(j) PROVE CacheInv'
<1> DEFINE g == job[j].id
<1>1. job[j].step = "upload" /\ g \in GroupIds /\ JobGoesOn(j, NoJob)
  BY JobOf, NoneGoes DEF EditFails, At
<1>2. sheets' \in [GroupIds -> Nat] /\ \A h \in GroupIds : sheets[h] <= sheets'[h]
  BY <1>1 DEF EditFails, CacheInv, CacheTyped
<1>3. /\ job' = [job EXCEPT ![j] = NoJob]
      /\ UNCHANGED <<shownGroup, groupExpensesCache, mineAt, excused>>
  BY DEF EditFails, JobEnds
<1> QED
  BY <1>1, <1>2, <1>3, NoJobIs, ShownStays, JobMoves

LEMMA ReadingKeeps ==
    ASSUME CacheInv, NEW j \in Jobs, FetchesAgain(j) \/ ReadsGroup(j) PROVE CacheInv'
<1> DEFINE g == job[j].id
<1>1. /\ job[j] \in JobRecords /\ job[j].step \in {"stored", "reading"}
      /\ UNCHANGED <<sheets, shownGroup, groupExpensesCache, mineAt, excused>>
  BY JobOf DEF FetchesAgain, ReadsGroup, At
<1>2. ASSUME NEW s \in {"reading", "unread"}, job' = [job EXCEPT ![j].step = s] PROVE CacheInv'
  <2> DEFINE r == [job[j] EXCEPT !.step = s]
  <2>1. r \in JobRecords /\ r.step = s /\ r.kind = job[j].kind /\ r.id = g /\ r.got = job[j].got
    BY <1>1 DEF JobRecords
  <2>2. job' = [job EXCEPT ![j] = r]
    BY <1>2
  <2> HIDE DEF r
  <2>3. JobGoesOn(j, r)
    BY <1>1, <2>1, JobOf DEF JobGoesOn, LoadSound, InStep
  <2> QED
    BY <1>1, <2>1, <2>2, <2>3, ShownStays, JobMoves
<1>3. ASSUME ReadsGroup(j), job' = [job EXCEPT ![j].step = "read", ![j].at = sheets[g]]
      PROVE  CacheInv'
  <2>1. job[j].kind \in {"none", "edit", "open", "rest"}
    BY <1>1, <1>3 DEF ReadsGroup, JobRecords
  <2>2. job[j].kind # "none"
    BY <1>1, JobOf DEF InStep
  <2>3. g \in GroupIds
    BY <2>1, <2>2, JobOf
  <2>4. PICK n : n = sheets[g]
    OBVIOUS
  <2>5. n \in Nat /\ mineAt[g] <= n
    BY <2>3, <2>4 DEF CacheInv, CacheTyped
  <2> DEFINE r == [job[j] EXCEPT !.step = "read", !.at = n]
  <2>6. job' = [job EXCEPT ![j] = r]
    BY <1>3, <2>4
  <2>7. /\ r \in JobRecords /\ r.step = "read" /\ r.kind = job[j].kind /\ r.id = g /\ r.at = n
    BY <1>1, <2>5 DEF JobRecords
  <2> HIDE DEF r
  <2>8. JobGoesOn(j, r)
    <3>1. n >= mineAt[g]
      BY <2>3, <2>5 DEF CacheInv, CacheTyped
    <3> QED
      BY <1>1, <2>1, <2>2, <2>7, <3>1 DEF JobGoesOn, InStep
  <2> QED
    BY <1>1, <2>6, <2>7, <2>8, ShownStays, JobMoves
<1> QED
  BY <1>2, <1>3 DEF FetchesAgain, ReadsGroup, StepsTo

\* The group that is shown keeps its type.
LEMMA ShownIsGroup ==
    ASSUME CacheInv, NEW j \in Jobs, ShowsRead(j)
    PROVE  shownGroup' \in [id : GroupIds \cup {NoGroupId}, at : Nat]
  BY JobOf, ShownStays DEF ShowsRead, JobRecords

\* Of the cache, the entry of g alone may change, and holds g.
CachesOnly(g) ==
    /\ groupExpensesCache' \in Readings
    /\ \A h \in GroupIds : h # g =>
           /\ h \in DOMAIN groupExpensesCache' <=> h \in DOMAIN groupExpensesCache
           /\ h \in DOMAIN groupExpensesCache => groupExpensesCache'[h] = groupExpensesCache[h]
    /\ g \in DOMAIN groupExpensesCache' => groupExpensesCache'[g].of = g

LEMMA CachesIts ==
    ASSUME CacheInv, NEW j \in Jobs, job[j].kind = "edit", job[j].step = "read" \/ job[j].step = "unread",
           ShowsRead(j), syncCacheFromGroup(job[j].id)
    PROVE  /\ CachesOnly(job[j].id)
           /\ IsShown(j) /\ job[j].id \notin excused
                  => NoOlder(groupExpensesCache', job[j].id, mineAt[job[j].id])
<1>1. PICK g \in GroupIds : g = job[j].id
  BY JobOf
<1>2. /\ groupExpensesCache \in Readings
      /\ \A h \in DOMAIN groupExpensesCache : groupExpensesCache[h].of = h
  BY DEF CacheInv, CacheTyped, CacheKeepsEdits
<1>3. CASE shownGroup'.id = g
  <2> DEFINE e == [of |-> g, at |-> shownGroup'.at]
  <2>1. e \in [of : GroupIds, at : Nat] /\ e.of = g /\ e.at = shownGroup'.at
    BY ShownIsGroup
  <2>2. groupExpensesCache' = [h \in DOMAIN groupExpensesCache \cup {g} |->
                                  IF h = g THEN e ELSE groupExpensesCache[h]]
    BY <1>1, <1>3 DEF syncCacheFromGroup
  <2> HIDE DEF e
  <2>3. /\ groupExpensesCache' \in Readings /\ groupExpensesCache'[g] = e
        /\ DOMAIN groupExpensesCache' = DOMAIN groupExpensesCache \cup {g}
        /\ \A h \in DOMAIN groupExpensesCache : h # g => groupExpensesCache'[h] = groupExpensesCache[h]
    BY <1>2, <2>1, <2>2, ReadingAdds
  <2>4. CachesOnly(g)
    BY <2>1, <2>3 DEF CachesOnly
  <2>5. IsShown(j) /\ g \notin excused => e.at >= mineAt[g]
    <3>1. IsShown(j) => job[j].step = "read" /\ e.at = job[j].at
      BY <2>1 DEF IsShown, At, ShowsRead
    <3>2. g \notin excused /\ job[j].step = "read" => job[j].at >= mineAt[g]
      BY <1>1, JobOf DEF EditSound
    <3> QED
      BY <3>1, <3>2
  <2> QED
    BY <1>1, <2>3, <2>4, <2>5 DEF NoOlder
<1>4. CASE shownGroup'.id # g
  <2>1. ~IsShown(j)
    BY <1>1, <1>4 DEF ShowsRead
  <2>2. groupExpensesCache' = groupExpensesCache
    BY <1>1, <1>4 DEF syncCacheFromGroup
  <2>3. CachesOnly(g)
    BY <1>2, <2>2 DEF CachesOnly
  <2> QED
    BY <1>1, <2>1, <2>3
<1> QED
  BY <1>3, <1>4

\* An edit is over, and has left nothing in the cache that is older
\* than itself, unless it is excused.
LEMMA CachingKeeps ==
    ASSUME CacheInv, NEW j \in Jobs, job[j].kind = "edit", NEW g \in GroupIds, g = job[j].id,
           NEW r \in JobRecords, job' = [job EXCEPT ![j] = r], CachesOnly(g),
           r = NoJob,
           excused' \in {excused, excused \cup {g}},
           g \notin excused' => NoOlder(groupExpensesCache', g, mineAt[g]),
           UNCHANGED <<sheets, mineAt>>,
           shownGroup' \in [id : GroupIds \cup {NoGroupId}, at : Nat]
    PROVE  CacheInv'
<1>1. /\ job' \in [Jobs -> JobRecords] /\ job'[j] = r
      /\ \A k \in Jobs : k # j => job'[k] = job[k]
  BY DEF CacheInv, CacheTyped
<1>2. /\ r.kind = "none"
      /\ r.kind # "all" /\ InStep(r) /\ (r.kind \in {"edit", "open", "rest"} => r.id \in GroupIds)
  BY NoJobIs DEF InStep
<1>3. CacheTyped'
  BY <1>1, <1>2 DEF CacheInv, CacheTyped, CachesOnly
<1>4. excused \subseteq excused' /\ \A h : h # g => (h \in excused <=> h \in excused')
  OBVIOUS
<1>5. \A k \in Jobs : EditSound(k)'
  <2> SUFFICES ASSUME NEW k \in Jobs PROVE EditSound(k)'
    OBVIOUS
  <2>1. \A h \in Jobs : /\ job'[h].kind = "all" => job[h].kind = "all"
                        /\ job'[h].kind = "edit" => job[h].kind = "edit" /\ job'[h].id = job[h].id
    BY <1>1, <1>2
  <2>2. CASE k = j
    BY <1>1, <1>2, <1>4, <2>1, <2>2, JobOf DEF EditSound
  <2>3. CASE k # j
    <3> SUFFICES ASSUME job[k].kind = "edit", job[k].id \notin excused'
                 PROVE  EditSound(k)'
      BY <1>1, <2>3 DEF EditSound
    <3>1. PICK h \in GroupIds : h = job[k].id
      BY JobOf
    <3>2. EditSound(k) /\ h \notin excused
      BY <1>4, <3>1, JobOf
    <3>3. h # g
      BY <2>3, <3>1, <3>2 DEF EditSound
    <3>4. NoOlder(groupExpensesCache, h, mineAt[h]) => NoOlder(groupExpensesCache', h, mineAt[h])
      BY <3>3 DEF NoOlder, CachesOnly
    <3> QED
      BY <1>1, <2>1, <2>3, <3>1, <3>2, <3>4 DEF EditSound
  <2> QED
    BY <2>2, <2>3
<1>6. \A k \in Jobs : LoadSound(k)'
  BY <1>1, <1>2, <1>4 DEF CacheInv, LoadSound
<1>7. CacheKeepsEdits'
  <2> SUFFICES ASSUME NEW h \in DOMAIN groupExpensesCache'
               PROVE  /\ groupExpensesCache'[h].of = h
                      /\ (\A k \in Jobs : job'[k].id = h => job'[k].kind # "edit") /\ h \notin excused'
                             => groupExpensesCache'[h].at >= mineAt[h]
    BY DEF CacheKeepsEdits
  <2>1. h \in GroupIds
    BY ReadingsAre DEF CachesOnly
  <2>2. CASE h = g
    BY <2>2 DEF CachesOnly, NoOlder
  <2>3. CASE h # g
    <3>1. h \in DOMAIN groupExpensesCache /\ groupExpensesCache'[h] = groupExpensesCache[h]
      BY <2>1, <2>3 DEF CachesOnly
    <3>2. (\A k \in Jobs : job'[k].id = h => job'[k].kind # "edit")
              => \A k \in Jobs : job[k].id = h => job[k].kind # "edit"
      BY <1>1, <2>3
    <3> QED
      BY <1>4, <2>3, <3>1, <3>2 DEF CacheInv, CacheKeepsEdits
  <2> QED
    BY <2>2, <2>3
<1>8. \A k \in Jobs : InStep(job'[k])
  BY <1>1, <1>2 DEF CacheInv
<1> QED
  BY <1>3, <1>5, <1>6, <1>7, <1>8 DEF CacheInv

LEMMA ShowingKeeps ==
    ASSUME CacheInv, NEW j \in Jobs, ShowsGroup(j) PROVE CacheInv'
<1>1. /\ job[j].step = "read" \/ job[j].step = "unread"
      /\ ShowsRead(j) /\ UNCHANGED <<sheets, mineAt>>
  BY DEF ShowsGroup
<1>2. CASE job[j].kind # "edit"
  <2>1. job' = [job EXCEPT ![j] = NoJob] /\ UNCHANGED <<groupExpensesCache, excused>>
    BY <1>2 DEF ShowsGroup, JobEnds
  <2>2. JobGoesOn(j, NoJob)
    BY <1>2, NoneGoes
  <2> QED
    BY <1>1, <2>1, <2>2, NoJobIs, ShownIsGroup, ShownStays, JobMoves
<1>3. CASE job[j].kind = "edit"
  <2>1. PICK g \in GroupIds : g = job[j].id
    BY <1>3, JobOf
  <2>2. syncCacheFromGroup(g) /\ excused' = IF IsShown(j) THEN excused ELSE excused \cup {g}
    BY <1>3, <2>1 DEF ShowsGroup
  <2>3. CachesOnly(g) /\ (IsShown(j) /\ g \notin excused => NoOlder(groupExpensesCache', g, mineAt[g]))
    BY <1>1, <1>3, <2>1, <2>2, CachesIts
  <2>4. /\ excused' \in {excused, excused \cup {g}}
        /\ g \notin excused' => NoOlder(groupExpensesCache', g, mineAt[g])
    BY <2>2, <2>3
  <2>5. JobEnds(j)
    BY DEF ShowsGroup
  <2> QED
    BY <1>1, <1>3, <2>1, <2>3, <2>4, <2>5, NoJobIs, ShownIsGroup, CachingKeeps DEF JobEnds
<1> QED
  BY <1>2, <1>3

LEMMA AllBegins ==
    ASSUME CacheInv, NEW j \in Jobs, fetchAllGroupExpenses(j) PROVE CacheInv'
<1> DEFINE r == [NoJob EXCEPT !.kind = "all", !.step = "reading", !.left = GroupIds]
<1>1. r \in JobRecords /\ r.kind = "all" /\ r.got = <<>> /\ r.step = "reading"
  BY NoJobIs DEF JobRecords
<1>2. /\ job[j] = NoJob /\ job' = [job EXCEPT ![j] = r]
      /\ UNCHANGED <<sheets, shownGroup, groupExpensesCache, mineAt>>
      /\ excused \subseteq excused'
      /\ \A k \in Jobs : job[k].kind = "edit" => job[k].id \in excused'
  BY DEF fetchAllGroupExpenses
<1> HIDE DEF r
<1>3. /\ job' \in [Jobs -> JobRecords] /\ job'[j] = r
      /\ \A k \in Jobs : k # j => job'[k] = job[k]
  BY <1>1, <1>2 DEF CacheInv, CacheTyped
<1>4. CacheTyped' /\ \A h \in GroupIds : mineAt'[h] <= sheets'[h]
  BY <1>1, <1>2, <1>3 DEF CacheInv, CacheTyped
<1>5. \A k \in Jobs : EditSound(k)'
  BY <1>1, <1>2, <1>3 DEF EditSound
<1>6. \A k \in Jobs : LoadSound(k)'
  BY <1>1, <1>2, <1>3, ReadingsAre DEF CacheInv, LoadSound
<1>7. CacheKeepsEdits'
  <2>1. \A k \in Jobs : job[k].kind = "edit" => job'[k] = job[k]
    BY <1>2, <1>3, NoJobIs
  <2> QED
    BY <1>2, <2>1 DEF CacheInv, CacheKeepsEdits
<1>8. \A k \in Jobs : InStep(job'[k])
  BY <1>1, <1>3 DEF CacheInv, InStep
<1> QED
  BY <1>2, <1>4, <1>5, <1>6, <1>7, <1>8 DEF CacheInv

LEMMA AllReads ==
    ASSUME CacheInv, NEW j \in Jobs, ReadsNext(j) PROVE CacheInv'
<1>1. /\ job[j] \in JobRecords /\ job[j].kind = "all"
      /\ UNCHANGED <<sheets, shownGroup, groupExpensesCache, mineAt, excused>>
  BY JobOf DEF ReadsNext
<1>2. PICK g \in job[j].left, got \in BOOLEAN :
        job' = [job EXCEPT
            ![j].left = @ \ {g},
            ![j].got = IF got THEN [h \in DOMAIN @ \cup {g} |->
                                        IF h = g THEN [of |-> g, at |-> sheets[g]] ELSE @[h]]
                       ELSE @]
  BY DEF ReadsNext
<1>3. g \in GroupIds /\ job[j].got \in Readings
  BY <1>1 DEF JobRecords
<1>4. PICK c : c = job[j].got
  OBVIOUS
<1>5. PICK e : e = [of |-> g, at |-> sheets[g]]
  OBVIOUS
<1>6. e \in [of : GroupIds, at : Nat] /\ e.of = g /\ e.at = sheets[g] /\ sheets[g] >= mineAt[g]
  BY <1>3, <1>5 DEF CacheInv, CacheTyped
<1>7. PICK d : d = IF got THEN [h \in DOMAIN c \cup {g} |-> IF h = g THEN e ELSE c[h]] ELSE c
  OBVIOUS
<1>8. /\ d \in Readings
      /\ \A h \in DOMAIN d : \/ h \in DOMAIN c /\ d[h] = c[h]
                             \/ h = g /\ d[h] = e
  <2>1. CASE got
    <3>1. d = [h \in DOMAIN c \cup {g} |-> IF h = g THEN e ELSE c[h]]
      BY <1>7, <2>1
    <3> QED
      BY <1>3, <1>4, <1>6, <3>1, ReadingAdds
  <2>2. CASE ~got
    BY <1>3, <1>4, <1>7, <2>2
  <2> QED
    BY <2>1, <2>2
<1> DEFINE r == [job[j] EXCEPT !.left = @ \ {g}, !.got = d]
<1>9. /\ r \in JobRecords /\ r.kind = job[j].kind /\ r.id = job[j].id /\ r.step = job[j].step
      /\ r.got = d
  BY <1>1, <1>8 DEF JobRecords
<1>10. job' = [job EXCEPT ![j] = r]
  BY <1>2, <1>4, <1>5, <1>7
<1> HIDE DEF r
<1>11. \A h \in DOMAIN d : d[h].of = h /\ (h \notin excused => d[h].at >= mineAt[h])
  <2>1. LoadSound(j)
    BY JobOf
  <2> QED
    BY <1>1, <1>4, <1>6, <1>8, <2>1 DEF LoadSound
<1>12. JobGoesOn(j, r)
  <2>1. InStep(r)
    BY <1>9, JobOf DEF InStep
  <2> QED
    BY <1>1, <1>9, <1>11, <2>1 DEF JobGoesOn
<1> QED
  BY <1>1, <1>9, <1>10, <1>12, ShownStays, JobMoves

LEMMA AllReplaces ==
    ASSUME CacheInv, NEW j \in Jobs, ReplacesCache(j) PROVE CacheInv'
<1>1. /\ job[j] \in JobRecords /\ job[j].kind = "all" /\ job' = [job EXCEPT ![j] = NoJob]
      /\ UNCHANGED <<sheets, shownGroup, mineAt, excused>>
  BY JobOf DEF ReplacesCache, JobEnds
<1>2. CASE UNCHANGED groupExpensesCache
  <2>1. JobGoesOn(j, NoJob)
    BY <1>1, NoneGoes
  <2> QED
    BY <1>1, <1>2, <2>1, NoJobIs, ShownStays, JobMoves
<1>3. CASE groupExpensesCache' = job[j].got
  <2>1. /\ job' \in [Jobs -> JobRecords] /\ job'[j] = NoJob
        /\ \A k \in Jobs : k # j => job'[k] = job[k]
    BY <1>1, NoJobIs DEF CacheInv, CacheTyped
  <2>2. CacheTyped' /\ \A h \in GroupIds : mineAt'[h] <= sheets'[h]
    BY <1>1, <1>3, <2>1, NoJobIs DEF CacheInv, CacheTyped, JobRecords
  <2>3. \A k \in Jobs : EditSound(k)'
    <3> SUFFICES ASSUME NEW k \in Jobs PROVE EditSound(k)'
      OBVIOUS
    <3>1. EditSound(k)
      BY JobOf
    <3>2. job'[k].kind = "edit" => job'[k] = job[k]
      BY <2>1, NoJobIs
    <3> QED
      BY <1>1, <3>1, <3>2 DEF EditSound
  <2>4. \A k \in Jobs : LoadSound(k)'
    BY <1>1, <2>1, NoJobIs DEF CacheInv, LoadSound
  <2>5. CacheKeepsEdits'
    <3>1. LoadSound(j)
      BY JobOf
    <3> QED
      BY <1>1, <1>3, <3>1 DEF LoadSound, CacheKeepsEdits
  <2>6. \A k \in Jobs : InStep(job'[k])
    BY <2>1, NoJobIs DEF CacheInv, InStep
  <2> QED
    BY <1>1, <2>2, <2>3, <2>4, <2>5, <2>6 DEF CacheInv
<1> QED
  BY <1>2, <1>3 DEF ReplacesCache

LEMMA CacheSteps == CacheInv /\ [GroupCacheNext]_cacheVars => CacheInv'
<1> SUFFICES ASSUME CacheInv, [GroupCacheNext]_cacheVars PROVE CacheInv'
  OBVIOUS
<1>1. CASE UNCHANGED cacheVars
  <2>1. UNCHANGED <<sheets, shownGroup, groupExpensesCache, job, mineAt, excused>>
    BY <1>1 DEF cacheVars
  <2>2. CacheTyped' /\ \A h \in GroupIds : mineAt'[h] <= sheets'[h]
    BY <2>1 DEF CacheInv, CacheTyped
  <2>3. (\A j \in Jobs : EditSound(j)' /\ LoadSound(j)') /\ CacheKeepsEdits'
    BY <2>1 DEF CacheInv, EditSound, LoadSound, CacheKeepsEdits
  <2> QED
    BY <2>1, <2>2, <2>3 DEF CacheInv
<1>2. CASE GroupCacheNext
  BY <1>2, MatesKeep, OpeningKeeps, EditingKeeps, StoringKeeps, FailingKeeps, ReadingKeeps,
     ShowingKeeps, AllBegins, AllReads, AllReplaces DEF GroupCacheNext
<1> QED
  BY <1>1, <1>2

-----------------------------------------------------------------------------
(* Settings and pushes                                                     *)

Requests == [of : Owners, body : Settings, state : {"sent", "stored", "refused"}]
PageRecords ==
    [page : {"closed", "open", "saved", "error"}, shown : Settings, saving : BOOLEAN, sent : Nat]
BrowserStates ==
    [account : Owners \cup {Nobody_}, endpoint : Nat, issued : Nat, page : PageRecords]

\* A browser without an account shows no settings, and a page that waits for an answer,
\* or has one, has sent a request, of the first n.
BrowserFits(m, n) ==
    /\ m.account = Nobody_ => m.page.page = "closed"
    /\ m.page.page = "closed" => ~m.page.saving
    /\ m.page.page = "saved" \/ m.page.saving => m.page.sent > 0
    /\ m.page.sent <= n

\* What an account has is what the last request that was stored for it asked for.
LastHolds(u) ==
    last[u] # 0 =>
        LET body == request[last[u]].body IN
        /\ prefs[u].row /\ body.push = prefs[u].push /\ body.quiet = prefs[u].quiet
        /\ body.off \subseteq prefs[u].off

PreferencesInv ==
    /\ machine \in [Machines -> BrowserStates] /\ prefs \in [Owners -> Settings]
    /\ request \in Seq(Requests) /\ last \in [Owners -> 0..Len(request)]
    /\ \A b \in Machines : BrowserFits(machine[b], Len(request))
    /\ \A u \in Owners : LastHolds(u)
    /\ PushesWanted

LEMMA DefaultsAre ==
    /\ Defaults \in Settings /\ ClosedPage \in PageRecords /\ Closed \in BrowserStates
    /\ ClosedPage.page = "closed" /\ ~ClosedPage.saving /\ ClosedPage.sent = 0
    /\ Closed.page = ClosedPage
  BY DEF Defaults, Settings, Times, Closed, ClosedPage, PageRecords, BrowserStates

LEMMA SavedHolds == PreferencesInv => SavedIsShown
<1> SUFFICES ASSUME PreferencesInv, NEW b \in Machines, PageOf(b).page = "saved",
                    PageOf(b).shown = request[PageOf(b).sent].body,
                    last[machine[b].account] = PageOf(b).sent
             PROVE  LET p == PageOf(b)
                        settled == prefs[machine[b].account]
                    IN  settled.row /\ p.shown.push = settled.push /\ p.shown.quiet = settled.quiet
                        /\ p.shown.off \subseteq settled.off
  BY DEF SavedIsShown
<1>1. BrowserFits(machine[b], Len(request)) /\ machine[b] \in BrowserStates
  BY DEF PreferencesInv
<1>2. machine[b].account \in Owners /\ PageOf(b).sent # 0
  BY <1>1 DEF BrowserFits, BrowserStates, PageOf
<1>3. LastHolds(machine[b].account)
  BY <1>2 DEF PreferencesInv
<1> QED
  BY <1>2, <1>3 DEF LastHolds

LEMMA PreferencesBegin == PreferencesInit => PreferencesInv
<1> SUFFICES ASSUME PreferencesInit PROVE PreferencesInv
  OBVIOUS
<1>1. prefs \in [Owners -> Settings]
  <2>1. [row : {TRUE}, push : BOOLEAN, off : {{}, Kinds}, quiet : BOOLEAN, times : {"given"}]
           \subseteq Settings
    BY DEF Settings, Times
  <2> QED
    BY <2>1, DefaultsAre DEF PreferencesInit
<1>2. /\ machine \in [Machines -> BrowserStates]
      /\ \A b \in Machines : machine[b].page = ClosedPage
  BY DefaultsAre DEF PreferencesInit
<1>3. request = <<>> /\ request \in Seq(Requests) /\ Len(request) = 0
  BY DEF PreferencesInit
<1>4. last \in [Owners -> 0..Len(request)] /\ \A u \in Owners : last[u] = 0
  BY <1>3 DEF PreferencesInit
<1>5. \A b \in Machines : BrowserFits(machine[b], Len(request))
  BY <1>2, <1>3, DefaultsAre DEF BrowserFits
<1>6. PushesWanted
  BY DEF PreferencesInit, PushesWanted, NoPush
<1> QED
  BY <1>1, <1>2, <1>3, <1>4, <1>5, <1>6 DEF PreferencesInv, LastHolds

\* One browser goes on, the preferences stay, and requests are at most added.
LEMMA BrowserKeeps ==
    ASSUME PreferencesInv, NEW b \in Machines, NEW m \in BrowserStates,
           machine' = [machine EXCEPT ![b] = m], UNCHANGED <<prefs, last>>,
           request' \in Seq(Requests), Len(request) <= Len(request'),
           \A k \in 1..Len(request) : request'[k] = request[k],
           BrowserFits(m, Len(request')), PushesWanted'
    PROVE  PreferencesInv'
<1>1. machine' \in [Machines -> BrowserStates] /\ prefs' \in [Owners -> Settings]
  BY DEF PreferencesInv
<1>2. /\ machine'[b] = m /\ \A c \in Machines : c # b => machine'[c] = machine[c]
  BY DEF PreferencesInv
<1>3. Len(request) \in Nat /\ Len(request') \in Nat
  BY DEF PreferencesInv
<1>4. \A c \in Machines : BrowserFits(machine'[c], Len(request'))
  <2> SUFFICES ASSUME NEW c \in Machines, c # b PROVE BrowserFits(machine[c], Len(request'))
    BY <1>2
  <2>1. BrowserFits(machine[c], Len(request)) /\ machine[c].page.sent \in Nat
    BY DEF PreferencesInv, BrowserStates, PageRecords
  <2> QED
    BY <1>3, <2>1 DEF BrowserFits
<1>5. last' \in [Owners -> 0..Len(request')]
  BY <1>3 DEF PreferencesInv
<1>6. \A u \in Owners : LastHolds(u)'
  <2> SUFFICES ASSUME NEW u \in Owners, last[u] # 0 PROVE LastHolds(u)'
    BY DEF LastHolds
  <2>1. LastHolds(u) /\ last[u] \in 0..Len(request)
    BY DEF PreferencesInv
  <2>2. last[u] \in 1..Len(request)
    BY <1>3, <2>1
  <2> QED
    BY <2>1, <2>2 DEF LastHolds
<1> QED
  BY <1>1, <1>4, <1>5, <1>6 DEF PreferencesInv

\* A step of the page that sends nothing.
LEMMA PageKeeps ==
    ASSUME PreferencesInv, NEW b \in Machines, NEW p \in PageRecords, SetPage(b, p),
           UNCHANGED <<prefs, endpoints, request, wanted, last, pushed>>,
           machine[b].account = Nobody_ => p.page = "closed",
           p.page = "closed" => ~p.saving,
           p.page = "saved" \/ p.saving => p.sent > 0, p.sent <= Len(request)
    PROVE  PreferencesInv'
<1>1. PushesWanted'
  BY DEF PreferencesInv, PushesWanted
<1> DEFINE m == [machine[b] EXCEPT !.page = p]
<1>2. machine[b] \in BrowserStates
  BY DEF PreferencesInv
<1>3. m \in BrowserStates /\ m.account = machine[b].account /\ m.page = p
  BY <1>2 DEF BrowserStates
<1>4. machine' = [machine EXCEPT ![b] = m]
  BY DEF SetPage
<1> HIDE DEF m
<1>5. BrowserFits(m, Len(request'))
  BY <1>3 DEF BrowserFits
<1>6. request' \in Seq(Requests) /\ Len(request) <= Len(request')
  BY DEF PreferencesInv
<1> QED
  BY <1>1, <1>3, <1>4, <1>5, <1>6, BrowserKeeps

LEMMA PageIs ==
    ASSUME PreferencesInv, NEW b \in Machines
    PROVE  /\ machine[b] \in BrowserStates /\ PageOf(b) \in PageRecords
           /\ PageOf(b).shown \in Settings /\ PageOf(b).sent \in Nat /\ PageOf(b).saving \in BOOLEAN
           /\ BrowserFits(machine[b], Len(request))
           /\ PageOf(b).page # "closed" => machine[b].account # Nobody_ /\ machine[b].account \in Owners
           /\ PageOf(b).page = "closed" => ~PageOf(b).saving
           /\ PageOf(b).page = "saved" \/ PageOf(b).saving => PageOf(b).sent > 0
           /\ PageOf(b).sent <= Len(request)
<1>1. machine[b] \in BrowserStates /\ BrowserFits(machine[b], Len(request))
  BY DEF PreferencesInv
<1> QED
  BY <1>1 DEF BrowserFits, BrowserStates, PageRecords, PageOf

LEMMA EnteringKeeps ==
    ASSUME PreferencesInv, NEW b \in Machines, Entering(b) PROVE PreferencesInv'
<1>1. machine[b] \in BrowserStates
  BY DEF PreferencesInv
<1>2. request' \in Seq(Requests) /\ Len(request) <= Len(request') /\ request' = request
      /\ UNCHANGED <<prefs, last>> /\ Len(request) \in Nat
  BY DEF PreferencesInv, Entering, LeaveAccount, EnterAccount
<1>3. PushesWanted'
  BY DEF PreferencesInv, PushesWanted, Entering, LeaveAccount, EnterAccount
<1>4. CASE LeaveAccount(b)
  <2> DEFINE m == [machine[b] EXCEPT !.account = Nobody_, !.page = ClosedPage]
  <2>1. m \in BrowserStates /\ m.page = ClosedPage
    BY <1>1, DefaultsAre DEF BrowserStates
  <2>2. machine' = [machine EXCEPT ![b] = m]
    BY <1>4 DEF LeaveAccount
  <2> HIDE DEF m
  <2>3. BrowserFits(m, Len(request'))
    BY <1>2, <2>1, DefaultsAre DEF BrowserFits
  <2> QED
    BY <1>2, <1>3, <2>1, <2>2, <2>3, BrowserKeeps
<1>5. ASSUME NEW u \in Owners, EnterAccount(b, u) PROVE PreferencesInv'
  <2> DEFINE m == [machine[b] EXCEPT !.account = u]
  <2>1. m \in BrowserStates /\ m.page = machine[b].page /\ m.account = u
    BY <1>1 DEF BrowserStates
  <2>2. machine' = [machine EXCEPT ![b] = m]
    BY <1>5 DEF EnterAccount
  <2> HIDE DEF m
  <2>3. BrowserFits(m, Len(request'))
    BY <1>2, <2>1, PreferencesAssumption DEF PreferencesInv, BrowserFits
  <2> QED
    BY <1>2, <1>3, <2>1, <2>2, <2>3, BrowserKeeps
<1> QED
  BY <1>4, <1>5 DEF Entering

LEMMA EditKeeps ==
    ASSUME PreferencesInv, NEW b \in Machines, Edit(b) PROVE PreferencesInv'
<1>1. PICK p : p = PageOf(b).shown
  OBVIOUS
<1>2. p \in Settings
  BY <1>1, PageIs
<1>3. UNCHANGED <<prefs, endpoints, request, wanted, last, pushed>>
  BY DEF Edit
<1>4. /\ [p EXCEPT !.push = ~p.push] \in Settings /\ [p EXCEPT !.quiet = ~p.quiet] \in Settings
      /\ \A t \in Times : [p EXCEPT !.times = t] \in Settings
      /\ \A off \in SUBSET Kinds : [p EXCEPT !.off = off] \in Settings
  BY <1>2 DEF Settings
<1>5. Edited(p) \subseteq Settings
  <2>1. \A k \in Kinds : p.off \ {k} \in SUBSET Kinds /\ p.off \cup {k} \in SUBSET Kinds
    BY <1>2 DEF Settings
  <2> QED
    BY <1>4, <2>1 DEF Edited, Times
<1>6. PICK seen \in Settings : SetPage(b, [PageOf(b) EXCEPT !.shown = seen])
  BY <1>1, <1>5 DEF Edit
<1> DEFINE q == [PageOf(b) EXCEPT !.shown = seen]
<1>7. q \in PageRecords /\ q.page = PageOf(b).page /\ q.saving = PageOf(b).saving /\ q.sent = PageOf(b).sent
  BY PageIs DEF PageRecords
<1>8. SetPage(b, q)
  BY <1>6
<1> HIDE DEF q
<1>9. machine[b].account = Nobody_ => q.page = "closed"
  BY <1>7, PageIs
<1> QED
  BY <1>3, <1>7, <1>8, <1>9, PageIs, PageKeeps

LEMMA SavingKeeps ==
    ASSUME PreferencesInv, NEW b \in Machines, handleSave(b) PROVE PreferencesInv'
<1>1. PICK r : r = [of |-> machine[b].account, body |-> PageOf(b).shown, state |-> "sent"]
  OBVIOUS
<1>2. r \in Requests /\ request \in Seq(Requests) /\ machine[b] \in BrowserStates
  BY <1>1, PageIs DEF handleSave, Requests, PreferencesInv
<1>3. request' = Append(request, r)
  BY <1>1 DEF handleSave
<1>4. /\ request' \in Seq(Requests) /\ Len(request') = Len(request) + 1 /\ Len(request) \in Nat
      /\ \A k \in 1..Len(request) : request'[k] = request[k]
  BY <1>2, <1>3
<1> DEFINE p == [page |-> "open", shown |-> PageOf(b).shown, saving |-> TRUE, sent |-> Len(request) + 1]
           m == [machine[b] EXCEPT !.page = p]
<1>5. p \in PageRecords /\ p.page = "open" /\ p.sent = Len(request) + 1
  BY <1>4, PageIs DEF PageRecords
<1>6. m \in BrowserStates /\ m.account = machine[b].account /\ m.page = p
  BY <1>2, <1>5 DEF BrowserStates
<1>7. machine' = [machine EXCEPT ![b] = m] /\ UNCHANGED <<prefs, last>>
  BY DEF handleSave, SetPage
<1>8. PushesWanted'
  BY DEF handleSave, PreferencesInv, PushesWanted
<1>9. machine[b].account # Nobody_
  BY PageIs DEF handleSave
<1> HIDE DEF p, m
<1>10. BrowserFits(m, Len(request')) /\ Len(request) <= Len(request')
  BY <1>4, <1>5, <1>6, <1>9 DEF BrowserFits
<1> QED
  BY <1>4, <1>6, <1>7, <1>8, <1>10, BrowserKeeps

LEMMA AnswerKeeps ==
    ASSUME PreferencesInv, NEW b \in Machines, SaveAnswered(b) PROVE PreferencesInv'
<1>1. PICK says \in {"error", "saved"} : SetPage(b, [PageOf(b) EXCEPT !.page = says, !.saving = FALSE])
  BY DEF SaveAnswered
<1> DEFINE q == [PageOf(b) EXCEPT !.page = says, !.saving = FALSE]
<1>2. q \in PageRecords /\ q.page = says /\ ~q.saving /\ q.sent = PageOf(b).sent
  BY PageIs DEF PageRecords
<1>3. SetPage(b, q) /\ UNCHANGED <<prefs, endpoints, request, wanted, last, pushed>> /\ PageOf(b).saving
  BY <1>1 DEF SaveAnswered
<1> HIDE DEF q
<1>4. q.sent > 0 /\ q.sent <= Len(request) /\ machine[b].account # Nobody_ /\ q.page # "closed"
  BY <1>2, <1>3, PageIs
<1> QED
  BY <1>2, <1>3, <1>4, PageKeeps

LEMMA SettingsPutKeeps ==
    ASSUME PreferencesInv, NEW n \in DOMAIN request, PutPreferences(n) PROVE PreferencesInv'
<1>1. /\ request \in Seq(Requests) /\ n \in 1..Len(request) /\ request[n] \in Requests
      /\ Len(request) \in Nat
  BY DEF PreferencesInv
<1>2. PICK state \in {"stored", "refused"} : request' = [request EXCEPT ![n].state = state]
  BY DEF PutPreferences
<1>3. /\ request' \in Seq(Requests) /\ Len(request') = Len(request)
      /\ \A k \in 1..Len(request) : request'[k].body = request[k].body
  <2> DEFINE r == [request[n] EXCEPT !.state = state]
  <2>1. r \in Requests /\ r.body = request[n].body
    BY <1>1 DEF Requests
  <2>2. request' = [request EXCEPT ![n] = r]
    BY <1>2
  <2> HIDE DEF r
  <2> QED
    BY <1>1, <2>1, <2>2
<1>4. UNCHANGED <<machine, endpoints, wanted, pushed>>
  BY DEF PutPreferences
<1>5. PushesWanted' /\ \A b \in Machines : BrowserFits(machine'[b], Len(request'))
  BY <1>3, <1>4 DEF PreferencesInv, PushesWanted
<1>6. CASE UNCHANGED <<prefs, last>>
  <2>1. \A u \in Owners : LastHolds(u)'
    <3> SUFFICES ASSUME NEW u \in Owners, last[u] # 0 PROVE LastHolds(u)'
      BY <1>6 DEF LastHolds
    <3>1. LastHolds(u) /\ last[u] \in 1..Len(request)
      BY <1>1 DEF PreferencesInv
    <3> QED
      BY <1>3, <1>6, <3>1 DEF LastHolds
  <2> QED
    BY <1>3, <1>4, <1>5, <1>6, <2>1 DEF PreferencesInv
<1>7. ASSUME NEW u, NEW body, u = request[n].of, body = request[n].body,
             prefs' = [prefs EXCEPT ![u] = Updated(@, body)], last' = [last EXCEPT ![u] = n]
      PROVE  PreferencesInv'
  <2>1. u \in Owners /\ body \in Settings
    BY <1>1, <1>7 DEF Requests
  <2>2. PICK fresh : fresh = Updated(prefs[u], body)
    OBVIOUS
  <2>3. /\ fresh \in Settings /\ fresh.row /\ fresh.push = body.push /\ fresh.quiet = body.quiet
        /\ body.off \subseteq fresh.off
    BY <2>1, <2>2 DEF Updated, Settings, Times, PreferencesInv
  <2>4. /\ prefs' \in [Owners -> Settings] /\ prefs'[u] = fresh
        /\ \A v \in Owners : v # u => prefs'[v] = prefs[v]
    BY <1>7, <2>1, <2>2, <2>3 DEF PreferencesInv
  <2>5. /\ last' \in [Owners -> 0..Len(request')] /\ last'[u] = n
        /\ \A v \in Owners : v # u => last'[v] = last[v]
    BY <1>1, <1>3, <1>7, <2>1 DEF PreferencesInv
  <2>6. \A v \in Owners : LastHolds(v)'
    <3> SUFFICES ASSUME NEW v \in Owners, last'[v] # 0 PROVE LastHolds(v)'
      BY DEF LastHolds
    <3>1. CASE v = u
      <4>1. request'[last'[v]].body = body
        BY <1>1, <1>3, <1>7, <2>5, <3>1
      <4> QED
        BY <2>3, <2>4, <3>1, <4>1 DEF LastHolds
    <3>2. CASE v # u
      <4>1. LastHolds(v) /\ last[v] \in 0..Len(request)
        BY DEF PreferencesInv
      <4>2. last'[v] = last[v] /\ prefs'[v] = prefs[v] /\ last[v] \in 1..Len(request)
        BY <1>1, <2>4, <2>5, <3>2, <4>1
      <4> QED
        BY <1>3, <4>1, <4>2 DEF LastHolds
    <3> QED
      BY <3>1, <3>2
  <2> QED
    BY <1>3, <1>4, <1>5, <2>4, <2>5, <2>6 DEF PreferencesInv
<1> QED
  BY <1>6, <1>7 DEF PutPreferences

LEMMA OpeningPageKeeps ==
    ASSUME PreferencesInv, NEW b \in Machines, OpenSettings(b) \/ CloseSettings(b) PROVE PreferencesInv'
<1>1. UNCHANGED <<prefs, endpoints, request, wanted, last, pushed>>
  BY DEF OpenSettings, CloseSettings
<1>1a. Len(request) \in Nat
  BY DEF PreferencesInv
<1>2. CASE OpenSettings(b)
  <2>1. machine[b].account \in Owners
    BY <1>2, PageIs DEF OpenSettings, BrowserStates
  <2>2. LoadedPreferences(machine[b].account) \subseteq Settings
    BY <2>1, DefaultsAre DEF LoadedPreferences, PreferencesInv
  <2>3. PICK seen \in Settings : SetPage(b, [ClosedPage EXCEPT !.page = "open", !.shown = seen])
    BY <1>2, <2>2 DEF OpenSettings
  <2> DEFINE q == [ClosedPage EXCEPT !.page = "open", !.shown = seen]
  <2>4. q \in PageRecords /\ q.page = "open" /\ ~q.saving /\ q.sent = 0
    BY DefaultsAre DEF PageRecords
  <2>5. SetPage(b, q) /\ machine[b].account # Nobody_
    BY <1>2, <2>3 DEF OpenSettings
  <2> HIDE DEF q
  <2> QED
    BY <1>1, <1>1a, <2>4, <2>5, PageKeeps
<1>3. CASE CloseSettings(b)
  BY <1>1, <1>3, <1>1a, DefaultsAre, PageKeeps DEF CloseSettings
<1> QED
  BY <1>2, <1>3

LEMMA SettingsKeep == PreferencesInv /\ SettingsNext => PreferencesInv'
  BY EnteringKeeps, OpeningPageKeeps, EditKeeps, SavingKeeps, AnswerKeeps, SettingsPutKeeps
     DEF SettingsNext

LEMMA PushesKeep == PreferencesInv /\ PushNext => PreferencesInv'
<1> SUFFICES ASSUME PreferencesInv, PushNext PROVE PreferencesInv'
  OBVIOUS
<1>1. ASSUME NEW b \in Machines, NEW m \in BrowserStates, PushesWanted',
             machine' = [machine EXCEPT ![b] = m], UNCHANGED <<prefs, request, last>>,
             m.account = machine[b].account, m.page = machine[b].page
      PROVE  PreferencesInv'
  <2>1. /\ BrowserFits(m, Len(request')) /\ request' \in Seq(Requests)
        /\ Len(request) <= Len(request')
    BY <1>1 DEF PreferencesInv, BrowserFits
  <2> QED
    BY <1>1, <2>1, BrowserKeeps
<1>2. ASSUME NEW b \in Machines, EnablePush(b) PROVE PreferencesInv'
  <2> DEFINE n == subscribeToPush(b)
             m == [machine[b] EXCEPT !.endpoint = n, !.issued = n]
  <2>1. machine[b] \in BrowserStates
    BY DEF PreferencesInv
  <2>2. n \in Nat
    BY <2>1 DEF subscribeToPush, BrowserStates
  <2>3. m \in BrowserStates /\ m.account = machine[b].account /\ m.page = machine[b].page
    BY <2>1, <2>2 DEF BrowserStates
  <2>4. /\ machine' = [machine EXCEPT ![b] = m] /\ UNCHANGED <<prefs, request, last, pushed>>
        /\ wanted' = wanted \cup {<<machine[b].account, b>>}
        /\ endpoints' \subseteq endpoints \cup {<<machine[b].account, b, n>>}
    BY <1>2 DEF EnablePush, subscribe
  <2>5. PushesWanted'
    BY <2>4 DEF PreferencesInv, PushesWanted
  <2> HIDE DEF m
  <2> QED
    BY <1>1, <2>3, <2>4, <2>5
<1>3. ASSUME NEW b \in Machines, Expires(b) PROVE PreferencesInv'
  <2> DEFINE m == [machine[b] EXCEPT !.endpoint = 0]
  <2>1. m \in BrowserStates /\ m.account = machine[b].account /\ m.page = machine[b].page
    BY DEF PreferencesInv, BrowserStates
  <2>2. machine' = [machine EXCEPT ![b] = m] /\ UNCHANGED <<prefs, request, last>> /\ PushesWanted'
    BY <1>3 DEF Expires, PreferencesInv, PushesWanted
  <2> HIDE DEF m
  <2> QED
    BY <1>1, <2>1, <2>2
<1>4. ASSUME NEW u \in Owners, NEW k \in Kinds, NEW night \in BOOLEAN, PushSent(u, k, night)
      PROVE  PreferencesInv'
  <2>1. /\ endpoints' \subseteq endpoints /\ UNCHANGED <<prefs, machine, request, last, wanted>>
        /\ pushed'.of = u /\ \A b \in pushed'.to : \E e \in endpoints : e[1] = u /\ e[2] = b
    BY <1>4 DEF PushSent, getSubscriptions, removeSubscriptionsByEndpoint
  <2>2. PushesWanted'
    BY <2>1 DEF PreferencesInv, PushesWanted
  <2> QED
    BY <2>1, <2>2 DEF PreferencesInv, LastHolds
<1> QED
  BY <1>2, <1>3, <1>4, EnteringKeeps DEF PushNext

LEMMA PreferencesSteps == PreferencesInv /\ [SettingsNext \/ PushNext]_preferencesVars => PreferencesInv'
<1> SUFFICES ASSUME PreferencesInv, UNCHANGED preferencesVars PROVE PreferencesInv'
  BY SettingsKeep, PushesKeep
<1>1. UNCHANGED <<prefs, machine, endpoints, wanted, request, last, pushed>>
  BY DEF preferencesVars
<1> QED
  BY <1>1 DEF PreferencesInv, LastHolds, PushesWanted

-----------------------------------------------------------------------------
(* The lists of the private blob                                           *)

Bills == "recurringBills"
Blobs == [Slices -> [Ids -> Nat]]
MutationRecords ==
    [at : {"new", "sent", "stored", "told", "failed"}, kind : {"none", "add", "update", "delete"},
     slice : Slices, id : Ids, before : Blobs, shown : Blobs, put : Blobs, asked : [Ids -> Nat],
     clock : Nat, alone : BOOLEAN]

SlicesTyped ==
    /\ personalBlob \in Blobs \cup {NotLoaded} /\ lists \in Blobs /\ serverBlob \in Blobs
    /\ clocks \in [tab : Nat, server : Nat]
    /\ saving \in [Mutations -> MutationRecords]

\* A mutation that is alone is the only one that is saved.
AloneIsOnly == \A o \in Outstanding : saving[o].alone => Outstanding = {o}

\* While it is saved, the other lists stay what the blob was that it would put back.
OthersAsBefore ==
    ~mixed => \A o \in Outstanding : saving[o].alone /\ saving[o].slice # Bills =>
        \A s \in Slices \ {saving[o].slice, Bills} : lists[s] = saving[o].before[s]

ListsInv ==
    /\ SlicesTyped /\ AloneIsOnly /\ OthersAsBefore
    /\ personalBlob # NotLoaded /\ ~mixed => \A s \in Slices \ {Bills} : lists[s] = personalBlob[s]

\* What a mutation finds.
Found == IF personalBlob # NotLoaded THEN personalBlob ELSE serverBlob

LEMMA ListsShow == ListsInv => ListsShowBlob
<1> SUFFICES ASSUME ListsInv, personalBlob # NotLoaded, ~mixed PROVE lists = Showing(personalBlob)
  BY DEF ListsShowBlob
<1>1. lists \in Blobs /\ personalBlob \in Blobs
  BY DEF ListsInv, SlicesTyped
<1>2. \A s \in Slices : lists[s] = [personalBlob EXCEPT ![Bills] = lists[Bills]][s]
  BY <1>1 DEF ListsInv, Blobs, Bills, Slices
<1> QED
  BY <1>1, <1>2 DEF Showing, Blobs, Bills, Slices

\* One row of a blob is set.
RowSet(b, s, i, time) == [b EXCEPT ![s][i] = time]

LEMMA RowsSet ==
    ASSUME NEW b \in Blobs, NEW s \in Slices, NEW i \in Ids, NEW time \in Nat
    PROVE  LET c == RowSet(b, s, i, time) IN
           /\ c \in Blobs /\ c[s] = [b[s] EXCEPT ![i] = time]
           /\ \A t \in Slices : t # s => c[t] = b[t]
  BY DEF Blobs, RowSet

LEMMA RowsAre ==
    ASSUME NEW b \in Blobs, NEW s \in Slices, NEW i \in Ids, NEW time \in Nat, NEW c,
           c = RowSet(b, s, i, time)
    PROVE  /\ c \in Blobs /\ c[s][i] = time
           /\ \A t \in Slices, h \in Ids : t # s \/ h # i => c[t][h] = b[t][h]
  BY DEF Blobs, RowSet

LEMMA ShowingIs ==
    ASSUME lists \in Blobs, NEW b \in Blobs
    PROVE  Showing(b) \in Blobs /\ \A s \in Slices \ {Bills} : Showing(b)[s] = b[s]
  BY DEF Showing, Blobs, Bills, Slices

LEMMA MergeIs ==
    ASSUME NEW fresh \in Blobs, NEW mine \in Blobs, NEW b, b = MergeSlices(fresh, mine)
    PROVE  /\ b \in Blobs
           /\ \A s \in Slices, i \in Ids : fresh[s][i] > 0 \/ mine[s][i] > 0 => b[s][i] > 0
<1>1. \A s \in Slices, i \in Ids : fresh[s][i] \in Nat /\ mine[s][i] \in Nat
  BY DEF Blobs
<1>2. \A s \in Slices, i \in Ids :
        b[s][i] = IF fresh[s][i] = 0 \/ (s \in Dated /\ mine[s][i] > fresh[s][i]) THEN mine[s][i]
                  ELSE fresh[s][i]
  BY DEF MergeSlices
<1>3. b \in Blobs
  BY <1>1 DEF Blobs, MergeSlices
<1> QED
  BY <1>1, <1>2, <1>3

LEMMA NoRowsIs == NoRows \in Blobs /\ \A o \in Mutations : NotBegun \in MutationRecords
<1>1. NoRows \in Blobs
  BY DEF NoRows, Blobs
<1>2. \A o \in Mutations : (CHOOSE i \in Ids : TRUE) \in Ids
  BY DEF Ids
<1>3. NoRows["budgets"] \in [Ids -> Nat]
  BY <1>1 DEF Blobs, Slices
<1> QED
  BY <1>1, <1>2, <1>3 DEF NotBegun, MutationRecords, Slices

LEMMA ListsStart == SlicesInit => ListsInv
<1> SUFFICES ASSUME SlicesInit PROVE ListsInv
  OBVIOUS
<1>1. SlicesTyped
  BY NoRowsIs DEF SlicesInit, SlicesTyped
<1>2. Outstanding = {}
  BY DEF SlicesInit, Outstanding, NotBegun
<1> QED
  BY <1>1, <1>2 DEF ListsInv, AloneIsOnly, OthersAsBefore, SlicesInit

LEMMA StampIs == Stamp \in Nat /\ Stamp > 0
<1> DEFINE S == {o \in Mutations : saving[o].at # "new"}
<1>1. IsFiniteSet(S)
  BY SlicesAssumption, FS_Subset
<1>2. Cardinality(S) \in Nat
  BY <1>1, FS_CardinalityType
<1> QED
  BY <1>2 DEF Stamp

\* A mutation begins: what it finds, which row of which list it sets, and what is
\* shown from then on.
Sends(o, sort, s, i, found, time) ==
    /\ saving[o].at = "new" /\ SavesRow(o, sort, s, i, found, time)
    /\ found = Found /\ found \in Blobs
    /\ sort = "add" => i = o
    /\ (sort = "delete" /\ i \in deleted') \/ (sort # "delete" /\ time > 0)
    /\ deleted \subseteq deleted' /\ UNCHANGED <<serverBlob, mixed>>
    /\ personalBlob' \in Blobs /\ lists' \in Blobs
    /\ personalBlob' = IF s = Bills THEN found ELSE RowSet(found, s, i, time)
    /\ \A t \in Slices \ {Bills} :
           lists'[t] = IF t = s THEN [found[s] EXCEPT ![i] = time]
                       ELSE IF personalBlob = NotLoaded THEN found[t] ELSE lists[t]

BeginsOne(o) ==
    \/ MutateIncome(o) \/ MutateSavings(o) \/ MutateBudget(o) \/ MutateCategory(o) \/ MutateBill(o)

LEMMA PublishingSends ==
    ASSUME SlicesTyped, NEW o \in Mutations, NEW s \in Slices \ {Bills}, NEW i \in Ids, NEW time \in Nat,
           NEW sort \in {"add", "update", "delete"}, NEW seen,
           saving[o].at = "new", Publishes(o, sort, s, i, Found, seen, time),
           seen = IF personalBlob # NotLoaded THEN lists ELSE Showing(serverBlob),
           sort = "add" => i = o, (sort = "delete" /\ i \in deleted') \/ (sort # "delete" /\ time > 0),
           deleted \subseteq deleted', UNCHANGED <<serverBlob, mixed>>
    PROVE  Sends(o, sort, s, i, Found, time)
<1>1. PICK b \in Blobs : b = Found
  BY DEF Found, SlicesTyped
<1>2. /\ seen \in Blobs
      /\ \A t \in Slices \ {Bills} : seen[t] = IF personalBlob = NotLoaded THEN b[t] ELSE lists[t]
  <2>1. CASE personalBlob # NotLoaded
    BY <2>1 DEF SlicesTyped
  <2>2. CASE personalBlob = NotLoaded
    BY <1>1, <2>2, ShowingIs DEF SlicesTyped, Found
  <2> QED
    BY <2>1, <2>2
<1>3. /\ SavesRow(o, sort, s, i, b, time)
      /\ personalBlob' = RowSet(b, s, i, time)
      /\ lists' = [seen EXCEPT ![s] = [b[s] EXCEPT ![i] = time]]
  BY <1>1 DEF Publishes, RowSet
<1>4. personalBlob' \in Blobs
  BY <1>3, RowsSet
<1>5. [b[s] EXCEPT ![i] = time] \in [Ids -> Nat]
  BY DEF Blobs
<1>6. lists' \in Blobs /\ lists'[s] = [b[s] EXCEPT ![i] = time] /\ \A t \in Slices : t # s => lists'[t] = seen[t]
  BY <1>2, <1>3, <1>5 DEF Blobs
<1>7. Sends(o, sort, s, i, b, time)
  BY <1>1, <1>2, <1>3, <1>4, <1>6 DEF Sends
<1> QED
  BY <1>1, <1>7

LEMMA MutatingSends ==
    ASSUME SlicesTyped, NEW o \in Mutations, BeginsOne(o)
    PROVE  \E s \in Slices, i \in Ids, time \in Nat, sort \in {"add", "update", "delete"} :
               Sends(o, sort, s, i, Found, time)
<1>1. ASSUME NEW s \in Slices \ {Bills}, AddRow(o, s)
      PROVE  Sends(o, "add", s, o, Found, Stamp)
  <2>1. Publishes(o, "add", s, o, Found, IF personalBlob # NotLoaded THEN lists ELSE Showing(serverBlob), Stamp)
    <3>1. CASE personalBlob # NotLoaded
      BY <1>1, <3>1 DEF AddRow, Found
    <3>2. CASE personalBlob = NotLoaded
      BY <1>1, <3>2 DEF AddRow, Found
    <3> QED
      BY <3>1, <3>2
  <2>2. o \in Ids
    BY DEF Ids
  <2> QED
    BY <1>1, <2>1, <2>2, StampIs, PublishingSends DEF AddRow
<1>2. ASSUME NEW s \in Slices \ {Bills}, NEW i \in Ids, ChangeRow(o, s, i)
      PROVE  Sends(o, "update", s, i, Found, Stamp)
  <2>1. personalBlob # NotLoaded /\ Found = personalBlob /\ Publishes(o, "update", s, i, Found, lists, Stamp)
    BY <1>2 DEF ChangeRow, Found
  <2> QED
    BY <1>2, <2>1, StampIs, PublishingSends DEF ChangeRow
<1>3. ASSUME NEW s \in Slices \ {Bills}, NEW i \in Ids, RemoveRow(o, s, i)
      PROVE  Sends(o, "delete", s, i, Found, 0)
  <2>1. personalBlob # NotLoaded /\ Found = personalBlob /\ Publishes(o, "delete", s, i, Found, lists, 0)
    BY <1>3 DEF RemoveRow, Found
  <2>2. deleted' = deleted \cup {i} /\ saving[o].at = "new" /\ UNCHANGED <<serverBlob, mixed>>
    BY <1>3 DEF RemoveRow
  <2>3. i \in deleted' /\ deleted \subseteq deleted' /\ 0 \in Nat
    BY <2>2
  <2>4. lists = IF personalBlob # NotLoaded THEN lists ELSE Showing(serverBlob)
    BY <2>1
  <2> QED
    BY <2>1, <2>2, <2>3, <2>4, PublishingSends
<1>4. ASSUME createRecurringBill(o) PROVE Sends(o, "add", Bills, o, Found, Stamp)
  <2>1. /\ saving[o].at = "new" /\ UNCHANGED <<serverBlob, mixed, deleted>>
        /\ SavesRow(o, "add", Bills, o, Found, Stamp) /\ personalBlob' = Found
        /\ lists' = IF personalBlob # NotLoaded THEN lists ELSE Showing(serverBlob)
    BY <1>4 DEF createRecurringBill, Found, Bills
  <2>2. Found \in Blobs /\ (personalBlob = NotLoaded => Found = serverBlob)
    BY DEF Found, SlicesTyped
  <2>3. /\ lists' \in Blobs
        /\ \A t \in Slices \ {Bills} : lists'[t] = IF personalBlob = NotLoaded THEN Found[t] ELSE lists[t]
    BY <2>1, <2>2, ShowingIs DEF SlicesTyped
  <2> QED
    BY <2>1, <2>2, <2>3, StampIs DEF Sends
<1>5. ASSUME NEW i \in Ids, updateRecurringBill(o, i) PROVE Sends(o, "update", Bills, i, Found, Stamp)
  <2>1. /\ saving[o].at = "new" /\ UNCHANGED <<serverBlob, mixed, deleted>>
        /\ SavesRow(o, "update", Bills, i, Found, Stamp) /\ personalBlob' = Found
        /\ lists' = lists /\ personalBlob # NotLoaded
    BY <1>5 DEF updateRecurringBill, Found, Bills
  <2>2. Found \in Blobs
    BY DEF Found, SlicesTyped
  <2> QED
    BY <2>1, <2>2, StampIs DEF Sends, SlicesTyped
<1>6. o \in Ids /\ Bills \in Slices /\ Stamp \in Nat /\ 0 \in Nat
  BY StampIs DEF Ids, Bills, Slices
<1>7. CASE MutateBill(o)
  BY <1>4, <1>5, <1>6, <1>7 DEF MutateBill
<1>8. ASSUME NEW s \in Slices \ {Bills}, Mutate(o, s) \/ AddRow(o, s) \/ \E i \in Ids : RemoveRow(o, s, i)
      PROVE  \E i \in Ids, time \in Nat, sort \in {"add", "update", "delete"} : Sends(o, sort, s, i, Found, time)
  <2>1. CASE AddRow(o, s)
    BY <1>1, <1>6, <2>1
  <2>2. CASE \E i \in Ids : ChangeRow(o, s, i)
    BY <1>2, <1>6, <2>2
  <2>3. CASE \E i \in Ids : RemoveRow(o, s, i)
    BY <1>3, <1>6, <2>3
  <2> QED
    BY <1>8, <2>1, <2>2, <2>3 DEF Mutate
<1>9. CASE \E s \in Slices \ {Bills} : Mutate(o, s) \/ AddRow(o, s) \/ \E i \in Ids : RemoveRow(o, s, i)
  BY <1>8, <1>9
<1>10. {"incomeLogs", "savingsTargets", "budgets", "categories"} \subseteq Slices \ {Bills}
  BY DEF Slices, Bills
<1> QED
  BY <1>7, <1>9, <1>10 DEF BeginsOne, MutateIncome, MutateSavings, MutateBudget, MutateCategory

LEMMA OpOf ==
    ASSUME SlicesTyped, NEW o \in Mutations
    PROVE  /\ saving[o] \in MutationRecords /\ saving[o].slice \in Slices /\ saving[o].id \in Ids
           /\ saving[o].before \in Blobs /\ saving[o].put \in Blobs /\ saving[o].asked \in [Ids -> Nat]
           /\ saving[o].clock \in Nat /\ saving[o].alone \in BOOLEAN
  BY DEF SlicesTyped, MutationRecords

\* What is kept of a mutation that is sent, and of the others.
IsSent(o, sort, s, i, found, put) ==
    /\ saving'[o].at = "sent" /\ saving'[o].kind = sort /\ saving'[o].slice = s /\ saving'[o].id = i
    /\ saving'[o].before = found /\ saving'[o].put = put
    /\ saving'[o].clock = clocks.tab + 1 /\ (saving'[o].alone <=> Outstanding = {})
OthersGoOn(o) ==
    \A p \in Mutations : p # o =>
        /\ saving'[p].at = saving[p].at /\ saving'[p].kind = saving[p].kind
        /\ saving'[p].slice = saving[p].slice /\ saving'[p].id = saving[p].id
        /\ saving'[p].before = saving[p].before /\ saving'[p].put = saving[p].put
        /\ saving'[p].clock = saving[p].clock
        /\ saving'[p].alone => saving[p].alone /\ p \notin Outstanding

LEMMA SavesRowIs ==
    ASSUME SlicesTyped, NEW o \in Mutations, NEW sort \in {"add", "update", "delete"}, NEW s \in Slices,
           NEW i \in Ids, NEW found \in Blobs, NEW time \in Nat, SavesRow(o, sort, s, i, found, time)
    PROVE  /\ saving' \in [Mutations -> MutationRecords] /\ clocks' \in [tab : Nat, server : Nat]
           /\ clocks'.tab = clocks.tab + 1 /\ clocks'.server = clocks.server
           /\ IsSent(o, sort, s, i, found, RowSet(found, s, i, time)) /\ OthersGoOn(o)
<1>1. PICK put : put = RowSet(found, s, i, time) /\ put \in Blobs /\ put[s] \in [Ids -> Nat]
  <2>1. PICK put : put = RowSet(found, s, i, time)
    OBVIOUS
  <2>2. put \in Blobs
    BY <2>1, RowsSet
  <2> QED
    BY <2>1, <2>2 DEF Blobs
<1>2. PICK r : r = [at |-> "sent", kind |-> sort, slice |-> s, id |-> i, before |-> found,
                    shown |-> lists, put |-> put, asked |-> put[s], clock |-> clocks.tab + 1,
                    alone |-> Outstanding = {}]
  OBVIOUS
<1>3. clocks.tab \in Nat /\ clocks.server \in Nat /\ lists \in Blobs
  BY DEF SlicesTyped
<1>4. r \in MutationRecords
  BY <1>1, <1>2, <1>3 DEF MutationRecords
<1>5. /\ saving' = [p \in Mutations |-> IF p = o THEN r ELSE [saving[p] EXCEPT !.alone = @ /\ p \notin Outstanding]]
      /\ clocks' = [clocks EXCEPT !.tab = @ + 1]
  BY <1>1, <1>2 DEF SavesRow, RowSet
<1>6. clocks' \in [tab : Nat, server : Nat] /\ clocks'.tab = clocks.tab + 1 /\ clocks'.server = clocks.server
  BY <1>3, <1>5 DEF SlicesTyped
<1>7. ASSUME NEW p \in Mutations, p # o
      PROVE  /\ saving'[p] \in MutationRecords
             /\ saving'[p].at = saving[p].at /\ saving'[p].kind = saving[p].kind
             /\ saving'[p].slice = saving[p].slice /\ saving'[p].id = saving[p].id
             /\ saving'[p].before = saving[p].before /\ saving'[p].put = saving[p].put
             /\ saving'[p].clock = saving[p].clock
             /\ saving'[p].alone => saving[p].alone /\ p \notin Outstanding
  <2>1. PICK b \in BOOLEAN : b = (saving[p].alone /\ p \notin Outstanding)
    OBVIOUS
  <2>2. saving'[p] = [saving[p] EXCEPT !.alone = b] /\ saving[p] \in MutationRecords
    BY <1>5, <1>7, <2>1, OpOf
  <2>3. saving'[p].alone = b
    BY <2>2 DEF MutationRecords
  <2>4. saving'[p].alone => saving[p].alone /\ p \notin Outstanding
    BY <2>1, <2>3
  <2> QED
    BY <2>2, <2>4 DEF MutationRecords
<1>8. saving'[o] = r
  BY <1>5
<1>9. saving' \in [Mutations -> MutationRecords]
  BY <1>4, <1>5, <1>7, <1>8
<1>10. /\ r.at = "sent" /\ r.kind = sort /\ r.slice = s /\ r.id = i /\ r.before = found /\ r.put = put
       /\ r.clock = clocks.tab + 1
  BY <1>2
<1>11. r.alone <=> Outstanding = {}
  BY <1>2
<1> QED
  BY <1>1, <1>6, <1>7, <1>8, <1>9, <1>10, <1>11 DEF IsSent, OthersGoOn

LEMMA BeginningKeepsLists ==
    ASSUME ListsInv, NEW o \in Mutations, BeginsOne(o) PROVE ListsInv'
<1>1. SlicesTyped
  BY DEF ListsInv
<1>2. PICK s \in Slices, i \in Ids, time \in Nat, sort \in {"add", "update", "delete"} :
        Sends(o, sort, s, i, Found, time)
  BY <1>1, MutatingSends
<1>3. PICK found \in Blobs : found = Found
  BY <1>2 DEF Sends
<1>4. Sends(o, sort, s, i, found, time)
  BY <1>2, <1>3
<1>5. SavesRow(o, sort, s, i, found, time)
  BY <1>4 DEF Sends
<1>6. /\ saving' \in [Mutations -> MutationRecords] /\ clocks' \in [tab : Nat, server : Nat]
      /\ saving'[o].at = "sent" /\ saving'[o].slice = s /\ saving'[o].before = found
      /\ (saving'[o].alone <=> Outstanding = {})
      /\ \A p \in Mutations : p # o => saving'[p].at = saving[p].at
                                       /\ (saving'[p].alone => p \notin Outstanding)
  BY <1>1, <1>2, <1>5, SavesRowIs DEF IsSent, OthersGoOn
<1>7. Outstanding' = Outstanding \cup {o}
  BY <1>6 DEF Outstanding
<1>8. /\ UNCHANGED <<serverBlob, mixed>> /\ personalBlob' \in Blobs /\ lists' \in Blobs
      /\ personalBlob' = IF s = Bills THEN found ELSE RowSet(found, s, i, time)
      /\ \A t \in Slices \ {Bills} :
             lists'[t] = IF t = s THEN [found[s] EXCEPT ![i] = time]
                         ELSE IF personalBlob = NotLoaded THEN found[t] ELSE lists[t]
  BY <1>4 DEF Sends
<1>9. SlicesTyped'
  BY <1>1, <1>6, <1>8 DEF SlicesTyped
<1>10. AloneIsOnly' /\ \A p \in Outstanding' : saving'[p].alone => p = o
  BY <1>6, <1>7 DEF AloneIsOnly, Outstanding
<1>11. ~mixed => \A t \in Slices \ {Bills} : t # s => lists'[t] = found[t]
  BY <1>3, <1>8 DEF ListsInv, Found
<1>12. OthersAsBefore'
  BY <1>6, <1>8, <1>10, <1>11 DEF OthersAsBefore
<1>13. ~mixed => \A t \in Slices \ {Bills} : lists'[t] = personalBlob'[t]
  <2>1. CASE s = Bills
    BY <1>8, <1>11, <2>1
  <2>2. CASE s # Bills
    <3>1. personalBlob'[s] = [found[s] EXCEPT ![i] = time] /\ \A t \in Slices : t # s => personalBlob'[t] = found[t]
      <4>1. personalBlob' = RowSet(found, s, i, time)
        BY <1>8, <2>2
      <4> QED
        BY <1>2, <4>1, RowsSet
    <3> QED
      BY <1>8, <1>11, <3>1
  <2> QED
    BY <2>1, <2>2
<1> QED
  BY <1>8, <1>9, <1>10, <1>12, <1>13 DEF ListsInv

\* The tab or the other device takes or leaves a whole blob.
LEMMA LoadingKeepsLists ==
    ASSUME ListsInv, LoadBlob \/ WrittenElsewhere \/ fetchRecurringBills PROVE ListsInv'
<1> USE DEF ListsInv
<1>1. saving' = saving /\ Outstanding' = Outstanding /\ AloneIsOnly'
  BY DEF LoadBlob, WrittenElsewhere, fetchRecurringBills, Outstanding, AloneIsOnly
<1>2. CASE LoadBlob
  <2>1. /\ personalBlob' = serverBlob /\ lists' = Showing(serverBlob) /\ Outstanding = {}
        /\ UNCHANGED <<serverBlob, clocks>>
    BY <1>2 DEF LoadBlob
  <2>2. lists' \in Blobs /\ \A s \in Slices \ {Bills} : lists'[s] = serverBlob[s]
    BY <2>1, ShowingIs DEF SlicesTyped
  <2> QED
    BY <1>1, <2>1, <2>2 DEF SlicesTyped, OthersAsBefore
<1>3. CASE WrittenElsewhere
  <2>1. UNCHANGED <<personalBlob, lists, mixed>>
    BY <1>3 DEF WrittenElsewhere
  <2>2. serverBlob' \in Blobs
    <3>1. PICK s \in Slices, i \in Elsewhere : serverBlob' = RowSet(serverBlob, s, i, 1)
      BY <1>3 DEF WrittenElsewhere, RowSet
    <3> QED
      BY <3>1, RowsSet DEF SlicesTyped, Ids
  <2>3. clocks' \in [tab : Nat, server : Nat]
    BY <1>3 DEF WrittenElsewhere, Greater, SlicesTyped
  <2> QED
    BY <1>1, <2>1, <2>2, <2>3 DEF SlicesTyped, OthersAsBefore
<1>4. CASE fetchRecurringBills
  <2>1. /\ UNCHANGED <<personalBlob, serverBlob, clocks, mixed>> /\ personalBlob # NotLoaded
        /\ lists' = [lists EXCEPT ![Bills] = personalBlob[Bills]]
    BY <1>4 DEF fetchRecurringBills, Bills
  <2>2. lists' \in Blobs /\ \A s \in Slices \ {Bills} : lists'[s] = lists[s]
    BY <2>1 DEF SlicesTyped, Blobs, Bills, Slices
  <2> QED
    BY <1>1, <2>1, <2>2 DEF SlicesTyped, OthersAsBefore
<1> QED
  BY <1>2, <1>3, <1>4

\* What the save of a mutation stores.
Stores(o, put, tick) ==
    /\ saving[o].at = "sent"
    /\ \/ saving[o].clock < clocks.server /\ put = MergeSlices(serverBlob, saving[o].put)
              /\ tick = clocks.server + 2
       \/ ~(saving[o].clock < clocks.server) /\ put = saving[o].put /\ tick = saving[o].clock + 1
    /\ put \in Blobs /\ tick \in Nat
    /\ serverBlob' = put /\ clocks'.server = tick /\ clocks'.tab = clocks.tab
    /\ clocks' \in [tab : Nat, server : Nat]
    /\ saving' \in [Mutations -> MutationRecords] /\ saving'[o].at = "stored"
    /\ saving'[o].kind = saving[o].kind /\ saving'[o].slice = saving[o].slice
    /\ saving'[o].id = saving[o].id /\ saving'[o].before = saving[o].before
    /\ saving'[o].put = put /\ saving'[o].alone = saving[o].alone
    /\ \A p \in Mutations : p # o => saving'[p] = saving[p]
    /\ UNCHANGED <<personalBlob, lists, forgotten, mixed, deleted>>

LEMMA StoredIs == ASSUME SlicesTyped, NEW o \in Mutations, SaveStored(o) PROVE \E put, tick : Stores(o, put, tick)
<1>1. PICK put : put = IF saving[o].clock < clocks.server THEN MergeSlices(serverBlob, saving[o].put)
                       ELSE saving[o].put
  OBVIOUS
<1>2. PICK tick : tick = (IF saving[o].clock < clocks.server THEN clocks.server + 1 ELSE saving[o].clock) + 1
  OBVIOUS
<1>4. /\ saving[o].at = "sent" /\ UNCHANGED <<personalBlob, lists, forgotten, mixed, deleted>>
      /\ serverBlob' = put /\ clocks' = [clocks EXCEPT !.server = tick]
      /\ saving' = [saving EXCEPT ![o].at = "stored", ![o].put = put, ![o].clock = tick]
  BY <1>1, <1>2 DEF SaveStored
<1>5. put \in Blobs
  BY <1>1, MergeIs, OpOf DEF SlicesTyped
<1>6. clocks.server \in Nat /\ clocks.tab \in Nat /\ saving[o].clock \in Nat
  BY OpOf DEF SlicesTyped
<1>7. tick \in Nat
  BY <1>2, <1>6
<1>8. PICK r : r = [saving[o] EXCEPT !.at = "stored", !.put = put, !.clock = tick]
  OBVIOUS
<1>9. /\ r \in MutationRecords /\ r.at = "stored" /\ r.kind = saving[o].kind /\ r.slice = saving[o].slice
      /\ r.id = saving[o].id /\ r.before = saving[o].before /\ r.put = put /\ r.alone = saving[o].alone
  BY <1>5, <1>7, <1>8, OpOf DEF MutationRecords
<1>10. saving' = [saving EXCEPT ![o] = r]
  BY <1>4, <1>8
<1>11. /\ saving' \in [Mutations -> MutationRecords] /\ saving'[o] = r
       /\ \A p \in Mutations : p # o => saving'[p] = saving[p]
  BY <1>9, <1>10 DEF SlicesTyped
<1>12. /\ clocks' \in [tab : Nat, server : Nat] /\ clocks'.server = tick /\ clocks'.tab = clocks.tab
  BY <1>4, <1>7 DEF SlicesTyped
<1>13. \/ saving[o].clock < clocks.server /\ put = MergeSlices(serverBlob, saving[o].put)
              /\ tick = clocks.server + 2
       \/ ~(saving[o].clock < clocks.server) /\ put = saving[o].put /\ tick = saving[o].clock + 1
  BY <1>1, <1>2, <1>6
<1> QED
  BY <1>4, <1>5, <1>7, <1>9, <1>11, <1>12, <1>13 DEF Stores

LEMMA StoringKeepsLists == ASSUME ListsInv, NEW o \in Mutations, SaveStored(o) PROVE ListsInv'
<1>1. PICK put, tick : Stores(o, put, tick)
  BY StoredIs DEF ListsInv
<1>2. SlicesTyped'
  BY <1>1 DEF Stores, ListsInv, SlicesTyped
<1>3. \A p \in Mutations : /\ saving'[p].alone = saving[p].alone /\ saving'[p].slice = saving[p].slice
                           /\ saving'[p].before = saving[p].before
  BY <1>1 DEF Stores
<1>4. Outstanding' = Outstanding /\ Outstanding \subseteq Mutations
  BY <1>1 DEF Stores, Outstanding
<1>5. UNCHANGED <<personalBlob, lists, mixed>>
  BY <1>1 DEF Stores
<1> QED
  BY <1>2, <1>3, <1>4, <1>5 DEF ListsInv, AloneIsOnly, OthersAsBefore

\* A mutation is over, and keeps its kind and its row.
LEMMA OverIs ==
    ASSUME SlicesTyped, NEW o \in Mutations, NEW at \in {"told", "failed"}, Over(o, at)
    PROVE  /\ saving' \in [Mutations -> MutationRecords]
           /\ saving'[o].at = at /\ saving'[o].kind = saving[o].kind
           /\ saving'[o].slice = saving[o].slice /\ saving'[o].id = saving[o].id
           /\ \A p \in Mutations : p # o => saving'[p] = saving[p]
           /\ Outstanding' = Outstanding \ {o}
<1>1. PICK r : r = [NotBegun EXCEPT !.at = at, !.kind = saving[o].kind,
                                    !.slice = saving[o].slice, !.id = saving[o].id]
  OBVIOUS
<1>2. /\ r \in MutationRecords /\ r.at = at /\ r.kind = saving[o].kind /\ r.slice = saving[o].slice
      /\ r.id = saving[o].id
  BY <1>1, NoRowsIs, OpOf DEF MutationRecords
<1>3. saving' = [saving EXCEPT ![o] = r]
  BY <1>1 DEF Over
<1>4. /\ saving' \in [Mutations -> MutationRecords] /\ saving'[o] = r
      /\ \A p \in Mutations : p # o => saving'[p] = saving[p]
  BY <1>2, <1>3 DEF SlicesTyped
<1>5. Outstanding' = Outstanding \ {o}
  BY <1>2, <1>4 DEF Outstanding
<1> QED
  BY <1>2, <1>4, <1>5

LEMMA TellingKeepsLists == ASSUME ListsInv, NEW o \in Mutations, SaveTold(o) PROVE ListsInv'
<1>1. PICK put \in Blobs : put = saving[o].put
  BY OpOf DEF ListsInv
<1>2. /\ o \in Outstanding /\ Over(o, "told") /\ personalBlob' = put /\ mixed' = FALSE
      /\ lists' = BillsShown(o, Showing(put)) /\ clocks' = [clocks EXCEPT !.tab = Greater(@, saving[o].clock)]
      /\ UNCHANGED serverBlob
  BY <1>1 DEF SaveTold, Outstanding
<1>3. lists' \in Blobs /\ \A s \in Slices \ {Bills} : lists'[s] = put[s]
  <2>1. PICK seen : seen = Showing(put) /\ seen \in Blobs /\ \A s \in Slices \ {Bills} : seen[s] = put[s]
    BY ShowingIs DEF ListsInv, SlicesTyped
  <2>2. lists' = seen \/ lists' = [seen EXCEPT ![Bills] = saving[o].asked]
    BY <1>2, <2>1 DEF BillsShown, Bills
  <2>3. saving[o].asked \in [Ids -> Nat]
    BY OpOf DEF ListsInv
  <2> QED
    BY <2>1, <2>2, <2>3 DEF Blobs, Bills, Slices
<1>4. clocks' \in [tab : Nat, server : Nat]
  BY <1>2, OpOf DEF ListsInv, SlicesTyped, Greater
<1>5. /\ saving' \in [Mutations -> MutationRecords] /\ Outstanding' = Outstanding \ {o}
      /\ \A p \in Mutations : p # o => saving'[p] = saving[p]
  BY <1>2, OverIs DEF ListsInv
<1>6. SlicesTyped'
  BY <1>2, <1>3, <1>4, <1>5 DEF ListsInv, SlicesTyped
<1>7. \A p \in Outstanding' : ~saving'[p].alone
  <2> SUFFICES ASSUME NEW p \in Outstanding' PROVE ~saving'[p].alone
    OBVIOUS
  <2>1. p \in Outstanding /\ p # o /\ saving'[p] = saving[p]
    BY <1>5 DEF Outstanding
  <2> QED
    BY <1>2, <2>1 DEF ListsInv, AloneIsOnly
<1> QED
  BY <1>2, <1>3, <1>6, <1>7 DEF ListsInv, AloneIsOnly, OthersAsBefore

LEMMA FailureKeepsLists ==
    ASSUME ListsInv, NEW o \in Mutations, SaveFailed(o) \/ BillFailed(o) PROVE ListsInv'
<1> DEFINE op == saving[o]
<1>1. /\ o \in Outstanding /\ Over(o, "failed") /\ UNCHANGED <<serverBlob, clocks>>
  BY DEF SaveFailed, BillFailed
<1>2. /\ saving' \in [Mutations -> MutationRecords] /\ Outstanding' = Outstanding \ {o}
      /\ \A p \in Mutations : p # o => saving'[p] = saving[p]
  BY <1>1, OverIs DEF ListsInv
<1>3. AloneIsOnly'
  <2> SUFFICES ASSUME NEW p \in Outstanding', saving'[p].alone PROVE Outstanding' = {p}
    BY DEF AloneIsOnly
  <2>1. p \in Outstanding /\ p # o /\ saving'[p] = saving[p]
    BY <1>2 DEF Outstanding
  <2> QED
    BY <1>1, <2>1 DEF ListsInv, AloneIsOnly
<1>4. \A p \in Outstanding' : ~saving'[p].alone
  <2> SUFFICES ASSUME NEW p \in Outstanding' PROVE ~saving'[p].alone
    OBVIOUS
  <2>1. p \in Outstanding /\ p # o /\ saving'[p] = saving[p]
    BY <1>2 DEF Outstanding
  <2> QED
    BY <1>1, <2>1 DEF ListsInv, AloneIsOnly
<1>5. CASE BillFailed(o)
  <2>1. UNCHANGED <<personalBlob, lists, mixed>>
    BY <1>5 DEF BillFailed
  <2>2. SlicesTyped'
    BY <1>1, <1>2, <2>1 DEF ListsInv, SlicesTyped
  <2> QED
    BY <1>3, <1>4, <2>1, <2>2 DEF ListsInv, OthersAsBefore
<1>6. CASE SaveFailed(o)
  <2>1. PICK before \in Blobs, seen \in Blobs, s \in Slices :
          before = op.before /\ seen = op.shown /\ s = op.slice
    BY OpOf DEF ListsInv, MutationRecords
  <2>2. /\ s # Bills /\ personalBlob' = before /\ lists' = ListsPutBack(o)
        /\ mixed' = (mixed \/ ~op.alone \/ ListsPutBack(o) # [lists EXCEPT ![s] = before[s]])
    BY <1>6, <2>1 DEF SaveFailed, Bills
  <2>3. lists' \in Blobs
    <3>1. \A t \in Slices : before[t] \in [Ids -> Nat] /\ seen[t] \in [Ids -> Nat] /\ lists[t] \in [Ids -> Nat]
      BY <2>1 DEF ListsInv, SlicesTyped, Blobs
    <3>2. lists' = [t \in Slices |-> IF t = s THEN before[t]
                                     ELSE IF s = "categories" /\ op.kind = "add" /\ t \in Dated THEN seen[t]
                                     ELSE lists[t]]
      BY <2>1, <2>2 DEF ListsPutBack
    <3> QED
      BY <3>1, <3>2 DEF Blobs
  <2>4. SlicesTyped'
    BY <1>1, <1>2, <2>2, <2>3 DEF ListsInv, SlicesTyped
  <2>5. ~mixed' => \A t \in Slices \ {Bills} : lists'[t] = before[t]
    <3> SUFFICES ASSUME ~mixed', NEW t \in Slices \ {Bills} PROVE lists'[t] = before[t]
      OBVIOUS
    <3>1. ~mixed /\ op.alone /\ lists' = [lists EXCEPT ![s] = before[s]]
      BY <2>2
    <3>2. CASE t = s
      BY <3>1, <3>2 DEF ListsInv, SlicesTyped, Blobs
    <3>3. CASE t # s
      <4>1. lists'[t] = lists[t]
        BY <3>1, <3>3 DEF ListsInv, SlicesTyped, Blobs
      <4> QED
        BY <1>1, <2>1, <2>2, <3>1, <3>3, <4>1 DEF ListsInv, OthersAsBefore
    <3> QED
      BY <3>2, <3>3
  <2> QED
    BY <1>3, <1>4, <2>2, <2>4, <2>5 DEF ListsInv, OthersAsBefore
<1> QED
  BY <1>5, <1>6

LEMMA ListsSteps == ListsInv /\ [SlicesNext]_slicesVars => ListsInv'
<1> SUFFICES ASSUME ListsInv, [SlicesNext]_slicesVars PROVE ListsInv'
  OBVIOUS
<1>1. CASE UNCHANGED slicesVars
  BY <1>1 DEF slicesVars, ListsInv, SlicesTyped, AloneIsOnly, OthersAsBefore, Outstanding
<1>2. CASE SlicesNext
  BY <1>2, LoadingKeepsLists, BeginningKeepsLists, StoringKeepsLists, TellingKeepsLists, FailureKeepsLists
     DEF SlicesNext, BeginsOne
<1> QED
  BY <1>1, <1>2

-----------------------------------------------------------------------------
(* What a mutation was told                                                *)

Added(o) == saving[o].kind = "add" /\ o \notin forgotten /\ o \notin deleted
Row(b, o) == b[saving[o].slice][o]

\* The row of a mutation that adds one is in what is saved, and on the server once that
\* was stored.  A save of another mutation that lacks the row will be found to conflict.
RowKept(o) ==
    /\ saving[o].at \in {"sent", "stored"} => Row(saving[o].put, o) > 0
    /\ saving[o].at \in {"stored", "told"} => Row(serverBlob, o) > 0
    /\ saving[o].at \in {"sent", "stored", "told"} => \A p \in Mutations \ {o} :
           saving[p].at = "sent" =>
                  \/ Row(saving[p].put, o) > 0
                  \/ saving[o].at = "sent" /\ saving[p].clock < saving[o].clock
                  \/ saving[o].at # "sent" /\ saving[p].clock < clocks.server

StoredInv ==
    /\ \A o \in Mutations : Added(o) => RowKept(o)
    /\ \A o \in Mutations : /\ saving[o].kind = "add" => saving[o].id = o
                            /\ saving[o].at = "new" => saving[o].kind = "none"
                            /\ saving[o].at = "sent" => saving[o].clock <= clocks.tab

LEMMA StoredIsTold == StoredInv => ToldIsStored
  BY DEF StoredInv, ToldIsStored, Added, RowKept, Row

LEMMA StoredStart == SlicesInit => StoredInv
  BY DEF SlicesInit, StoredInv, Added, NotBegun

\* While no mutation begins or goes on.
LEMMA LoadingKeepsRows ==
    ASSUME SlicesTyped, StoredInv, LoadBlob \/ WrittenElsewhere \/ fetchRecurringBills
    PROVE  StoredInv'
<1>1. UNCHANGED <<saving, forgotten, deleted>>
  BY DEF LoadBlob, WrittenElsewhere, fetchRecurringBills
<1>2. clocks'.tab = clocks.tab /\ clocks.server \in Nat /\ clocks'.server \in Nat /\ clocks.server <= clocks'.server
  BY DEF LoadBlob, WrittenElsewhere, fetchRecurringBills, SlicesTyped, Greater
<1>3. ASSUME NEW o \in Mutations, Added(o) PROVE RowKept(o)'
  <2>1. RowKept(o)
    BY <1>3 DEF StoredInv
  <2>2. saving[o].slice \in Slices /\ o \in Ids /\ \A p \in Mutations : saving[p].clock \in Nat
    BY OpOf DEF Ids
  <2>3. CASE LoadBlob
    <3>1. personalBlob' = serverBlob /\ Outstanding = {} /\ UNCHANGED <<serverBlob, clocks>>
      BY <2>3 DEF LoadBlob
    <3> QED
      BY <1>1, <2>1, <3>1 DEF RowKept, Row
  <2>4. CASE WrittenElsewhere
    <3>1. UNCHANGED personalBlob
      BY <2>4 DEF WrittenElsewhere
    <3>2. Row(serverBlob, o) > 0 => Row(serverBlob, o)' > 0
      <4>1. PICK s \in Slices, i \in Elsewhere : serverBlob' = RowSet(serverBlob, s, i, 1)
        BY <2>4 DEF WrittenElsewhere, RowSet
      <4>2. i \in Ids /\ serverBlob \in Blobs
        BY <4>1 DEF Ids, SlicesTyped
      <4>3. i # o
        BY SlicesAssumption
      <4>4. \A t \in Slices, h \in Ids : h # i => serverBlob'[t][h] = serverBlob[t][h]
        BY <4>1, <4>2, RowsAre
      <4>5. serverBlob'[saving[o].slice][o] = serverBlob[saving[o].slice][o]
        BY <2>2, <4>1, <4>3, <4>4
      <4> QED
        BY <1>1, <4>5 DEF Row
    <3>3. \A p \in Mutations : saving[p].clock < clocks.server => saving[p].clock < clocks'.server
      BY <1>2, <2>2
    <3> QED
      BY <1>1, <2>1, <3>1, <3>2, <3>3 DEF RowKept, Row
  <2>5. CASE fetchRecurringBills
    <3>1. UNCHANGED <<personalBlob, serverBlob, clocks>>
      BY <2>5 DEF fetchRecurringBills
    <3> QED
      BY <1>1, <2>1, <3>1 DEF RowKept, Row
  <2> QED
    BY <2>3, <2>4, <2>5
<1>4. \A o \in Mutations : Added(o)' => Added(o)
  BY <1>1 DEF Added
<1>5. \A o \in Mutations : Added(o)' => RowKept(o)'
  BY <1>3, <1>4
<1> QED
  BY <1>1, <1>2, <1>5 DEF StoredInv

LEMMA BeginningKeepsRows ==
    ASSUME SlicesTyped, StoredInv, NEW q \in Mutations, BeginsOne(q)
    PROVE  StoredInv'
<1>1. PICK s \in Slices, i \in Ids, time \in Nat, sort \in {"add", "update", "delete"} :
        Sends(q, sort, s, i, Found, time)
  BY MutatingSends
<1>2. PICK found \in Blobs : found = Found
  BY <1>1 DEF Sends
<1>3. Sends(q, sort, s, i, found, time)
  BY <1>1, <1>2
<1>4. SavesRow(q, sort, s, i, found, time)
  BY <1>3 DEF Sends
<1>5. PICK put : put = RowSet(found, s, i, time)
  OBVIOUS
<1>6. /\ put \in Blobs /\ put[s][i] = time
      /\ \A t \in Slices, h \in Ids : t # s \/ h # i => put[t][h] = found[t][h]
  BY <1>5, RowsAre
<1>7. /\ saving' \in [Mutations -> MutationRecords] /\ clocks' \in [tab : Nat, server : Nat]
      /\ clocks'.tab = clocks.tab + 1 /\ clocks'.server = clocks.server
      /\ IsSent(q, sort, s, i, found, put) /\ OthersGoOn(q)
  BY <1>4, <1>5, SavesRowIs
<1>8. /\ saving[q].at = "new" /\ (sort = "add" => i = q)
      /\ (sort = "delete" /\ i \in deleted') \/ (sort # "delete" /\ time > 0)
      /\ deleted \subseteq deleted' /\ serverBlob' = serverBlob /\ personalBlob' \in Blobs
      /\ personalBlob' = IF s = Bills THEN found ELSE put
      /\ found = Found
  BY <1>3, <1>5 DEF Sends
<1>9. forgotten' = forgotten \cup Missing(found)
  BY <1>4 DEF SavesRow
<1>11. ASSUME NEW o \in Mutations, o = q, Added(o)' PROVE RowKept(o)'
  <2>1. sort = "add" /\ i = o /\ time > 0
    BY <1>7, <1>8, <1>11 DEF Added, IsSent
  <2>2. saving'[o].at = "sent" /\ saving'[o].slice = s /\ saving'[o].put = put /\ saving'[o].clock = clocks.tab + 1
    BY <1>7, <1>11 DEF IsSent
  <2>3. ASSUME NEW p \in Mutations \ {o}, saving'[p].at = "sent" PROVE saving'[p].clock < saving'[o].clock
    <3>1. saving[p].at = "sent" /\ saving'[p].clock = saving[p].clock /\ saving[p].clock \in Nat
      BY <1>7, <1>11, <2>3, OpOf DEF OthersGoOn
    <3> QED
      BY <2>2, <3>1 DEF StoredInv, SlicesTyped
  <2> QED
    BY <1>6, <2>1, <2>2, <2>3 DEF RowKept, Row
<1>12. ASSUME NEW o \in Mutations, o # q, Added(o)' PROVE RowKept(o)'
  <2>1. /\ saving'[o].at = saving[o].at /\ saving'[o].slice = saving[o].slice
        /\ saving'[o].put = saving[o].put /\ saving'[o].clock = saving[o].clock
        /\ saving'[o].kind = saving[o].kind
    BY <1>7, <1>12 DEF OthersGoOn
  <2>2. Added(o) /\ o \notin deleted' /\ o \notin Missing(found)
    BY <1>8, <1>9, <1>12, <2>1 DEF Added
  <2>3. RowKept(o)
    BY <2>2 DEF StoredInv
  <2>4. PICK t \in Slices : t = saving[o].slice
    BY OpOf
  <2>5. \A p \in Mutations : p # q => saving'[p].at = saving[p].at /\ saving'[p].put = saving[p].put
                                     /\ saving'[p].clock = saving[p].clock
    BY <1>7 DEF OthersGoOn
  <2>6. saving'[q].at = "sent" /\ saving'[q].put = put
    BY <1>7 DEF IsSent
  <2>7. saving[o].at \in {"sent", "stored", "told"} => put[t][o] > 0
    <3> SUFFICES ASSUME saving[o].at \in {"sent", "stored", "told"} PROVE put[t][o] > 0
      OBVIOUS
    <3>3. found[t][o] > 0
      <4>1. found[t][o] # 0
        BY <2>2, <2>4 DEF Missing, Added
      <4>2. found[t][o] \in Nat
        BY DEF Blobs, Ids
      <4> QED
        BY <4>1, <4>2
    <3>4. o \in Ids
      BY DEF Ids
    <3>5. CASE t = s /\ o = i
      BY <1>6, <1>8, <2>2, <3>5
    <3>6. CASE ~(t = s /\ o = i)
      BY <1>6, <3>3, <3>4, <3>6
    <3> QED
      BY <3>5, <3>6
  <2> QED
    BY <1>7, <1>8, <2>1, <2>3, <2>4, <2>5, <2>6, <2>7 DEF RowKept, Row
<1>13. \A o \in Mutations : /\ saving'[o].kind = "add" => saving'[o].id = o
                            /\ saving'[o].at = "new" => saving'[o].kind = "none"
                            /\ saving'[o].at = "sent" => saving'[o].clock <= clocks'.tab
  <2> SUFFICES ASSUME NEW o \in Mutations
               PROVE  /\ saving'[o].kind = "add" => saving'[o].id = o
                      /\ saving'[o].at = "new" => saving'[o].kind = "none"
                      /\ saving'[o].at = "sent" => saving'[o].clock <= clocks'.tab
    OBVIOUS
  <2>1. CASE o = q
    BY <1>7, <1>8, <2>1 DEF IsSent
  <2>2. CASE o # q
    <3>1. /\ saving'[o].at = saving[o].at /\ saving'[o].kind = saving[o].kind
          /\ saving'[o].id = saving[o].id /\ saving'[o].clock = saving[o].clock
      BY <1>7, <2>2 DEF OthersGoOn
    <3>2. saving[o].clock \in Nat /\ clocks.tab \in Nat
      BY OpOf DEF SlicesTyped
    <3> QED
      BY <1>7, <3>1, <3>2 DEF StoredInv
  <2> QED
    BY <2>1, <2>2
<1> QED
  BY <1>11, <1>12, <1>13 DEF StoredInv

LEMMA StoringKeepsRows ==
    ASSUME SlicesTyped, StoredInv, NEW q \in Mutations, SaveStored(q)
    PROVE  StoredInv'
<1>1. PICK put, tick : Stores(q, put, tick)
  BY StoredIs
<1>2. /\ saving[q].at = "sent" /\ saving'[q].at = "stored" /\ saving'[q].kind = saving[q].kind
      /\ saving'[q].slice = saving[q].slice /\ saving'[q].id = saving[q].id /\ saving'[q].put = put
      /\ \A p \in Mutations : p # q => saving'[p] = saving[p]
      /\ serverBlob' = put /\ clocks'.server = tick /\ clocks'.tab = clocks.tab
      /\ UNCHANGED <<personalBlob, forgotten, deleted>>
  BY <1>1 DEF Stores
<1>3. clocks.server \in Nat /\ tick \in Nat /\ \A p \in Mutations : saving[p].clock \in Nat
  BY <1>1, OpOf DEF Stores, SlicesTyped
<1>4. saving[q].clock < tick /\ clocks.server < tick
  BY <1>1, <1>3 DEF Stores
<1>5. \A t \in Slices, h \in Ids :
        /\ saving[q].put[t][h] > 0 => put[t][h] > 0
        /\ saving[q].clock < clocks.server /\ serverBlob[t][h] > 0 => put[t][h] > 0
  <2>1. CASE saving[q].clock < clocks.server /\ put = MergeSlices(serverBlob, saving[q].put)
    BY <2>1, MergeIs, OpOf DEF SlicesTyped
  <2>2. CASE ~(saving[q].clock < clocks.server) /\ put = saving[q].put
    BY <2>2
  <2> QED
    BY <1>1, <2>1, <2>2 DEF Stores
<1>6. ASSUME NEW o \in Mutations, Added(o) PROVE RowKept(o)'
  <2>1. RowKept(o)
    BY <1>6 DEF StoredInv
  <2>2. PICK t \in Slices : t = saving[o].slice
    BY OpOf
  <2>3. o \in Ids
    BY DEF Ids
  <2>4. CASE o = q
    <3>1. put[t][o] > 0
      BY <1>2, <1>5, <2>1, <2>2, <2>3, <2>4 DEF RowKept, Row
    <3>2. ASSUME NEW p \in Mutations \ {o}, saving[p].at = "sent"
          PROVE  Row(saving[p].put, o) > 0 \/ saving[p].clock < tick
      <4>1. Row(saving[p].put, o) > 0 \/ saving[p].clock < saving[q].clock
        BY <1>2, <2>1, <2>4, <3>2 DEF RowKept
      <4> QED
        BY <1>3, <1>4, <4>1
    <3> QED
      BY <1>2, <2>1, <2>2, <2>4, <3>1, <3>2 DEF RowKept, Row
  <2>5. CASE o # q
    <3>1. \A p \in Mutations : saving'[p].at = "sent" => p # q /\ saving'[p] = saving[p]
      BY <1>2
    <3>2. saving'[o] = saving[o]
      BY <1>2, <2>5
    <3>4. \A p \in Mutations : saving[p].clock < clocks.server => saving[p].clock < tick
      BY <1>3, <1>4
    <3>3. saving[o].at \in {"stored", "told"} => put[t][o] > 0
      <4>1. saving[o].at \in {"stored", "told"} => Row(saving[q].put, o) > 0 \/ saving[q].clock < clocks.server
        BY <1>2, <2>1, <2>5 DEF RowKept
      <4> QED
        BY <1>5, <2>1, <2>2, <2>3, <4>1 DEF RowKept, Row
    <3> QED
      BY <1>2, <2>1, <2>2, <3>1, <3>2, <3>3, <3>4 DEF RowKept, Row
  <2> QED
    BY <2>4, <2>5
<1>7. \A o \in Mutations : Added(o)' => Added(o)
  BY <1>2 DEF Added
<1>8. \A o \in Mutations : /\ saving'[o].kind = "add" => saving'[o].id = o
                           /\ saving'[o].at = "new" => saving'[o].kind = "none"
                           /\ saving'[o].at = "sent" => saving'[o].clock <= clocks'.tab
  BY <1>2 DEF StoredInv
<1>9. \A o \in Mutations : Added(o)' => RowKept(o)'
  BY <1>6, <1>7
<1> QED
  BY <1>8, <1>9 DEF StoredInv

LEMMA EndingKeepsRows ==
    ASSUME SlicesTyped, StoredInv, NEW q \in Mutations,
           SaveTold(q) \/ SaveFailed(q) \/ BillFailed(q)
    PROVE  StoredInv'
<1>1. PICK at \in {"told", "failed"} : /\ Over(q, at) /\ saving[q].at \in {"sent", "stored"}
                                       /\ (at = "told" => SaveTold(q))
  BY DEF SaveTold, SaveFailed, BillFailed, Outstanding
<1>2. /\ saving'[q].at = at /\ saving'[q].kind = saving[q].kind
      /\ saving'[q].slice = saving[q].slice /\ saving'[q].id = saving[q].id
      /\ \A p \in Mutations : p # q => saving'[p] = saving[p]
  BY <1>1, OverIs
<1>3. /\ serverBlob' = serverBlob /\ deleted' = deleted /\ forgotten' = forgotten
      /\ clocks'.server = clocks.server /\ clocks.tab \in Nat /\ clocks'.tab \in Nat /\ clocks.tab <= clocks'.tab
  <2>1. serverBlob' = serverBlob /\ deleted' = deleted
    BY DEF SaveTold, SaveFailed, BillFailed
  <2>2. forgotten' = forgotten
    BY DEF SaveTold, SaveFailed, BillFailed
  <2>3. PICK n \in Nat : n = saving[q].clock
    BY OpOf
  <2>4. clocks' = clocks \/ clocks' = [clocks EXCEPT !.tab = IF @ > n THEN @ ELSE n]
    BY <2>3 DEF SaveTold, SaveFailed, BillFailed, Greater
  <2> QED
    BY <2>1, <2>2, <2>4 DEF SlicesTyped
<1>4. \A o \in Mutations : Added(o)' => Added(o)
  BY <1>2, <1>3 DEF Added
<1>5. ASSUME NEW o \in Mutations, Added(o) PROVE RowKept(o)'
  <2>1. RowKept(o)
    BY <1>5 DEF StoredInv
  <2>2. CASE o = q /\ at = "told"
    <3>1. saving[o].at = "stored"
      BY <1>1, <2>2 DEF SaveTold
    <3> QED
      BY <1>2, <1>3, <2>1, <2>2, <3>1 DEF RowKept, Row
  <2>3. CASE o = q /\ at = "failed"
    BY <1>2, <2>3 DEF RowKept
  <2>4. CASE o # q
    <3>1. \A p \in Mutations : saving'[p].at = "sent" => saving'[p] = saving[p]
      BY <1>2
    <3>2. saving'[o] = saving[o]
      BY <1>2, <2>4
    <3> QED
      BY <1>2, <1>3, <2>1, <3>1, <3>2 DEF RowKept, Row
  <2> QED
    BY <2>2, <2>3, <2>4
<1>6. \A o \in Mutations : /\ saving'[o].kind = "add" => saving'[o].id = o
                           /\ saving'[o].at = "new" => saving'[o].kind = "none"
                           /\ saving'[o].at = "sent" => saving'[o].clock <= clocks'.tab
  <2> SUFFICES ASSUME NEW o \in Mutations
               PROVE  /\ saving'[o].kind = "add" => saving'[o].id = o
                      /\ saving'[o].at = "new" => saving'[o].kind = "none"
                      /\ saving'[o].at = "sent" => saving'[o].clock <= clocks'.tab
    OBVIOUS
  <2>1. CASE o = q
    BY <1>2, <2>1 DEF StoredInv
  <2>2. CASE o # q
    BY <1>2, <1>3, <2>2, OpOf DEF StoredInv
  <2> QED
    BY <2>1, <2>2
<1>7. \A o \in Mutations : Added(o)' => RowKept(o)'
  BY <1>4, <1>5
<1> QED
  BY <1>6, <1>7 DEF StoredInv

\* The lists, and the rows that were told to be saved.
SlicesInv == ListsInv /\ StoredInv

LEMMA SlicesStart == SlicesInit => SlicesInv
  BY ListsStart, StoredStart DEF SlicesInv

LEMMA SlicesSteps == SlicesInv /\ [SlicesNext]_slicesVars => SlicesInv'
<1> SUFFICES ASSUME SlicesInv, [SlicesNext]_slicesVars PROVE SlicesInv'
  OBVIOUS
<1>1. ListsInv' /\ SlicesTyped
  BY ListsSteps DEF SlicesInv, ListsInv
<1>2. StoredInv'
  <2>1. CASE UNCHANGED slicesVars
    BY <2>1 DEF slicesVars, SlicesInv, StoredInv, Added, RowKept, Row
  <2>2. CASE SlicesNext
    BY <1>1, <2>2, LoadingKeepsRows, BeginningKeepsRows, StoringKeepsRows, EndingKeepsRows
       DEF SlicesNext, BeginsOne, SlicesInv
  <2> QED
    BY <2>1, <2>2
<1> QED
  BY <1>1, <1>2 DEF SlicesInv

-----------------------------------------------------------------------------
(* The specification that runs one part at a time                          *)

\* What everybody is owed is, all together, nothing.
NetsToNothing == Nets(net) /\ SumFunction(net) = 0

ServicesInv ==
    /\ part = "restrictions" => RestrictionsInv
    /\ part = "limits" => LimitsInv
    /\ part = "diagnostics" => DiagnosticsInv
    /\ part = "config" => ConfigInv
    /\ part = "alerts" => AlertsInv
    /\ part = "seats" => SeatsInv
    /\ part \in {"import", "backup"} => ImportsInv
    /\ part = "migrations" => MigrationsInv
    /\ part = "oldblobs" => BlobsInv
    /\ part = "log" => LogInv
    /\ part = "budgets" => BudgetsInv
    /\ part = "reports" => ReportsInv
    /\ part = "inbox" => InboxInv
    /\ part \in {"grouplist", "grouppage"} => GroupPagesInv
    /\ part = "groupcache" => CacheInv
    /\ part \in {"settings", "push"} => PreferencesInv
    /\ part = "slices" => SlicesInv
    /\ part = "rooms" => RoomsInv
    /\ part = "splits" => EngineSharesAddUp /\ FormSharesAddUp
    /\ part = "transfers" => NetsToNothing
    /\ part = "invoices" => LooksAtBook

\* A step is one of the part that runs.
LEMMA PartRuns ==
    ASSUME [Next]_vars
    PROVE  /\ part' = part
           /\ part = "restrictions" => [RestrictionsNext]_restrictionVars
           /\ part = "limits" => [RateLimitsNext]_limitVars
           /\ part = "diagnostics" => [DiagnosticsNext]_diagnosticsVars
           /\ part = "config" => [ConfigNext]_adminVars
           /\ part = "alerts" => [AlertNext]_adminVars
           /\ part = "seats" => [SeatNext]_adminVars
           /\ part \in {"import", "backup"} => [FileNext \/ BackupNext]_importsVars
           /\ part = "migrations" => [MigrationsNext]_migrationsVars
           /\ part = "oldblobs" => [BlobMigrationsNext]_blobVars
           /\ part = "log" => [ChainNext]_chainVars
           /\ part = "budgets" => [BudgetsNext]_budgetsVars
           /\ part = "reports" => [ReportsNext]_bought
           /\ part = "inbox" => [InboxNext]_inboxVars
           /\ part \in {"grouplist", "grouppage"} => [GroupListNext \/ GroupPageNext]_groupPagesVars
           /\ part = "groupcache" => [GroupCacheNext]_cacheVars
           /\ part \in {"settings", "push"} => [SettingsNext \/ PushNext]_preferencesVars
           /\ part = "slices" => [SlicesNext]_slicesVars
           /\ part = "rooms" => [RoomsNext]_roomVars
           /\ part = "splits" => [SplitsNext]_split
           /\ part = "transfers" => [Owed]_net
           /\ part = "invoices" => [InvoicesNext]_invoice
<1>1. CASE UNCHANGED vars
  BY <1>1 DEF vars
<1>2. CASE Next
  BY <1>2 DEF Next, Runs
<1> QED
  BY <1>1, <1>2

LEMMA FourAreFinite == IsFiniteSet({m1, m2, m3, m4})
<1>1. IsFiniteSet({m1})
  BY FS_Singleton
<1>2. IsFiniteSet({m1} \cup {m2})
  BY <1>1, FS_AddElement
<1>3. IsFiniteSet(({m1} \cup {m2}) \cup {m3})
  BY <1>2, FS_AddElement
<1>4. IsFiniteSet((({m1} \cup {m2}) \cup {m3}) \cup {m4})
  BY <1>3, FS_AddElement
<1>5. (({m1} \cup {m2}) \cup {m3}) \cup {m4} = {m1, m2, m3, m4}
  OBVIOUS
<1> QED
  BY <1>4, <1>5

LEMMA NothingIsOwed == Init => NetsToNothing
<1> SUFFICES ASSUME Init PROVE NetsToNothing
  OBVIOUS
<1> DEFINE people == {m1, m2, m3, m4}
<1>1. net = [m \in people |-> 0]
  BY DEF Init
<1>2. IsFiniteSet(people)
  BY FourAreFinite
<1>3. /\ net \in [people -> Int]
      /\ DOMAIN net = people
      /\ \A m \in people : net[m] = 0
  BY <1>1
<1> HIDE DEF people
<1>4. SumFunction(net) = 0
  BY <1>2, <1>3, SumZero
<1> QED
  BY <1>2, <1>3, <1>4 DEF NetsToNothing, Nets

LEMMA OwedIsNothing == NetsToNothing /\ [Owed]_net => NetsToNothing'
<1> SUFFICES ASSUME NetsToNothing, [Owed]_net PROVE NetsToNothing'
  OBVIOUS
<1>1. CASE UNCHANGED net
  BY <1>1 DEF NetsToNothing, Nets
<1>2. CASE Owed
  <2> DEFINE people == {m1, m2, m3, m4}
  <2>1. IsFiniteSet(people)
    BY FourAreFinite
  <2>2. /\ net' \in [people -> -3..3]
        /\ SumFunction(net') = 0
    BY <1>2 DEF Owed
  <2>3. -3..3 \subseteq Int
    OBVIOUS
  <2> HIDE DEF people
  <2>4. net' \in [people -> Int] /\ DOMAIN net' = people
    BY <2>2, <2>3
  <2> QED
    BY <2>1, <2>2, <2>4 DEF NetsToNothing, Nets
<1> QED
  BY <1>1, <1>2

LEMMA ServicesStart == Init => ServicesInv
  BY RestrictionsStart, LimitsStart, DiagnosticsStart, AdminStart, ImportsStart, MigrationsStart, BlobsStart,
     LogStarts, BudgetsStart, ReportsStart, InboxStart, GroupPagesStart, CacheBegins,
     PreferencesBegin, SlicesStart, RoomsStart, SplitsInitially, NothingIsOwed, LooksInitially DEF Init, ServicesInv

LEMMA ServicesSteps == ServicesInv /\ [Next]_vars => ServicesInv'
<1> SUFFICES ASSUME ServicesInv, [Next]_vars PROVE ServicesInv'
  OBVIOUS
<1>1. part' = part
  BY PartRuns
<1>2. part = "restrictions" => RestrictionsInv'
  BY PartRuns, RestrictionsSteps DEF ServicesInv
<1>3. part = "limits" => LimitsInv'
  BY PartRuns, LimitsSteps DEF ServicesInv
<1>4. part = "diagnostics" => DiagnosticsInv'
  BY PartRuns, DiagnosticsSteps DEF ServicesInv
<1>5. /\ part = "config" => ConfigInv'
      /\ part = "alerts" => AlertsInv'
      /\ part = "seats" => SeatsInv'
  BY PartRuns, ConfigSteps, AlertsSteps, SeatsSteps DEF ServicesInv
<1>6. part \in {"import", "backup"} => ImportsInv'
  BY PartRuns, ImportsSteps DEF ServicesInv
<1>7. part = "migrations" => MigrationsInv'
  BY PartRuns, MigrationsSteps DEF ServicesInv
<1>8. part = "oldblobs" => BlobsInv'
  BY PartRuns, BlobsSteps DEF ServicesInv
<1>9. part = "log" => LogInv'
  BY PartRuns, LogSteps DEF ServicesInv
<1>10. part = "budgets" => BudgetsInv'
  BY PartRuns, BudgetsSteps DEF ServicesInv
<1>11. part = "reports" => ReportsInv'
  BY PartRuns, ReportsSteps DEF ServicesInv
<1>12. part = "inbox" => InboxInv'
  BY PartRuns, InboxSteps DEF ServicesInv
<1>13. part \in {"grouplist", "grouppage"} => GroupPagesInv'
  BY PartRuns, GroupPagesSteps DEF ServicesInv
<1>14. part = "groupcache" => CacheInv'
  BY PartRuns, CacheSteps DEF ServicesInv
<1>15. part \in {"settings", "push"} => PreferencesInv'
  BY PartRuns, PreferencesSteps DEF ServicesInv
<1>16. part = "slices" => SlicesInv'
  BY PartRuns, SlicesSteps DEF ServicesInv
<1>17. part = "splits" => EngineSharesAddUp' /\ FormSharesAddUp'
  BY PartRuns, SplitsStep DEF ServicesInv
<1>18. part = "transfers" => NetsToNothing'
  BY PartRuns, OwedIsNothing DEF ServicesInv
<1>19. part = "invoices" => LooksAtBook'
  BY PartRuns, LooksNext DEF ServicesInv
<1>20. part = "rooms" => RoomsInv'
  BY PartRuns, RoomsSteps DEF ServicesInv
<1> QED
  BY <1>1, <1>2, <1>3, <1>4, <1>5, <1>6, <1>7, <1>8, <1>9, <1>10, <1>11, <1>12, <1>13, <1>14, <1>15, <1>16,
     <1>17, <1>18, <1>19, <1>20 DEF ServicesInv

\* For any number of requests and any limits: no window of the rate limiter lets
\* through more than the limit of a kind, its key is dated, a block that an admin is
\* told of is in force, and a restriction bites a TTL after it was made
\* (rateLimiter.ts, adminSecurityService.ts, userRestrictions.ts).
THEOREM LimitsAreKept == Spec => []LimitsHold
<1>1. ServicesInv => LimitsHold
  BY LimitsSafe DEF ServicesInv, LimitsHold, RestrictionsInv, RestrictionBites
<1> QED
  BY <1>1, ServicesStart, ServicesSteps, PTL DEF Spec

\* For any number of flushes, admins, instances, devices and rows: no log entry is lost
\* by a failed or overlapping flush, captures of an error are all counted, the change log
\* names the value in force, a rule alerts once per cooldown, the counter has the
\* sockets, files and backups arrive once, migrations run in order, and no row of an
\* old blob is lost (logger.ts, errorCapture.ts, admin routes, dataExport.ts, migrate.ts,
\* blobMigration.ts).
THEOREM RecordsAreKept == Spec => []RecordsKept
<1>1. ServicesInv => RecordsKept
  BY DiagnosticsSafe, AlertsSafe, RowsAreAccounted, BackupsAreWhole, BlobsSafe
     DEF ServicesInv, RecordsKept, ConfigInv, SeatsInv, MigrationsInv
<1> QED
  BY <1>1, ServicesStart, ServicesSteps, PTL DEF Spec

\* For any number of appends, attempts and other edits, on whatever log the blob began:
\* verifyIntegrity finds nothing broken in a log that was begun in its own format, and
\* what the engine writes of the same entries passes verifyLogChain in either order, and
\* fails it without any entry that others follow (logStore.ts, logManager.ts).
THEOREM LogsAreVerified == Spec => []LogVerifies
<1>1. ServicesInv => LogVerifies
  BY LogIsVerified DEF ServicesInv, LogVerifies
<1> QED
  BY <1>1, ServicesStart, ServicesSteps, PTL DEF Spec

\* For any base of a budget, any expenses and any saves of several devices, a period a
\* day or a month long: what a budget carries over is not more than the periods before
\* its start left it, and outside a save the page has told the level it shows
\* (budgetEngine.ts, budgetStore.ts).
THEOREM BudgetsAreKept == Spec => []BudgetsKept
<1>1. ServicesInv => BudgetsKept
  BY BudgetsSafe DEF ServicesInv, BudgetsKept
<1> QED
  BY <1>1, ServicesStart, ServicesSteps, PTL DEF Spec

\* For any expenses, categories, prices and days, and months and periods of any length:
\* the recaps of the months, the two periods of the page and those of the detector count
\* every expense of their days once; the parts of a report make its total; and what is
\* reported as unusual outgrew some past period (analyticsStore.ts,
\* analyticsCalculator.ts, spendingDetector.ts).
THEOREM ReportsAreTotals == Spec => []ReportsAddUp
<1>1. ServicesInv => ReportsAddUp
  BY ReportsSafe DEF ServicesInv, ReportsAddUp
<1> QED
  BY <1>1, ServicesStart, ServicesSteps, PTL DEF Spec

\* For any totals, ratios and percentages and any number of members: the engine hands out
\* no less than the total, and exactly the total where the last member can make up for the
\* rounding; the store refuses no expense of the form; for balances that come to nothing,
\* the transfers clear all of them; what Settle All proposes clears what can be cleared,
\* and no debt of a group that spends in its own currency is turned around unwarned
\* (splitCalculator.ts, GroupExpenseForm.tsx, minimalTransferAlgorithm.ts,
\* GroupInvoicesTab.tsx).
THEOREM SharesAreExact == Spec => []SharesAddUp
<1>1. ServicesInv => SharesAddUp
  <2> SUFFICES ASSUME ServicesInv PROVE SharesAddUp
    OBVIOUS
  <2>1. part = "splits" => EngineSharesAddUp /\ FormSharesAddUp
    BY DEF ServicesInv
  <2>2. part = "transfers" => TransfersSettle(net)
    BY TransfersAreRight DEF ServicesInv, NetsToNothing
  <2>3. part = "invoices" => SettleAllSettles /\ WarnedBeforeReversal
    BY InvoicesHold DEF ServicesInv
  <2> QED
    BY <2>1, <2>2, <2>3 DEF SharesAddUp
<1> QED
  BY <1>1, ServicesStart, ServicesSteps, PTL DEF Spec

\* For any number of requests, groups, jobs, browsers, accounts and mutations of the
\* private blob: the badge counts the unread entries of the list, a group is listed for
\* its members only, a page that waits for nothing shows the news it heard of, the cache
\* of the expenses keeps what the tab edited, a settings page that shows what it sent
\* last shows what holds, a push goes to who asked for it, and a row that the user was
\* told of is stored unless a later mutation of the tab began without it
\* (notificationStore.ts, groupStore.ts, groupExpenseStore.ts,
\* NotificationPreferencesSettings.tsx, webPush.ts, personalStore.ts).
THEOREM PagesAreTrue == Spec => []PagesShow
<1>1. ServicesInv => PagesShow
  <2> SUFFICES ASSUME ServicesInv PROVE PagesShow
    OBVIOUS
  <2>1. part = "inbox" => BadgeFollowsList
    BY BadgeIs DEF ServicesInv
  <2>2. part = "grouplist" => ListIsOwn
    BY DEF ServicesInv, GroupPagesInv
  <2>3. part = "grouppage" => PageFollowsGroup
    BY PageFollows DEF ServicesInv
  <2>4. part = "groupcache" => CacheKeepsEdits
    BY DEF ServicesInv, CacheInv
  <2>5. part = "settings" => SavedIsShown
    BY SavedHolds DEF ServicesInv
  <2>6. part = "push" => PushesWanted
    BY DEF ServicesInv, PreferencesInv
  <2>7. part = "slices" => ListsShowBlob /\ ToldIsStored
    BY ListsShow, StoredIsTold DEF ServicesInv, SlicesInv
  <2> QED
    BY <2>1, <2>2, <2>3, <2>4, <2>5, <2>6, <2>7 DEF PagesShow
<1> QED
  BY <1>1, ServicesStart, ServicesSteps, PTL DEF Spec

\* However many mutations overlap: unless a refetch came between the parts of one, the
\* lists the pages read are those of the private blob in the tab (personalBlobStore.ts).
THEOREM ListsFollowBlob == SlicesSpec => []ListsShowBlob
<1>1. SlicesInv => ListsShowBlob
  BY ListsShow DEF SlicesInv
<1> QED
  BY <1>1, SlicesStart, SlicesSteps, PTL DEF SlicesSpec

\* A user who enters expenses, imports files and restores backups in any order has
\* every row of a file once, or is told of it, and every expense of a restored backup
\* once (ImportPage.tsx, dataExport.ts).
THEOREM ImportsArriveOnce == ImportsSpec => [](RowsAccounted /\ RestoredWhole)
<1>1. ImportsInv => RowsAccounted /\ RestoredWhole
  BY RowsAreAccounted, BackupsAreWhole
<1> QED
  BY <1>1, ImportsStart, ImportsSteps, PTL DEF ImportsSpec

-----------------------------------------------------------------------------
(* The types of the parts, with their bounds                               *)

LEMMA RestrictionsTypesStart == RestrictionsInit => RestrictionsTypeOK
<1> SUFFICES ASSUME RestrictionsInit PROVE RestrictionsTypeOK
  OBVIOUS
<1>1. 0 \in 0..MaxClock
  BY RestrictionsAssumption
<1>2. clock \in 0..MaxClock /\ since \in 0..MaxClock
  BY <1>1 DEF RestrictionsInit
<1>3. restricted \in BOOLEAN /\ slipped \in BOOLEAN /\ console \in {"idle", "invalidate"}
  BY Zenon DEF RestrictionsInit
<1>4. cache \in [held : BOOLEAN, checkedAt : 0..MaxClock, restricted : BOOLEAN]
  BY <1>1 DEF RestrictionsInit, Empty
<1>5. check \in [Checks -> [at : {"idle", "query", "answer"}, now : 0..MaxClock,
                             restricted : BOOLEAN]]
  BY <1>1 DEF RestrictionsInit, Waiting
<1> QED
  BY <1>2, <1>3, <1>4, <1>5 DEF RestrictionsTypeOK

LEMMA RestrictionsTypes == RestrictionsTypeOK /\ [RestrictionsNext]_restrictionVars => RestrictionsTypeOK'
<1> SUFFICES ASSUME RestrictionsTypeOK, [RestrictionsNext]_restrictionVars PROVE RestrictionsTypeOK'
  OBVIOUS
<1> USE RestrictionsAssumption DEF RestrictionsTypeOK, Empty, Waiting
<1>1. ASSUME NEW r \in Checks, CheckCached(r) PROVE RestrictionsTypeOK'
  <2>1. slipped' \in BOOLEAN
    BY <1>1, Zenon DEF CheckCached, Outcome
  <2> QED
    BY <1>1, <2>1 DEF CheckCached
<1>2. ASSUME NEW r \in Checks, CheckMisses(r) PROVE RestrictionsTypeOK'
  BY <1>2 DEF CheckMisses
<1>3. ASSUME NEW r \in Checks, ReadRestrictions(r) PROVE RestrictionsTypeOK'
  BY <1>3 DEF ReadRestrictions
<1>4. ASSUME NEW r \in Checks, FillCache(r) PROVE RestrictionsTypeOK'
  <2>1. slipped' \in BOOLEAN
    BY <1>4, Zenon DEF FillCache, Outcome
  <2> QED
    BY <1>4, <2>1 DEF FillCache
<1>5. CASE RestrictUser \/ LiftRestriction \/ RestrictionExpires
  <2>1. since' \in 0..MaxClock
    BY <1>5 DEF RestrictUser, LiftRestriction, RestrictionExpires
  <2>2. restricted' \in BOOLEAN /\ console' \in {"idle", "invalidate"}
    BY <1>5, Zenon DEF RestrictUser, LiftRestriction, RestrictionExpires
  <2>3. UNCHANGED <<clock, cache, check, slipped>>
    BY <1>5, Zenon DEF RestrictUser, LiftRestriction, RestrictionExpires
  <2> QED
    BY <2>1, <2>2, <2>3
<1>6. CASE Tick
  BY <1>6 DEF Tick
<1>7. CASE Invalidate \/ RestartServer
  <2>1. cache' \in [held : BOOLEAN, checkedAt : 0..MaxClock, restricted : BOOLEAN]
    <3>1. Empty \in [held : BOOLEAN, checkedAt : 0..MaxClock, restricted : BOOLEAN]
      OBVIOUS
    <3> QED
      BY <1>7, <3>1, Zenon DEF Invalidate, RestartServer
  <2>2. check' \in [Checks -> [at : {"idle", "query", "answer"}, now : 0..MaxClock,
                                restricted : BOOLEAN]]
    <3>1. CASE check' = check
      BY <3>1
    <3>2. CASE check' = [r \in Checks |-> Waiting]
      BY <3>2
    <3> QED
      BY <1>7, <3>1, <3>2 DEF Invalidate, RestartServer
  <2>3. console' = "idle" /\ UNCHANGED <<clock, restricted, since, slipped>>
    BY <1>7, Zenon DEF Invalidate, RestartServer
  <2> QED
    BY <2>1, <2>2, <2>3
<1>8. CASE UNCHANGED restrictionVars
  BY <1>8 DEF restrictionVars
<1> QED
  BY <1>1, <1>2, <1>3, <1>4, <1>5, <1>6, <1>7, <1>8 DEF RestrictionsNext

\* What LimitsInv does not say of the types.
LimitsKinds ==
    /\ errors \in 0..MaxErrors /\ endless \in BOOLEAN /\ wiped \in BOOLEAN
    /\ blockedIp \in BOOLEAN /\ block \in {"idle", "hset", "told", "failed"}

LEMMA LimitsKindsStart == RateLimitsInit => LimitsKinds
<1> SUFFICES ASSUME RateLimitsInit PROVE LimitsKinds
  OBVIOUS
<1>1. errors \in 0..MaxErrors
  BY RateLimitsAssumption DEF RateLimitsInit
<1>2. /\ endless \in BOOLEAN /\ wiped \in BOOLEAN
      /\ blockedIp \in BOOLEAN /\ block \in {"idle", "hset", "told", "failed"}
  BY Zenon DEF RateLimitsInit
<1> QED
  BY <1>1, <1>2 DEF LimitsKinds

LEMMA LimitsKindsStay == LimitsKinds /\ [RateLimitsNext]_limitVars => LimitsKinds'
<1> SUFFICES ASSUME LimitsKinds, [RateLimitsNext]_limitVars PROVE LimitsKinds'
  OBVIOUS
<1> USE RateLimitsAssumption DEF LimitsKinds
<1>1. ASSUME NEW r \in Calls, Incr(r) \/ SetExpiry(r) \/ Decide(r) PROVE LimitsKinds'
  BY <1>1 DEF Incr, SetExpiry, Decide
<1>2. ASSUME NEW r \in Calls, RedisFails(r) PROVE LimitsKinds'
  <2>1. endless' \in BOOLEAN
    BY <1>2, Zenon DEF RedisFails
  <2>2. errors' \in 0..MaxErrors /\ UNCHANGED <<blockedIp, block, wiped>>
    BY <1>2 DEF RedisFails
  <2> QED
    BY <2>1, <2>2
<1>3. CASE KeyExpires \/ ClearRedisCache
  BY <1>3 DEF KeyExpires, ClearRedisCache
<1>4. CASE BlockIp \/ RecordReason
  <2>1. errors' = errors \/ (errors < MaxErrors /\ errors' = errors + 1)
    BY <1>4, Zenon DEF BlockIp, RecordReason, BlockFails
  <2>2. errors' \in 0..MaxErrors
    BY <2>1
  <2>3. /\ wiped' \in BOOLEAN /\ blockedIp' \in BOOLEAN /\ endless' = endless
        /\ block' \in {"idle", "hset", "told", "failed"}
    BY <1>4, Zenon DEF BlockIp, RecordReason, BlockFails
  <2> QED
    BY <2>2, <2>3
<1>5. CASE UNCHANGED limitVars
  BY <1>5 DEF limitVars
<1> QED
  BY <1>1, <1>2, <1>3, <1>4, <1>5 DEF RateLimitsNext

\* No more are admitted than were counted.
LEMMA LimitsTypes == LimitsInv /\ LimitsKinds => RateLimitsTypeOK
<1> SUFFICES ASSUME LimitsInv, LimitsKinds PROVE RateLimitsTypeOK
  OBVIOUS
<1>1. counter \in 0..MaxCounter /\ expires \in BOOLEAN /\ admitted \in [Methods -> Nat]
  BY DEF LimitsInv, LimitsTyped
<1>2. Resting.method \in Methods
  BY RateLimitsAssumption DEF Resting, CallRecord
<1>3. call \in [Calls -> [at : {"idle", "expire", "decide"}, method : Methods,
                          current : 0..MaxCounter, old : BOOLEAN]]
  <2>1. Methods \cup {Resting.method} = Methods
    BY <1>2
  <2> QED
    BY <2>1 DEF LimitsInv, LimitsTyped, CallStates
<1>4. ASSUME NEW m \in Methods PROVE admitted[m] \in 0..MaxCounter
  <2>1. MaxCounter \in Nat /\ counter \in Nat /\ counter <= MaxCounter
    BY <1>1, RateLimitsAssumption
  <2>2. IsFiniteSet(1..counter) /\ Cardinality(1..counter) = counter
    <3>1. 1 \in Int /\ counter \in Int
      BY <2>1
    <3>2. IsFiniteSet(1..counter) /\ Cardinality(1..counter) = IF 1 > counter THEN 0 ELSE counter - 1 + 1
      BY <3>1, FS_Interval
    <3> QED
      BY <2>1, <3>2
  <2>3. SpentNumbers(Limit[m]) \subseteq 1..counter
    BY DEF SpentNumbers
  <2>4. /\ Cardinality(SpentNumbers(Limit[m])) <= counter
        /\ Cardinality(SpentNumbers(Limit[m])) \in Nat
    BY <2>2, <2>3, FS_Subset, FS_CardinalityType
  <2>5. admitted[m] <= Cardinality(SpentNumbers(Limit[m]))
    BY DEF LimitsInv, WithinSpent
  <2> QED
    BY <1>1, <2>1, <2>4, <2>5
<1> QED
  BY <1>1, <1>3, <1>4 DEF RateLimitsTypeOK, LimitsKinds

LEMMA RowTypesStart == InboxInit => row \in [Notices -> {"none", "unread", "read", "gone"}]
  BY DEF InboxInit

LEMMA RowTypes ==
    row \in [Notices -> {"none", "unread", "read", "gone"}] /\ [InboxNext]_inboxVars
    => row' \in [Notices -> {"none", "unread", "read", "gone"}]
<1> SUFFICES ASSUME row \in [Notices -> {"none", "unread", "read", "gone"}], [InboxNext]_inboxVars
             PROVE  row' \in [Notices -> {"none", "unread", "read", "gone"}]
  OBVIOUS
<1>1. CASE \E n \in Notices : CreateNotification(n)
  BY <1>1 DEF CreateNotification
<1>2. CASE \E q \in Asks : ReadAllRows(q) \/ \E n \in Notices : ReadRow(q, n) \/ DeleteRow(q, n)
  BY <1>2 DEF ReadAllRows, ReadRow, DeleteRow
<1>3. CASE row' = row
  BY <1>3
<1> QED
  BY <1>1, <1>2, <1>3
     DEF InboxNext, AddNotification, FetchRows, AskFails, ShowRows, MarkAsRead, MarkAllAsRead,
         DeleteNotification, Answered, ForgetNotifications, inboxVars

\* A list without two entries of one notification is no longer than there are
\* notifications; with some, it grew by an event.
ListFits == Len(list) <= Latest \/ Len(list) <= MaxList

LEMMA DistinctFits == ASSUME NEW l \in EntryLists, Distinct(l) PROVE Len(l) <= Latest
<1> DEFINE f == [i \in DOMAIN l |-> l[i].id]
<1>1. Len(l) \in Nat /\ DOMAIN l = 1..Len(l) /\ \A i \in DOMAIN l : l[i] \in Entries
  BY ListIs
<1>2. Latest \in Nat /\ 1 \in Int /\ Latest \in Int /\ Len(l) \in Int
  BY <1>1, InboxAssumption
<1>3. IsFiniteSet(1..Latest) /\ Cardinality(1..Latest) = Latest
  <2>1. IsFiniteSet(1..Latest) /\ Cardinality(1..Latest) = IF 1 > Latest THEN 0 ELSE Latest - 1 + 1
    BY <1>2, FS_Interval
  <2> QED
    BY <1>2, <2>1
<1>4. Cardinality(1..Len(l)) = Len(l)
  <2>1. Cardinality(1..Len(l)) = IF 1 > Len(l) THEN 0 ELSE Len(l) - 1 + 1
    BY <1>2, FS_Interval
  <2> QED
    BY <1>1, <2>1
<1>5. f \in [1..Len(l) -> 1..Latest]
  BY <1>1 DEF Entries, Notices
<1>6. \A i, j \in 1..Len(l) : f[i] = f[j] => i = j
  BY <1>1 DEF Distinct
<1> HIDE DEF f
<1>7. f \in Injection(1..Len(l), 1..Latest)
  BY <1>5, <1>6 DEF Injection, IsInjective
<1> QED
  BY <1>3, <1>4, <1>7, FS_Injection

LEMMA ListFitsStart == InboxInit => ListFits
  BY InboxAssumption DEF InboxInit, ListFits

LEMMA ListFitsStays == InboxInv /\ ListFits /\ [InboxNext]_inboxVars => ListFits'
<1> SUFFICES ASSUME InboxInv, ListFits, [InboxNext]_inboxVars PROVE ListFits'
  OBVIOUS
<1>0. Len(list) \in Nat /\ DOMAIN list = 1..Len(list) /\ list \in Seq(Entries)
  BY ListIs DEF InboxInv, Counts, EntryLists
<1>1. CASE list' = list
  BY <1>1 DEF ListFits
<1>2. ASSUME NEW n \in Notices, AddNotification(n) PROVE ListFits'
  <2>1. Len(list') = 1 + Len(list)
    <3>1. <<Entry(n, FALSE)>> \in Seq(Entries)
      BY DEF Entry, Entries
    <3>2. list' = <<Entry(n, FALSE)>> \o list
      BY <1>2 DEF AddNotification
    <3> QED
      BY <1>0, <3>1, <3>2
  <2> QED
    BY <1>0, <1>2, <2>1, InboxAssumption DEF AddNotification, ListFits
<1>3. ASSUME NEW q \in Asks, ShowRows(q) PROVE ListFits'
  <2>1. ask[q].rows \in EntryLists /\ Distinct(ask[q].rows)
    BY DEF InboxInv, AsksAre, Asked
  <2> QED
    BY <1>3, <2>1, DistinctFits DEF ShowRows, ListFits
<1>4. ASSUME NEW q \in Asks, MarkAsRead(q) \/ MarkAllAsRead(q) PROVE ListFits'
  <2>1. DOMAIN list' = 1..Len(list) /\ list' = [i \in 1..Len(list) |-> list'[i]]
    BY <1>0, <1>4 DEF MarkAsRead, MarkAllAsRead
  <2>2. Len(list') = Len(list)
    <3>1. list' \in EntryLists
      BY <1>4, MarkStep, MarkAllStep DEF InboxInv, Counts
    <3>2. Len(list') \in Nat /\ DOMAIN list' = 1..Len(list')
      BY <3>1, ListIs
    <3> QED
      BY <1>0, <2>1, <3>2
  <2> QED
    BY <2>2 DEF ListFits
<1>5. ASSUME NEW q \in Asks, DeleteNotification(q) PROVE ListFits'
  <2>1. PICK places \in SUBSET (DOMAIN list) : list' = Picked(list, places)
    BY <1>5 DEF DeleteNotification
  <2>2. places \in SUBSET (1..Len(list)) /\ Len(list) \in Nat
    BY <1>0, <2>1
  <2>3. DOMAIN list' = 1..Cardinality(places)
    BY <2>1 DEF Picked
  <2>4. Cardinality(places) \in Nat /\ Cardinality(places) <= Len(list)
    <3>1. 1 \in Int /\ Len(list) \in Int
      BY <1>0
    <3>2. /\ IsFiniteSet(1..Len(list))
          /\ Cardinality(1..Len(list)) = IF 1 > Len(list) THEN 0 ELSE Len(list) - 1 + 1
      BY <3>1, FS_Interval
    <3>3. Cardinality(1..Len(list)) = Len(list)
      BY <1>0, <3>2
    <3> QED
      BY <2>2, <3>2, <3>3, FS_Subset, FS_CardinalityType
  <2>5. Len(list') = Cardinality(places)
    <3>1. list' \in EntryLists
      BY <1>5, DeleteStep DEF InboxInv, Counts
    <3>2. Len(list') \in Nat /\ DOMAIN list' = 1..Len(list')
      BY <3>1, ListIs
    <3> QED
      BY <2>3, <2>4, <3>2
  <2> QED
    BY <1>0, <2>4, <2>5, InboxAssumption DEF ListFits
<1>6. CASE ForgetNotifications
  BY <1>6, InboxAssumption DEF ForgetNotifications, ListFits
<1> QED
  BY <1>1, <1>2, <1>3, <1>4, <1>5, <1>6
     DEF InboxNext, CreateNotification, FetchRows, ReadAllRows, AskFails, ReadRow, DeleteRow, Ask, inboxVars

\* What InboxInv does not say of the types.
InboxRest == row \in [Notices -> {"none", "unread", "read", "gone"}] /\ ListFits

LEMMA InboxTypes == InboxInv /\ InboxRest => InboxTypeOK
  BY DEF InboxInv, InboxRest, ListFits, InboxTypeOK, AsksAre, Asked, Counts, EntryLists

LEMMA DiagnosticsTypes == DiagnosticsInv => DiagnosticsTypeOK
<1> SUFFICES ASSUME DiagnosticsInv PROVE DiagnosticsTypeOK
  OBVIOUS
<1>1. ASSUME NEW s \in Seq(LogIds), NEW n \in Nat, Len(s) <= n PROVE s \in BoundedSeq(LogIds, n)
  <2>1. Len(s) \in 0..n /\ s \in [1..Len(s) -> LogIds]
    BY <1>1, LenProperties
  <2> QED
    BY <2>1 DEF BoundedSeq, SeqOf
<1>2. /\ buffer \in Seq(LogIds) /\ Len(buffer) <= MaxBuffer
      /\ flight \in [Flushes -> Seq(LogIds)]
      /\ \A f \in Flushes : Len(flight[f]) <= BatchLen
  BY DEF DiagnosticsInv, Sound
<1>3. buffer \in BoundedSeq(LogIds, MaxBuffer) /\ flight \in [Flushes -> BoundedSeq(LogIds, BatchLen)]
  BY <1>1, <1>2, DiagnosticsAssumption
<1>4. logged \in 0..MaxEntries /\ written \subseteq LogIds /\ dropped \subseteq LogIds
  BY DEF DiagnosticsInv, Sound
<1> QED
  BY <1>3, <1>4 DEF DiagnosticsInv, DiagnosticsTypeOK

LEMMA LogTypes == LogInv => LogTypeOK
<1> SUFFICES ASSUME LogInv PROVE LogTypeOK
  OBVIOUS
<1>1. \A i \in DOMAIN entries : entries[i].form \in {"engine", "legacy"}
  <2>1. entries \in [1..Len(entries) -> LogEntries]
    BY LenProperties DEF LogInv, LogTyped
  <2> QED
    BY <2>1 DEF LogEntries
<1> QED
  BY <1>1 DEF LogInv, LogTyped, LogTypeOK

LEMMA ReportsTypes == ReportsInv => ReportsTypeOK
  BY DEF ReportsInv, ReportsTypeOK

\* What GroupPagesInv does not say of the types.
PagesRest ==
    /\ news \in [Groups -> 0..MaxNews]
    /\ DOMAIN groups \subseteq Groups /\ \A g \in DOMAIN groups : groups[g] \in Users \cup {NoUser}
    /\ activeFetch \in Groups \cup {NoGroup} /\ currentGroup.id \in Groups \cup {NoGroup}

LEMMA PagesRestStart == GroupPagesInit => PagesRest
<1> SUFFICES ASSUME GroupPagesInit PROVE PagesRest
  OBVIOUS
<1>1. news \in [Groups -> 0..MaxNews]
  <2>1. 0 \in 0..MaxNews
    BY GroupPagesAssumption
  <2> QED
    BY <2>1 DEF GroupPagesInit
<1>2. DOMAIN groups = {}
  BY DEF GroupPagesInit
<1> QED
  BY <1>1, <1>2 DEF GroupPagesInit, PagesRest, Nothing

\* The list and what the page shows, without the news.
ShownTypes ==
    /\ DOMAIN groups \subseteq Groups /\ \A g \in DOMAIN groups : groups[g] \in Users \cup {NoUser}
    /\ activeFetch \in Groups \cup {NoGroup} /\ currentGroup.id \in Groups \cup {NoGroup}

LEMMA RemovedLocally ==
    ASSUME PagesTyped, ShownTypes, NEW g \in Groups, removeGroupLocally(g), UNCHANGED activeFetch
    PROVE  ShownTypes'
<1>1. currentGroup'.id \in Groups \cup {NoGroup}
  BY DEF removeGroupLocally, ShownTypes, Nothing
<1>2. DOMAIN groups' = DOMAIN groups \ {g} /\ \A h \in DOMAIN groups' : groups'[h] = groups[h]
  BY DEF removeGroupLocally
<1> QED
  BY <1>1, <1>2 DEF ShownTypes

LEMMA WhatIsShownStays ==
    ASSUME PagesTyped, FetchesOrdered, ShownTypes, GroupListNext \/ GroupPageNext
    PROVE  ShownTypes'
<1>0. Nothing.id = NoGroup
  BY DEF Nothing
<1>1. CASE UNCHANGED <<groups, currentGroup, activeFetch>>
  BY <1>1 DEF ShownTypes
<1>2. CASE SignOut
  <2>1. DOMAIN groups' = {}
    BY <1>2 DEF SignOut
  <2> QED
    BY <1>0, <1>2, <2>1 DEF SignOut, ShownTypes
<1>3. ASSUME NEW f \in Fetches, ShowGroups(f) PROVE ShownTypes'
  <2>1. groups' = [g \in fetch[f].rows |-> NoUser] /\ UNCHANGED <<currentGroup, activeFetch>>
    BY <1>3 DEF ShowGroups, pageVars
  <2>2. fetch[f].rows \subseteq Groups
    BY FetchOf DEF FetchRecords
  <2> QED
    BY <2>1, <2>2 DEF ShownTypes
<1>4. ASSUME NEW f \in Fetches, ShowBalances(f) PROVE ShownTypes'
  <2>1. PICK known, value :
            /\ groups' = [g \in DOMAIN groups |-> IF g \in known THEN value[g] ELSE groups[g]]
            /\ known \subseteq fetch[f].rows
            /\ value = [g \in known |-> IF balanceCache[g] = NoUser THEN fetch[f].of ELSE balanceCache[g]]
    BY <1>4 DEF ShowBalances
  <2>2. fetch[f].rows \subseteq Groups /\ fetch[f].of \in Users
    BY <1>4, FetchOf DEF FetchRecords, ShowBalances
  <2>3. \A g \in known : value[g] \in Users \cup {NoUser}
    BY <2>1, <2>2 DEF PagesTyped
  <2>4. UNCHANGED <<currentGroup, activeFetch>>
    BY <1>4 DEF ShowBalances, pageVars
  <2>5. DOMAIN groups' = DOMAIN groups /\ \A g \in DOMAIN groups : groups'[g] \in Users \cup {NoUser}
    BY <2>1, <2>3 DEF ShownTypes
  <2> QED
    BY <2>4, <2>5 DEF ShownTypes
<1>5. ASSUME NEW f \in Fetches, NEW g \in Groups, OpenPage(f, g) PROVE ShownTypes'
  BY <1>5 DEF OpenPage, fetchGroupById, ShownTypes, listVars
<1>6. ASSUME NEW f \in Fetches, TimerFires(f) PROVE ShownTypes'
  BY <1>6 DEF TimerFires, fetchGroupById, ShownTypes, listVars, PagesTyped
<1>7. ASSUME NEW g \in Groups, LeavesPage(g) PROVE ShownTypes'
  BY <1>0, <1>7 DEF LeavesPage, ShownTypes, listVars
<1>8. ASSUME NEW what, NEW g \in Groups, EventComes(what, g) PROVE ShownTypes'
  <2>1. CASE removeGroupLocally(g)
    BY <1>8, <2>1, RemovedLocally DEF EventComes
  <2>2. CASE UNCHANGED <<listVars, currentGroup>>
    BY <1>1, <1>8, <2>2 DEF EventComes, listVars
  <2> QED
    BY <1>8, <2>1, <2>2 DEF EventComes
<1>9. ASSUME NEW f \in Fetches, ShowGroup(f) PROVE ShownTypes'
  <2>1. fetch[f].id \in Groups
    BY <1>9, FetchOf DEF ShowGroup, PageKinds
  <2>2. currentGroup'.id \in Groups \cup {NoGroup}
    BY <1>9, <2>1 DEF ShowGroup, ShownTypes
  <2> QED
    BY <1>9, <2>2 DEF ShowGroup, ShownTypes, listVars
<1>10. ASSUME NEW f \in Fetches, DropGroup(f) PROVE ShownTypes'
  <2>1. fetch[f].id \in Groups
    BY <1>10, FetchOf DEF DropGroup, PageKinds
  <2>2. CASE removeGroupLocally(fetch[f].id)
    BY <1>10, <2>1, <2>2, RemovedLocally DEF DropGroup
  <2>3. CASE UNCHANGED <<listVars, currentGroup>>
    BY <1>1, <1>10, <2>3 DEF DropGroup, listVars
  <2> QED
    BY <1>10, <2>2, <2>3 DEF DropGroup
<1>11. CASE \/ \E u \in Users : SignIn(u) \/ \E g \in Groups : MemberRemoved(u, g)
            \/ \E f \in Fetches : fetchGroups(f) \/ ListGroups(f) \/ ReadGroup(f) \/ FetchFails(f)
            \/ \E g \in Groups : BalanceExpires(g) \/ GroupChanges(g) \/ GroupDeleted(g)
            \/ ClosePage
  BY <1>1, <1>11 DEF SignIn, MemberRemoved, fetchGroups, ListGroups, ReadGroup, FetchFails, BalanceExpires,
     GroupChanges, GroupDeleted, ClosePage, listVars, pageVars
<1> QED
  BY <1>2, <1>3, <1>4, <1>5, <1>6, <1>7, <1>8, <1>9, <1>10, <1>11
     DEF GroupListNext, GroupPageNext, Accounts, leaveGroup, deleteGroup

LEMMA NewsAreFew ==
    ASSUME news \in [Groups -> 0..MaxNews], GroupListNext \/ GroupPageNext
    PROVE  news' \in [Groups -> 0..MaxNews]
<1>1. ASSUME NEW g \in Groups, news[g] < MaxNews, news' = [news EXCEPT ![g] = @ + 1]
      PROVE  news' \in [Groups -> 0..MaxNews]
  BY <1>1, GroupPagesAssumption
<1>2. CASE \E g \in Groups : GroupChanges(g) \/ \E u \in Users : MemberRemoved(u, g)
  BY <1>1, <1>2 DEF GroupChanges, MemberRemoved
<1>3. CASE UNCHANGED news
  BY <1>3
<1>4. CASE GroupListNext
  BY <1>2, <1>3, <1>4
     DEF GroupListNext, Accounts, SignIn, SignOut, BalanceExpires, fetchGroups, ListGroups, ShowGroups,
         ShowBalances, FetchFails, serverVars
<1>5. CASE GroupPageNext
  BY <1>2, <1>3, <1>5
     DEF GroupPageNext, Accounts, SignIn, SignOut, ClosePage, GroupDeleted, leaveGroup, deleteGroup, LeavesPage,
         EventComes, OpenPage, TimerFires, ReadGroup, ShowGroup, DropGroup, FetchFails, serverVars
<1> QED
  BY <1>4, <1>5

LEMMA PagesRestStays ==
    GroupPagesInv /\ PagesRest /\ [GroupListNext \/ GroupPageNext]_groupPagesVars => PagesRest'
<1> SUFFICES ASSUME GroupPagesInv, PagesRest, [GroupListNext \/ GroupPageNext]_groupPagesVars
             PROVE  PagesRest'
  OBVIOUS
<1>1. CASE UNCHANGED groupPagesVars
  BY <1>1 DEF groupPagesVars, PagesRest
<1>2. CASE GroupListNext \/ GroupPageNext
  <2>1. ShownTypes' /\ news' \in [Groups -> 0..MaxNews]
    BY <1>2, WhatIsShownStays, NewsAreFew DEF GroupPagesInv, PagesRest, ShownTypes
  <2> QED
    BY <2>1 DEF PagesRest, ShownTypes
<1> QED
  BY <1>1, <1>2

LEMMA PagesTypes == GroupPagesInv /\ PagesRest => GroupPagesTypeOK
<1> SUFFICES ASSUME GroupPagesInv, PagesRest PROVE GroupPagesTypeOK
  OBVIOUS
<1>1. event \subseteq {"changed", "deleted"} \X Groups
  BY DEF GroupPagesInv, PagesTyped
<1> QED
  BY <1>1 DEF GroupPagesInv, PagesTyped, PagesRest, GroupPagesTypeOK

\* What CacheInv does not say of the types.
CacheRest ==
    /\ sheets \in [GroupIds -> 0..MaxSheets] /\ askedGroup \in GroupIds \cup {NoGroupId}
    /\ excused \subseteq GroupIds

LEMMA CacheRestStart == GroupCacheInit => CacheRest
<1> SUFFICES ASSUME GroupCacheInit PROVE CacheRest
  OBVIOUS
<1>1. 0 \in 0..MaxSheets
  BY GroupCacheAssumption
<1> QED
  BY <1>1 DEF GroupCacheInit, CacheRest

LEMMA SheetsAreFew ==
    ASSUME CacheTyped, CacheRest, \A j \in Jobs : InStep(job[j]), GroupCacheNext
    PROVE  sheets' \in [GroupIds -> 0..MaxSheets]
<1>1. ASSUME NEW g \in GroupIds, sheets[g] < MaxSheets, sheets' = [sheets EXCEPT ![g] = @ + 1]
      PROVE  sheets' \in [GroupIds -> 0..MaxSheets]
  BY <1>1, GroupCacheAssumption DEF CacheRest
<1>2. CASE UNCHANGED sheets
  BY <1>2 DEF CacheRest
<1>3. CASE \E g \in GroupIds : MateEdits(g)
  BY <1>1, <1>3 DEF MateEdits
<1>4. ASSUME NEW j \in Jobs, StoresExpenses(j) \/ EditFails(j) PROVE sheets' \in [GroupIds -> 0..MaxSheets]
  <2>1. job[j].id \in GroupIds
    BY <1>4 DEF StoresExpenses, EditFails, At, InStep, CacheTyped
  <2> QED
    BY <1>1, <1>2, <1>4, <2>1 DEF StoresExpenses, EditFails
<1>5. ASSUME NEW j \in Jobs,
             \/ \E g \in GroupIds : OpensGroup(j, g) \/ EditsExpenses(j, g) \/ EditsTheRest(j, g)
             \/ FetchesAgain(j) \/ ReadsGroup(j) \/ ShowsGroup(j)
             \/ fetchAllGroupExpenses(j) \/ ReadsNext(j) \/ ReplacesCache(j)
      PROVE  UNCHANGED sheets
  BY <1>5 DEF OpensGroup, EditsExpenses, EditsTheRest, FetchesAgain, ReadsGroup, ShowsGroup,
     fetchAllGroupExpenses, ReadsNext, ReplacesCache
<1> QED
  BY <1>2, <1>3, <1>4, <1>5 DEF GroupCacheNext

LEMMA AskedAndExcused ==
    ASSUME CacheTyped, CacheRest, \A j \in Jobs : InStep(job[j]), GroupCacheNext
    PROVE  askedGroup' \in GroupIds \cup {NoGroupId} /\ excused' \subseteq GroupIds
<1>1. \A j \in Jobs : /\ job[j].id \in GroupIds \cup {NoGroupId}
                      /\ job[j].kind = "edit" => job[j].id \in GroupIds
  BY DEF CacheTyped, JobRecords, InStep
<1>2. CASE UNCHANGED <<askedGroup, excused>>
  BY <1>2 DEF CacheRest
<1>3. ASSUME NEW j \in Jobs, NEW g \in GroupIds,
             OpensGroup(j, g) \/ EditsExpenses(j, g) \/ EditsTheRest(j, g)
      PROVE  askedGroup' \in GroupIds \cup {NoGroupId} /\ excused' \subseteq GroupIds
  BY <1>3 DEF OpensGroup, EditsExpenses, EditsTheRest, CacheRest
<1>4. ASSUME NEW j \in Jobs, FetchesAgain(j)
      PROVE  askedGroup' \in GroupIds \cup {NoGroupId} /\ excused' \subseteq GroupIds
  BY <1>1, <1>4 DEF FetchesAgain, CacheRest
<1>5. ASSUME NEW j \in Jobs, ShowsGroup(j)
      PROVE  askedGroup' \in GroupIds \cup {NoGroupId} /\ excused' \subseteq GroupIds
  <2>1. askedGroup' = askedGroup
    BY <1>5 DEF ShowsGroup
  <2>2. excused' \in {excused, excused \cup {job[j].id}} /\ (excused' = excused \/ job[j].kind = "edit")
    BY <1>5 DEF ShowsGroup
  <2> QED
    BY <1>1, <2>1, <2>2 DEF CacheRest
<1>6. ASSUME NEW j \in Jobs, fetchAllGroupExpenses(j)
      PROVE  askedGroup' \in GroupIds \cup {NoGroupId} /\ excused' \subseteq GroupIds
  BY <1>1, <1>6 DEF fetchAllGroupExpenses, CacheRest
<1>7. CASE \E g \in GroupIds : MateEdits(g)
  BY <1>2, <1>7 DEF MateEdits
<1>8. ASSUME NEW j \in Jobs,
             \/ StoresExpenses(j) \/ EditFails(j) \/ ReadsGroup(j) \/ ReadsNext(j) \/ ReplacesCache(j)
      PROVE  UNCHANGED <<askedGroup, excused>>
  BY <1>8 DEF StoresExpenses, EditFails, ReadsGroup, ReadsNext, ReplacesCache
<1> QED
  BY <1>2, <1>3, <1>4, <1>5, <1>6, <1>7, <1>8 DEF GroupCacheNext

LEMMA CacheRestStays == CacheInv /\ CacheRest /\ [GroupCacheNext]_cacheVars => CacheRest'
<1> SUFFICES ASSUME CacheInv, CacheRest, [GroupCacheNext]_cacheVars PROVE CacheRest'
  OBVIOUS
<1>1. CASE UNCHANGED cacheVars
  BY <1>1 DEF cacheVars, CacheRest
<1>2. CASE GroupCacheNext
  BY <1>2, SheetsAreFew, AskedAndExcused DEF CacheInv, CacheRest
<1> QED
  BY <1>1, <1>2

LEMMA CacheTypes == CacheInv /\ CacheRest => GroupCacheTypeOK
<1> SUFFICES ASSUME CacheInv, CacheRest PROVE GroupCacheTypeOK
  OBVIOUS
<1>1. mineAt \in [GroupIds -> 0..MaxSheets]
  <2>1. \A g \in GroupIds : mineAt[g] \in 0..MaxSheets
    BY GroupCacheAssumption DEF CacheInv, CacheTyped, CacheRest
  <2> QED
    BY <2>1 DEF CacheInv, CacheTyped
<1>2. DOMAIN groupExpensesCache \subseteq GroupIds
  BY ReadingsAre DEF CacheInv, CacheTyped
<1> QED
  BY <1>1, <1>2 DEF CacheInv, CacheTyped, CacheRest, GroupCacheTypeOK

\* What PreferencesInv does not say of the types.
PreferencesRest ==
    /\ endpoints \subseteq Owners \X Machines \X (1..MaxSettings)
    /\ opened \in 0..MaxSettings /\ Len(request) <= MaxPuts

LEMMA PreferencesRestStart == PreferencesInit => PreferencesRest
  BY PreferencesAssumption DEF PreferencesInit, PreferencesRest

LEMMA PreferencesRestStays ==
    PreferencesInv /\ PreferencesRest /\ [SettingsNext \/ PushNext]_preferencesVars => PreferencesRest'
<1> SUFFICES ASSUME PreferencesInv, PreferencesRest, [SettingsNext \/ PushNext]_preferencesVars
             PROVE  PreferencesRest'
  OBVIOUS
<1>0. Len(request) \in Nat /\ request \in Seq(Requests)
  BY DEF PreferencesInv
<1>1. CASE UNCHANGED <<endpoints, opened, request>>
  BY <1>1 DEF PreferencesRest
<1>2. ASSUME NEW b \in Machines, OpenSettings(b) PROVE PreferencesRest'
  BY <1>2, PreferencesAssumption DEF OpenSettings, PreferencesRest
<1>3. ASSUME NEW b \in Machines, EnablePush(b) PROVE PreferencesRest'
  <2>1. /\ machine[b].account \in Owners \cup {Nobody_}
        /\ machine[b].endpoint \in Nat /\ machine[b].issued \in Nat
    BY DEF PreferencesInv, BrowserStates
  <2>2. machine[b].account \in Owners /\ subscribeToPush(b) \in 1..MaxSettings
    BY <1>3, <2>1, PreferencesAssumption DEF EnablePush, subscribeToPush
  <2>3. endpoints' \subseteq endpoints \cup {<<machine[b].account, b, subscribeToPush(b)>>}
    BY <1>3 DEF EnablePush, subscribe
  <2>4. <<machine[b].account, b, subscribeToPush(b)>> \in Owners \X Machines \X (1..MaxSettings)
    BY <2>2
  <2>5. opened' = opened /\ request' = request
    BY <1>3 DEF EnablePush
  <2> QED
    BY <2>3, <2>4, <2>5 DEF PreferencesRest
<1>4. ASSUME NEW u, NEW kind_, NEW night, PushSent(u, kind_, night) PROVE PreferencesRest'
  <2>1. endpoints' \subseteq endpoints /\ opened' = opened /\ request' = request
    BY <1>4 DEF PushSent, removeSubscriptionsByEndpoint
  <2> QED
    BY <2>1 DEF PreferencesRest
<1>5. ASSUME NEW b \in Machines, handleSave(b) PROVE PreferencesRest'
  <2>1. Len(request) < MaxPuts /\ Len(request') = Len(request) + 1 /\ UNCHANGED <<endpoints, opened>>
    BY <1>0, <1>5 DEF handleSave
  <2> QED
    BY <1>0, <2>1, PreferencesAssumption DEF PreferencesRest
<1>6. ASSUME NEW n \in DOMAIN request, PutPreferences(n) PROVE PreferencesRest'
  <2>1. Len(request') = Len(request) /\ UNCHANGED <<endpoints, opened>>
    BY <1>0, <1>6 DEF PutPreferences
  <2> QED
    BY <2>1 DEF PreferencesRest
<1>7. CASE UNCHANGED preferencesVars
  BY <1>1, <1>7 DEF preferencesVars
<1>8. CASE SettingsNext
  BY <1>1, <1>2, <1>5, <1>6, <1>8
     DEF SettingsNext, Entering, EnterAccount, LeaveAccount, CloseSettings, Edit, SaveAnswered
<1>9. CASE PushNext
  BY <1>1, <1>3, <1>4, <1>9 DEF PushNext, Entering, EnterAccount, LeaveAccount, Expires
<1> QED
  BY <1>7, <1>8, <1>9

LEMMA PreferencesTypes == PreferencesInv /\ PreferencesRest => PreferencesTypeOK
<1> SUFFICES ASSUME PreferencesInv, PreferencesRest PROVE PreferencesTypeOK
  OBVIOUS
<1>1. ASSUME NEW b \in Machines
      PROVE  machine[b].page \in [page : {"closed", "open", "saved", "error"}, shown : Settings,
                                  saving : BOOLEAN, sent : 0..Len(request)]
  <2>1. machine[b].page \in PageRecords /\ machine[b].page.sent <= Len(request) /\ Len(request) \in Nat
    BY DEF PreferencesInv, BrowserStates, BrowserFits
  <2>2. machine[b].page.sent \in 0..Len(request)
    BY <2>1 DEF PageRecords
  <2> QED
    BY <2>1, <2>2 DEF PageRecords
<1> QED
  BY <1>1 DEF PreferencesInv, PreferencesRest, PreferencesTypeOK, Requests

\* What BudgetsInv does not say of the types: no expense is of a later day.
DayTables == [Purchases -> 0..LastDay]
DaysOfSaves == \A s \in Saves : save[s].blob.days \in DayTables /\ save[s].before.days \in DayTables
BudgetsRest ==
    /\ today \in Today /\ sent \in 0..MaxSaves
    /\ blob.days \in DayTables /\ stored.days \in DayTables /\ DaysOfSaves

LEMMA NoSaveDays == NoSave.blob.days \in DayTables /\ NoSave.before.days \in DayTables
<1>1. 0 \in 0..LastDay
  BY BudgetsAssumption
<1>2. [p \in Purchases |-> Unspent] \in DayTables
  BY <1>1 DEF DayTables, Unspent
<1> QED
  BY <1>2 DEF NoSave, Blob

LEMMA BudgetsRestStart == BudgetsInit => BudgetsRest
<1> SUFFICES ASSUME BudgetsInit PROVE BudgetsRest
  OBVIOUS
<1>1. today \in Today /\ sent \in 0..MaxSaves
  BY BudgetsAssumption DEF BudgetsInit, Today
<1>2. blob = NoSave.blob /\ stored = blob /\ \A s \in Saves : save[s] = NoSave
  BY DEF BudgetsInit
<1> QED
  BY <1>1, <1>2, NoSaveDays DEF BudgetsRest, DaysOfSaves

LEMMA BlobFields ==
    ASSUME NEW days, NEW start, NEW carry PROVE Blob(days, start, carry).days = days
  BY DEF Blob

LEMMA RollingKeepsDays == ASSUME NEW b PROVE RolledOver(b).days = b.days
<1>1. \A left : Advanced(b, left).days = b.days
  BY BlobFields DEF Advanced
<1> QED
  BY <1>1, Zenon DEF RolledOver

LEMMA EndingKeepsDays ==
    ASSUME BudgetsTyped, DaysOfSaves, NEW s \in Saves, NEW landed_, Ended(s, landed_)
    PROVE  DaysOfSaves'
<1> SUFFICES ASSUME NEW t \in Saves
             PROVE  save'[t].blob.days \in DayTables /\ save'[t].before.days \in DayTables
  BY DEF DaysOfSaves
<1>1. save[t] \in SaveStates
  BY DEF BudgetsTyped
<1>2. CASE t = s
  BY <1>2, NoSaveDays DEF Ended
<1>3. CASE t # s
  <2>1. save'[t].blob = save[t].blob /\ save'[t].before = save[t].before
    BY <1>1, <1>3 DEF Ended, SaveStates
  <2> QED
    BY <2>1 DEF DaysOfSaves
<1> QED
  BY <1>2, <1>3

LEMMA PublishingKeepsDays ==
    ASSUME BudgetsTyped, BudgetsRest, NEW s \in Saves, NEW op, NEW days \in DayTables, Publish(s, op, days)
    PROVE  BudgetsRest'
<1> DEFINE b == Blob(days, blob.start, blob.carry)
           entry == [op |-> op, blob |-> b, before |-> blob, prev |-> level,
                     after |-> InFlight, late |-> FALSE]
<1>1. b.days = days
  BY BlobFields
<1>2. entry.blob = b /\ entry.before = blob
  OBVIOUS
<1>3. /\ sent < MaxSaves /\ sent' = sent + 1 /\ blob' = b /\ save' = [save EXCEPT ![s] = entry]
      /\ UNCHANGED <<today, stored>>
  BY DEF Publish
<1> HIDE DEF b, entry
<1>4. sent' \in 0..MaxSaves
  BY <1>3, BudgetsAssumption DEF BudgetsRest
<1>5. DaysOfSaves'
  BY <1>1, <1>2, <1>3 DEF BudgetsRest, DaysOfSaves, BudgetsTyped
<1> QED
  BY <1>1, <1>3, <1>4, <1>5 DEF BudgetsRest

LEMMA SavingKeepsDays ==
    ASSUME BudgetsTyped, BudgetsRest, NEW s \in Saves, SaveSucceeds(s) PROVE BudgetsRest'
<1>1. save[s].blob.days \in DayTables
  BY DEF BudgetsRest, DaysOfSaves
<1>2. Landed(s).days \in DayTables
  <2>1. ASSUME NEW fresh, NEW local, fresh.days \in DayTables, local.days \in DayTables
        PROVE  Merged(fresh, local).days \in DayTables
    BY <2>1, BlobFields DEF Merged, DayTables
  <2> QED
    BY <1>1, <2>1 DEF Landed, BudgetsRest
<1>3. /\ stored' = Landed(s) /\ Ended(s, TRUE) /\ blob' = RolledOver(Landed(s))
      /\ UNCHANGED <<today, sent>>
  BY DEF SaveSucceeds, Show
<1>4. DaysOfSaves'
  BY <1>3, EndingKeepsDays DEF BudgetsRest
<1>5. blob'.days \in DayTables /\ stored'.days \in DayTables
  BY <1>2, <1>3, RollingKeepsDays
<1> QED
  BY <1>3, <1>4, <1>5 DEF BudgetsRest

LEMMA BudgetsRestStays == BudgetsInv /\ BudgetsRest /\ [BudgetsNext]_budgetsVars => BudgetsRest'
<1> SUFFICES ASSUME BudgetsTyped, BudgetsRest, [BudgetsNext]_budgetsVars PROVE BudgetsRest'
  BY DEF BudgetsInv
<1>1. CASE UNCHANGED budgetsVars
  BY <1>1 DEF budgetsVars, BudgetsRest, DaysOfSaves
<1>2. CASE NextDay
  <2>1. today' \in Today /\ UNCHANGED <<sent, blob, stored, save>>
    BY <1>2, BudgetsAssumption DEF NextDay, Today, BudgetsRest
  <2> QED
    BY <2>1 DEF BudgetsRest, DaysOfSaves
<1>3. CASE FetchPersonalBlob
  <2>1. blob' = RolledOver(stored) /\ UNCHANGED <<today, sent, stored, save>>
    BY <1>3 DEF FetchPersonalBlob, Show
  <2> QED
    BY <2>1, RollingKeepsDays DEF BudgetsRest, DaysOfSaves
<1>4. ASSUME NEW s \in Saves, NEW p \in Purchases, addExpense(s, p) PROVE BudgetsRest'
  <2>1. [blob.days EXCEPT ![p] = today] \in DayTables
    BY BudgetsAssumption DEF BudgetsRest, DayTables, Today
  <2> QED
    BY <1>4, <2>1, PublishingKeepsDays DEF addExpense
<1>5. ASSUME NEW s \in Saves, NEW p \in Purchases, deleteExpense(s, p) PROVE BudgetsRest'
  <2>1. [blob.days EXCEPT ![p] = Unspent] \in DayTables
    BY BudgetsAssumption DEF BudgetsRest, DayTables, Unspent
  <2> QED
    BY <1>5, <2>1, PublishingKeepsDays DEF deleteExpense
<1>6. ASSUME NEW s \in Saves, SaveSucceeds(s) PROVE BudgetsRest'
  BY <1>6, SavingKeepsDays
<1>7. ASSUME NEW s \in Saves, SaveFails(s) PROVE BudgetsRest'
  <2>1. blob' = save[s].before /\ Ended(s, FALSE) /\ UNCHANGED <<today, sent, stored>>
    BY <1>7 DEF SaveFails
  <2>2. DaysOfSaves'
    BY <2>1, EndingKeepsDays DEF BudgetsRest
  <2> QED
    BY <2>1, <2>2 DEF BudgetsRest, DaysOfSaves
<1> QED
  BY <1>1, <1>2, <1>3, <1>4, <1>5, <1>6, <1>7 DEF BudgetsNext

LEMMA BudgetsTypes == BudgetsInv /\ BudgetsRest => BudgetsTypeOK
<1> SUFFICES ASSUME BudgetsInv, BudgetsRest PROVE BudgetsTypeOK
  OBVIOUS
<1>1. blob.carry \in Nat /\ stored.carry \in Nat
  BY DEF BudgetsInv, EarnedEverywhere, EarnedIn, BudgetBlobs
<1>2. \A s \in Saves : save[s].op \in {"none", "add", "delete"}
  BY DEF BudgetsInv, BudgetsTyped, SaveStates
<1> QED
  BY <1>1, <1>2 DEF BudgetsInv, BudgetsTyped, BudgetsRest, DayTables, BudgetsTypeOK

\* What ServicesInv does not say of the types.
ServicesTypes ==
    /\ part = "restrictions" => RestrictionsTypeOK
    /\ part = "limits" => LimitsKinds
    /\ part = "inbox" => InboxRest
    /\ part = "budgets" => BudgetsRest
    /\ part \in {"grouplist", "grouppage"} => PagesRest
    /\ part \in {"settings", "push"} => PreferencesRest
    /\ part = "groupcache" => CacheRest

LEMMA ServicesTypesStart == Init => ServicesTypes
  BY RestrictionsTypesStart, LimitsKindsStart, RowTypesStart, ListFitsStart,
     BudgetsRestStart, PagesRestStart, PreferencesRestStart, CacheRestStart
     DEF Init, ServicesTypes, InboxRest

LEMMA ServicesTypesSteps == ServicesInv /\ ServicesTypes /\ [Next]_vars => ServicesTypes'
<1> SUFFICES ASSUME ServicesInv, ServicesTypes, [Next]_vars PROVE ServicesTypes'
  OBVIOUS
<1>1. part' = part
  BY PartRuns
<1>2. part = "restrictions" => RestrictionsTypeOK'
  BY PartRuns, RestrictionsTypes DEF ServicesTypes
<1>3. part = "limits" => LimitsKinds'
  BY PartRuns, LimitsKindsStay DEF ServicesTypes
<1>5. part = "inbox" => InboxRest'
  BY PartRuns, RowTypes, ListFitsStays DEF ServicesInv, ServicesTypes, InboxRest
<1>6. part = "budgets" => BudgetsRest'
  BY PartRuns, BudgetsRestStays DEF ServicesInv, ServicesTypes
<1>7. part \in {"grouplist", "grouppage"} => PagesRest'
  BY PartRuns, PagesRestStays DEF ServicesInv, ServicesTypes
<1>8. part \in {"settings", "push"} => PreferencesRest'
  BY PartRuns, PreferencesRestStays DEF ServicesInv, ServicesTypes
<1>9. part = "groupcache" => CacheRest'
  BY PartRuns, CacheRestStays DEF ServicesInv, ServicesTypes
<1> QED
  BY <1>1, <1>2, <1>3, <1>5, <1>6, <1>7, <1>8, <1>9 DEF ServicesTypes

\* For any number of requests, tabs, members and devices: the variables of every part
\* keep their types and their bounds.  The limiter admits no more than it counted, the
\* badge is a number, no flush takes more than a batch, no expense is of a day to come,
\* a hook tries no more often than it may, and no reading is of a later edit than there
\* is (rateLimiter.ts, notificationStore.ts, logger.ts, budgetCalculator.ts,
\* useWebSocket.ts, groupExpenseStore.ts).
THEOREM TypesAreKept == Spec => []TypeOK
<1>1. ServicesInv /\ ServicesTypes => TypeOK
  <2> SUFFICES ASSUME ServicesInv, ServicesTypes PROVE TypeOK
    OBVIOUS
  <2>1. /\ part = "restrictions" => RestrictionsTypeOK
        /\ part = "limits" => RateLimitsTypeOK
        /\ part = "rooms" => RoomsTypeOK
        /\ part = "inbox" => InboxTypeOK
    BY LimitsTypes, InboxTypes DEF ServicesInv, ServicesTypes, RoomsInv
  <2>2. /\ part = "diagnostics" => DiagnosticsTypeOK
        /\ part \in {"config", "alerts", "seats"} => AdminTypeOK
        /\ part = "log" => LogTypeOK
        /\ part = "reports" => ReportsTypeOK
    BY DiagnosticsTypes, LogTypes, ReportsTypes
       DEF ServicesInv, ConfigInv, AlertsInv, SeatsInv, AdminTyped
  <2>3. /\ part = "budgets" => BudgetsTypeOK
        /\ part \in {"grouplist", "grouppage"} => GroupPagesTypeOK
        /\ part \in {"settings", "push"} => PreferencesTypeOK
        /\ part = "groupcache" => GroupCacheTypeOK
    BY BudgetsTypes, PagesTypes, PreferencesTypes, CacheTypes DEF ServicesInv, ServicesTypes
  <2> QED
    BY <2>1, <2>2, <2>3 DEF TypeOK
<1> QED
  BY <1>1, ServicesStart, ServicesSteps, ServicesTypesStart, ServicesTypesSteps, PTL DEF Spec
=============================================================================
