------------------------------- MODULE Splits -------------------------------
(***************************************************************************)
(* How an expense is divided: the engine of the shared package             *)
(* (engine/splitCalculator.ts), the form that records a group expense (web *)
(* pages/groups/GroupExpenseForm.tsx, ItemizedList.tsx) and the check that *)
(* stands between both and the blob (stores/groupExpenseStore.ts).         *)
(* Amounts are whole cents and ratios whole parts of Whole: the code keeps *)
(* floats and rounds them to cents.  Members are numbered in the order in  *)
(* which the code goes through them.                                       *)
(***************************************************************************)
EXTENDS Integers, Sequences, FiniteSetsExt

CONSTANTS
    Count,     \* members of the group
    Whole,     \* a ratio of one
    Totals,    \* amounts tried
    Ratios,    \* ratios tried, in parts of Whole
    Percents   \* percentages tried, in parts of Whole

ASSUME SplitsAssumption ==
    /\ Count \in Nat \ {0} /\ Whole \in Nat \ {0}
    /\ Totals \subseteq Nat /\ Ratios \subseteq Nat /\ Percents \subseteq Nat

VARIABLE split  \* the last division: its total, the weights and the shares

Sharers == 1..Count
SumOver(f) == MapThenSumSet(LAMBDA i : f[i], DOMAIN f)
Magnitude(n) == IF n < 0 THEN -n ELSE n

\* Math.round(x * 100) / 100 for x = num / den cents: halves go up.
RoundCents(num, den) == (2 * num + den) \div (2 * den)

(***************************************************************************)
(* splitCalculator.ts.  Every mode comes down to weights w out of W.       *)
(***************************************************************************)
\* Fault: the last member's share is rounded like the others.
LastRounded(total, w, W, others) == RoundCents(total * w, W)

\* The last member takes what the others leave.
LastShare(total, w, W, others) == total - SumOver(others)

AllocateByWeights(total, w, W) ==
    LET n == Len(w)
        others == [i \in 1..(n - 1) |-> RoundCents(total * w[i], W)]
    IN  [i \in 1..n |->
            IF i < n THEN others[i]
            ELSE Max({0, LastShare(total, w[n], W, others)})]

\* The loop after the allocation: as many members as there are cents too many,
\* from the last, give up one each, if they have one.  The others' shares may
\* exceed the total only when the last has nothing, and then it is the first to
\* be asked.  When one cent is at stake the comparison of floats may go either
\* way, and makes no difference.
CorrectShares(total, shares) ==
    LET n == Len(shares)
        diff == total - SumOver(shares)
    IN  [i \in 1..n |->
            IF n - i < Magnitude(diff) THEN Max({0, shares[i] + (IF diff > 0 THEN 1 ELSE -1)})
            ELSE shares[i]]

\* buildEqualRatios: members without a ratio get the average one (0 stands for
\* all of them having none); ratios that are off by more than a thousandth are
\* normalised, others are taken as they are.
RatioWeights(given, ratios) ==
    LET total == SumOver([i \in given |-> ratios[i]])
        held == Cardinality(given)
    IN  IF total <= 0 THEN [w |-> [i \in Sharers |-> 1], of |-> Count]
        ELSE IF given # Sharers
        THEN [w |-> [i \in Sharers |-> IF i \in given THEN ratios[i] * held ELSE total],
              of |-> total * held + total * (Count - held)]
        ELSE [w |-> ratios,
              of |-> IF 1000 * Magnitude(total - Whole) > Whole THEN total ELSE Whole]

calculateRatioSplits(total, given, ratios) ==
    LET rw == RatioWeights(given, ratios)
    IN  CorrectShares(total, AllocateByWeights(total, rw.w, rw.of))

\* Amounts below zero count as none; without any amount the split is equal.
calculateFixedSplits(total, amounts) ==
    LET safe == [i \in Sharers |-> Max({0, amounts[i]})]
    IN  IF SumOver(safe) = 0 THEN calculateRatioSplits(total, {}, <<>>)
        ELSE AllocateByWeights(total, safe, SumOver(safe))

\* An item is [amount, among, parts]: what each of its participants bears, as
\* parts of the whole.  An item without participants, or whose parts are all
\* zero, is everybody's.
ItemParts(item) ==
    LET among == IF item.among = {} THEN Sharers ELSE item.among
        parts == [i \in Sharers |-> IF i \in among THEN item.parts[i] ELSE 0]
    IN  IF SumOver(parts) > 0 THEN parts
        ELSE [i \in Sharers |-> IF i \in among THEN 1 ELSE 0]

\* Two items, brought to a common denominator.
calculateItemizedSplits(total, a, b) ==
    LET pa == ItemParts(a)
        pb == ItemParts(b)
        w == [i \in Sharers |-> a.amount * pa[i] * SumOver(pb) + b.amount * pb[i] * SumOver(pa)]
        W == (a.amount + b.amount) * SumOver(pa) * SumOver(pb)
    IN  IF a.amount + b.amount = 0 THEN calculateRatioSplits(total, {}, <<>>)
        ELSE AllocateByWeights(total, w, W)

(***************************************************************************)
(* GroupExpenseForm.tsx.  An item is [amount, mode, among, parts]; parts   *)
(* are cents in mode "exact", parts of Whole in mode "percentage".         *)
(***************************************************************************)
\* The members in the order of the participants of an item.
Place(i, among) == Cardinality({j \in among : j < i})

\* percentageSplitDefaultValues: tenths of a percent are parts of a Whole of a
\* thousand; the last participant takes what rounding down left.
percentageSplitDefaultValues(among) ==
    LET n == Cardinality(among)
        base == Whole \div n
    IN  [i \in Sharers |-> IF i \notin among THEN 0
                           ELSE IF Place(i, among) = n - 1 THEN Whole - base * (n - 1) ELSE base]

\* What the item asks of a participant, and of how much.
ItemWeights(item) == [i \in item.among |-> IF item.mode = "equal" THEN 1 ELSE item.parts[i]]

\* A difference of one cent is let through or not as the floats round.
Tolerated(diff) == Magnitude(diff) <= 1

\* validateItem.
validateItem(item) ==
    LET weights == ItemWeights(item) IN
    /\ item.amount > 0 /\ item.among # {}
    /\ \A i \in item.among : weights[i] > 0
    /\ item.mode = "exact" => Tolerated(SumOver(weights) - item.amount)
    /\ item.mode = "percentage" => SumOver(weights) = Whole

\* Fault: what rounding left over is not handed out.
NoRemainder(diff, i, among) == 0

\* The i-th of the participants takes its turn at the cents that are left over.
Remainder(diff, i, among) ==
    LET n == Cardinality(among)
        turns == (Magnitude(diff) \div n) + (IF Place(i, among) < Magnitude(diff) % n THEN 1 ELSE 0)
    IN  IF diff > 0 THEN turns ELSE -turns

\* roundToCentsWithRemainder of shares[i] / den cents, which add up to total.
roundToCentsWithRemainder(shares, den, total) ==
    LET among == DOMAIN shares
        rounded == [i \in among |-> RoundCents(shares[i], den)]
        diff == total - SumOver(rounded)
    IN  [i \in among |-> rounded[i] + Remainder(diff, i, among)]

ItemShares(item) ==
    LET weights == ItemWeights(item)
        W == SumOver(weights)
    IN  IF item.mode = "exact" THEN weights
        ELSE roundToCentsWithRemainder([i \in item.among |-> item.amount * weights[i]], W, item.amount)

Borne(shares, i) == IF i \in DOMAIN shares THEN shares[i] ELSE 0

\* handleSubmit: the shares of two items, scaled to the total when exact amounts
\* left a difference of more than a cent, and what that leaves handed out.
SubmittedShares(a, b) ==
    LET total == a.amount + b.amount
        sa == ItemShares(a)
        sb == ItemShares(b)
        sum == [i \in a.among \cup b.among |-> Borne(sa, i) + Borne(sb, i)]
        all == SumOver(sum)
    IN  IF Tolerated(all - total) THEN sum
        ELSE roundToCentsWithRemainder([i \in DOMAIN sum |-> sum[i] * total], all, total)

(***************************************************************************)
(* One division, of any of the inputs.                                     *)
(***************************************************************************)
Divided(by, total, exact, of, shares) ==
    split' = [by |-> by, total |-> total, exact |-> exact, of |-> of, shares |-> shares]

SplitsInit == split = [by |-> "none", total |-> 0, exact |-> <<>>, of |-> 1, shares |-> <<>>]

SplitByRatio ==
    split.by = "none" /\ \E total \in Totals, given \in SUBSET Sharers : \E ratios \in [given -> Ratios] :
        LET rw == RatioWeights(given, ratios) IN
        Divided("engine", total, rw.w, rw.of, calculateRatioSplits(total, given, ratios))

SplitByAmounts ==
    split.by = "none" /\ \E total \in Totals : \E amounts \in [Sharers -> Totals \cup {0}] :
        /\ SumOver(amounts) > 0
        /\ Divided("engine", total, amounts, SumOver(amounts), calculateFixedSplits(total, amounts))

EngineItems ==
    [amount : Totals, among : SUBSET Sharers,
     parts : {[i \in Sharers |-> 0], [i \in Sharers |-> 1], [i \in Sharers |-> i % 3]}]
FormItems ==
    {item \in [amount : Totals, among : SUBSET Sharers, mode : {"equal", "percentage", "exact"},
               parts : [Sharers -> Percents]] :
        /\ validateItem(item)
        /\ \A i \in Sharers : i \notin item.among \/ item.mode = "equal" => item.parts[i] = 0}
    \cup [amount : Totals, mode : {"percentage"}, among : {Sharers},
          parts : {percentageSplitDefaultValues(Sharers)}]

SplitByItems ==
    split.by = "none" /\ \E total \in Totals : \E a, b \in EngineItems :
        Divided("items", total, <<>>, 1, calculateItemizedSplits(total, a, b))

\* createGroupExpense refuses shares that do not add up to the amount.
SubmitExpense ==
    split.by = "none" /\ \E a, b \in FormItems :
        LET total == a.amount + b.amount
            shares == SubmittedShares(a, b)
        IN  Divided(IF Tolerated(SumOver(shares) - total) THEN "form" ELSE "refused",
                    total, <<>>, 1, shares)

SplitsNext == SplitByRatio \/ SplitByAmounts \/ SplitByItems \/ SubmitExpense
SplitsSpec == SplitsInit /\ [][SplitsNext]_split

\* The engine's shares add up to the cent when the ratios add up to one and the
\* last member bears enough to make up for the rounding of the others; it never
\* hands out less than the total, nor a negative share.
EngineSharesAddUp ==
    split.by \in {"engine", "items"} =>
        /\ \A i \in DOMAIN split.shares : split.shares[i] >= 0
        /\ SumOver(split.shares) >= split.total
        /\ split.by = "engine" /\ SumOver(split.exact) = split.of
           /\ 2 * split.total * split.exact[Count] >= (Count - 1) * split.of
           => SumOver(split.shares) = split.total

\* The form never submits shares that the store refuses, although it rounds each
\* item and then scales them all: whatever two valid items are, their shares add up
\* to the amount, to the cent or one cent off; and nobody is charged less than minus
\* one cent for an item (whoever comes first makes up for the rounding of the
\* others, even with nothing to give).
FormSharesAddUp ==
    /\ split.by # "refused"
    /\ split.by = "form" => \A i \in DOMAIN split.shares : split.shares[i] >= -2
=============================================================================
