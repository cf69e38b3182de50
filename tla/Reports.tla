------------------------------ MODULE Reports -------------------------------
(***************************************************************************)
(* The reports on a user's spending: the analytics page (web pages/        *)
(* AnalyticsPage.tsx, shared engine/analyticsCalculator.ts), the detector  *)
(* of unusual spending (engine/spendingDetector.ts) and the monthly recaps *)
(* (stores/analyticsStore.ts, pages/recaps/RecapsPage.tsx).  All of them   *)
(* cut the same expenses by day, month and category, each with boundaries  *)
(* of its own.  Days are numbered and months equally long; amounts are     *)
(* those of the default currency.                                          *)
(***************************************************************************)
EXTENDS Integers, FiniteSetsExt, Functions

CONSTANTS
    Buys,        \* expenses
    Categories,
    Prices,
    Present,      \* days 1..Present have passed
    MonthLength,
    Period,      \* days that the page looks back
    AlertDays,   \* days of a period of the detector
    Lookback     \* periods it compares with

ASSUME ReportsAssumption ==
    /\ Prices \subseteq Nat \ {0} /\ IsFiniteSet(Categories)
    /\ Present \in Nat /\ MonthLength \in Nat \ {0}
    /\ Period \in Nat \ {0} /\ AlertDays \in Nat \ {0} /\ Lookback \in Nat \ {0}

VARIABLE bought  \* the expenses entered so far

ReportDays == 1..Present
Buy == [day : ReportDays, category : Categories, price : Prices]

ReportsTypeOK ==
    /\ DOMAIN bought \subseteq Buys
    /\ \A x \in DOMAIN bought : bought[x] \in Buy

ReportsInit == bought = <<>>

EnterExpense(x, buy) ==
    /\ x \notin DOMAIN bought
    /\ bought' = [y \in DOMAIN bought \cup {x} |-> IF y = x THEN buy ELSE bought[y]]

ReportsNext == \E x \in Buys, buy \in Buy : EnterExpense(x, buy)

ReportsSpec == ReportsInit /\ [][ReportsNext]_bought

Price(x) == bought[x].price
Total(xs) == SumFunction([x \in xs |-> Price(x)])
On(days) == {x \in DOMAIN bought : bought[x].day \in days}
Of(xs, c) == {x \in xs : bought[x].category = c}
Largest(ns) == Max({0} \cup ns)

(***************************************************************************)
(* The recap of a month, and of several.                                   *)
(***************************************************************************)
MonthDays(m) == (m * MonthLength + 1)..((m + 1) * MonthLength)
Months == 0..((Present - 1) \div MonthLength)
Weekend(x) == bought[x].day % 7 \in {0, 6}

\* fetchRecap.
RecapOf(m) ==
    LET xs == On(MonthDays(m))
        top == [c \in Categories |-> Total(Of(xs, c))]
    IN  [totalSpent |-> Total(xs), expenseCount |-> Cardinality(xs), categories |-> top,
         weekendTotal |-> Total({x \in xs : Weekend(x)}),
         weekdayTotal |-> Total({x \in xs : ~Weekend(x)}),
         topCategory |-> Largest({top[c] : c \in Categories}),
         topSpendingDay |-> Largest({Total(On({d})) : d \in MonthDays(m)}),
         biggestExpense |-> Largest({Price(x) : x \in xs})]

Sum(recaps, ms, field) == SumFunction([m \in ms |-> recaps[m][field]])

aggregateRecaps(recaps, ms) ==
    LET cats == [c \in Categories |-> SumFunction([m \in ms |-> recaps[m].categories[c]])]
    IN  [totalSpent |-> Sum(recaps, ms, "totalSpent"),
         expenseCount |-> Sum(recaps, ms, "expenseCount"),
         categories |-> cats,
         weekendTotal |-> Sum(recaps, ms, "weekendTotal"),
         weekdayTotal |-> Sum(recaps, ms, "weekdayTotal"),
         topCategory |-> Largest({cats[c] : c \in Categories}),
         biggestExpense |-> Largest({recaps[m].biggestExpense : m \in ms})]

(***************************************************************************)
(* The page, on the last day: the period with both its ends, the period    *)
(* before, and the bars, one for each of as many days (of a week; a month  *)
(* has thirty, however long it is).                                        *)
(***************************************************************************)
periodRange == (Present - Period)..Present

\* Fault: the period before ends where this one starts.
prevRangeTouches == (Present - 2 * Period)..(Present - Period)

\* It ends a millisecond before this one starts, which is the day before.
prevRange == (Present - Period - 1 - Period)..(Present - Period - 1)

barDays == (Present - Period + 1)..Present

\* Fault: the days are not looked at.
SpendingOfAllDays(days) == [c \in Categories |-> Total(Of(DOMAIN bought, c))]

computeSpendingByCategory(days) == [c \in Categories |-> Total(Of(On(days), c))]

(***************************************************************************)
(* The detector.  It starts from the present hour, and a day is taken at   *)
(* its midnight: the first day of a range is out, the last is in.          *)
(***************************************************************************)
getPeriodRanges(i) == (Present - (i + 1) * AlertDays + 1)..(Present - i * AlertDays)

groupByCategory(i, c) == Total(Of(On(getPeriodRanges(i)), c))

\* What the category is compared with: the average of the periods that have it.
Past(c) == {i \in 1..Lookback : groupByCategory(i, c) > 0}

\* Fault: the average is that of all the periods.
AllPeriods(c) == Lookback

PeriodsCompared(c) == Cardinality(Past(c))

detectUnusualSpending(c) ==
    LET current == groupByCategory(0, c) * PeriodsCompared(c)
        history == SumFunction([i \in Past(c) |-> groupByCategory(i, c)])
    IN  IF current = 0 \/ 10 * current < 12 * history THEN "none"
        ELSE IF 10 * current >= 20 * history THEN "high"
        ELSE IF 10 * current >= 15 * history THEN "medium"
        ELSE "low"

\* The months, the periods of the page and those of the detector count every
\* expense of their days once, and no expense twice.
PeriodsCountOnce ==
    /\ Sum([m \in Months |-> RecapOf(m)], Months, "totalSpent") = Total(DOMAIN bought)
    /\ Total(On(periodRange)) + Total(On(prevRange))
            = Total(On((Present - 2 * Period - 1)..Present))
    /\ SumFunction([i \in 0..Lookback |-> SumFunction([c \in Categories |-> groupByCategory(i, c)])])
            = Total(On((Present - (Lookback + 1) * AlertDays + 1)..Present))

\* The parts of a report add up to its total, also when months are put together;
\* the bars of the page fall short of its total by the first day of the period,
\* which has none.
PartsMakeTheTotal ==
    LET all == aggregateRecaps([m \in Months |-> RecapOf(m)], Months)
        page == computeSpendingByCategory(periodRange)
    IN  /\ all.weekdayTotal + all.weekendTotal = all.totalSpent
        /\ SumFunction(all.categories) = all.totalSpent
        /\ all.topCategory <= all.totalSpent /\ all.biggestExpense <= all.topCategory
        /\ \A m \in Months : RecapOf(m).biggestExpense <= RecapOf(m).topSpendingDay
        /\ SumFunction(page) = Total(On(periodRange))
        /\ Total(On(periodRange)) - Total(On(barDays)) = Total(On({Present - Period}))

\* A category is reported only when it outgrew what it was in some past period.
AlertsAreOutgrowth ==
    \A c \in Categories : detectUnusualSpending(c) # "none" =>
        \E i \in 1..Lookback : 0 < groupByCategory(i, c) /\ groupByCategory(i, c) < groupByCategory(0, c)
=============================================================================
