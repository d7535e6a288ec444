------------------------------- MODULE Shares -------------------------------
(* What a month costs (billing.service, generateMonth): the group's fee, less   *)
(* the student's discount, and of that the share of the month that is left for   *)
(* somebody who joins in it. Amounts are cents; Decimal rounds half up, and as  *)
(* it keeps 20 digits of a share, half a cent may also be rounded down.          *)
EXTENDS Naturals, FiniteSets

CONSTANTS Fees, Percents, MonthLengths,
          ClassDays     \* the days there can be classes
ASSUME SharesAssumption ==
  /\ Fees \subseteq Nat /\ Percents \subseteq 0..100
  /\ MonthLengths \subseteq Nat \ {0}
  /\ IsFiniteSet(ClassDays) /\ ClassDays \subseteq Nat \ {0}

\* toDecimalPlaces(2) of a / b
Rounded(a, b) == (2 * a + b) \div (2 * b)

\* Mutant: the day of joining is not counted.
FromTheNextDay(day, classes, days) ==
  IF classes # {} THEN [left |-> Cardinality({c \in classes : c > day}), of |-> Cardinality(classes)]
  ELSE [left |-> days - day, of |-> days]
\* The classes left from the midnight of the day of joining or, if the group
\* has none on the calendar, the days left.
proration(day, classes, days) ==
  IF classes # {} THEN [left |-> Cardinality({c \in classes : c >= day}), of |-> Cardinality(classes)]
  ELSE [left |-> days - day + 1, of |-> days]

discounted(fee, percent) == Rounded(fee * (100 - percent), 100)

\* Who joined before the month or on its first day pays it in full (day 1).
MonthFee(fee, percent, day, classes, days) ==
  LET share == proration(day, classes, days) IN
  IF day = 1 THEN discounted(fee, percent)
  ELSE Rounded(discounted(fee, percent) * share.left, share.of)

\* Of the classes of the month, or of its days if it has none, somebody pays
\* for those they can still attend: all if none has been missed, nothing if none
\* is left, never more for joining later, and within a cent of the exact share.
SharesAreFair ==
  \A fee \in Fees, percent \in Percents, days \in MonthLengths, classes \in SUBSET ClassDays :
    LET Pays(day) == MonthFee(fee, percent, day, classes, days)
        Units == IF classes = {} THEN 1..days ELSE classes
        Left(day) == {u \in Units : u >= day}
        exact(day) == fee * (100 - percent) * Cardinality(Left(day))
        all == 100 * Cardinality(Units)
    IN \A day \in 1..days :
         /\ Left(day) = Units => Pays(day) = discounted(fee, percent)
         /\ Left(day) = {} => Pays(day) = 0
         /\ day < days => Pays(day + 1) <= Pays(day)
         /\ Pays(day) * all <= exact(day) + all /\ exact(day) <= Pays(day) * all + all
=============================================================================
