-------------------------------- MODULE Clock --------------------------------
(* The academy's wall clock and the instants it stands for                     *)
(* (class-schedule/zoned-time.ts). A class is written as "Monday at 17:00",     *)
(* and a day of the calendar, of a report or of a bill is the instants from one *)
(* midnight to the next; both go through zonedToUtc. A time zone is seen around *)
(* one change of its clock. Times are counted in half hours from a midnight.    *)
EXTENDS Integers

CONSTANT Zones   \* [before, after: offsets from UTC, at: the instant it changes]
ASSUME ClockAssumption == Zones \subseteq [before : Int, after : Int, at : Int]
DayLength == 48

offsetMs(zone, instant) == IF instant < zone.at THEN zone.before ELSE zone.after

\* Mutant: the offset at the guess is taken for the offset.
ConvertedOnce(wall, zone) == wall - offsetMs(zone, wall)
\* The offset is looked up for the wall time taken as UTC, and again for the
\* instant this leads to; the second answer is the one that counts.
zonedToUtc(wall, zone) == wall - offsetMs(zone, wall - offsetMs(zone, wall))

Local(instant, zone) == instant + offsetMs(zone, instant)
todayIn(zone, instant) == Local(instant, zone) \div DayLength

\* The instants at which the clock shows a wall time: none if the change skips
\* it, two if the change repeats it.
Shows(wall, zone) ==
  {u \in {wall - zone.before, wall - zone.after} : Local(u, zone) = wall}
Once(wall, zone) == \E u \in Shows(wall, zone) : Shows(wall, zone) = {u}
Apart(a, b) == IF a < b THEN b - a ELSE a - b

\* Around any change of the clock the conversion keeps the wall time: the
\* instant is one at which the clock shows it or, if the change skips it, one at
\* which it shows a time no further away than the change itself.
KeepsTime(wall, zone) ==
  LET u == zonedToUtc(wall, zone) IN
  IF Shows(wall, zone) # {} THEN u \in Shows(wall, zone)
  ELSE Apart(Local(u, zone), wall) <= Apart(zone.before, zone.after)

Midnight(day) == DayLength * day
Hours(day) == Midnight(day)..Midnight(day + 1) - 1

\* What happens on a day is what happens from its midnight to the next one, as
\* the ranges of the queries have it, also on days of 23 and 25 hours; provided
\* the clock shows both midnights, and only once.
IsItsInstants(day, zone) ==
  Once(Midnight(day), zone) /\ Once(Midnight(day + 1), zone) =>
    \A u \in Midnight(day - 1)..Midnight(day + 2) :
      (todayIn(zone, u) = day)
        <=> (zonedToUtc(Midnight(day), zone) <= u /\ u < zonedToUtc(Midnight(day + 1), zone))

\* Days on which every class time survives, in every zone.
SoundDays(days) ==
  {d \in days : \A zone \in Zones :
     IsItsInstants(d, zone) /\ \A wall \in Hours(d) : KeepsTime(wall, zone)}
=============================================================================
