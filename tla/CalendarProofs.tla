--------------------------- MODULE CalendarProofs ---------------------------
(***************************************************************************)
(* What holds of Calendar for every number of requests in progress, and    *)
(* for every set of days, durations, holidays and time zones.              *)
(*                                                                         *)
(* A request that writes later what it decided earlier relies on rows it   *)
(* read.  Understood says what is still true of them whatever others do    *)
(* meanwhile; it rests on one fact about every step (Onward): ids are      *)
(* never given again, a holiday keeps its period, and a class moves only   *)
(* by being touched.                                                       *)
(*                                                                         *)
(* Free and Back are what a request still knows when, besides, some        *)
(* operations do not overlap with it: each theorem names those.            *)
(***************************************************************************)
EXTENDS Calendar, TLAPS, FiniteSetTheorems, WellFoundedInduction

(* What a request knows whatever others do.                                *)
Understood(r) ==
  /\ r.op = "generate" /\ r.at = "read" => \A w \in DOMAIN r.schedule : r.schedule[w] \in Durations
  /\ r.op = "generate" /\ r.at = "planned" =>
       /\ r.toReplace \subseteq 1..created
       /\ DOMAIN r.toCreate \subseteq Days
       /\ \A d \in DOMAIN r.toCreate : r.toCreate[d] \in Durations
       /\ \A c \in DOMAIN classes \ r.toReplace : classes[c].untouched => classes[c].day \notin DOMAIN r.toCreate
  /\ r.op = "import" => r.days \subseteq Days
  /\ r.op = "remove" =>
       /\ r.holiday \in 1..declared
       /\ r.restore \subseteq 1..created /\ DOMAIN r.to \subseteq 1..created
       /\ r.restore \cap DOMAIN r.to = {}
       /\ \A c \in DOMAIN r.to : r.to[c] \in 1..declared /\ r.to[c] # r.holiday

UntouchedIsNew == \A c \in DOMAIN classes : classes[c].untouched => ~ classes[c].attended

RowsHold == TypeOK /\ UntouchedIsNew /\ NoTwins

OnePlan == \A p, q \in Slots : request[p].op = "generate" /\ request[q].op = "generate" => p = q

IInv == RowsHold /\ OnePlan /\ \A q \in Slots : Understood(request[q])

(* What no step does.                                                      *)
Onward ==
  /\ created' \in Nat /\ created <= created' /\ declared' \in Nat /\ declared <= declared'
  /\ \A h \in DOMAIN holidays' : h \in 1..declared => h \in DOMAIN holidays /\ holidays'[h] = holidays[h]
  /\ \A c \in DOMAIN classes' : c \in 1..created =>
       /\ c \in DOMAIN classes
       /\ classes'[c].untouched => classes[c].untouched /\ classes'[c].day = classes[c].day

(* What only generate does: classes that nobody has touched.               *)
NothingNew == \A c \in DOMAIN classes' : classes'[c].untouched => c \in 1..created

(* What people do by hand, and what touches no class: no holiday changes,   *)
(* and a class that is not as it was has been touched.                     *)
ByHand ==
  /\ UNCHANGED <<holidays, declared>> /\ created' \in Nat /\ created <= created'
  /\ \A c \in DOMAIN classes' :
       /\ c \in 1..created => c \in DOMAIN classes
       /\ (c \in DOMAIN classes /\ classes'[c] = classes[c]) \/ ~ classes'[c].untouched

Declaring == {"createHoliday", "import"}
Relying == {"generate", "remove"}
KnowsFree(r) ==
  /\ r.op = "generate" /\ r.at = "read" => \A h \in DOMAIN holidays : holidays[h] \in r.holidays
  /\ r.op = "generate" /\ r.at = "planned" =>
       \A d \in DOMAIN r.toCreate, h \in DOMAIN holidays : ~Within(d, holidays[h])
  /\ r.op = "remove" => \A c \in r.restore \cap DOMAIN classes : classes[c].untouched =>
       \A h \in DOMAIN holidays \ {r.holiday} : ~Within(classes[c].day, holidays[h])

Free ==
  /\ FreeOnHolidays
  /\ \A p, q \in Slots : ~(request[p].op \in Declaring /\ request[q].op \in Relying)
  /\ \A q \in Slots : KnowsFree(request[q])

KnowsBack(r) == r.op = "remove" =>
  /\ \A c \in DOMAIN classes :
       (classes[c].untouched /\ classes[c].status = "CANCELLED" /\ classes[c].holiday = r.holiday)
         => c \in r.restore \cup DOMAIN r.to
  /\ \A c \in DOMAIN r.to \cap DOMAIN classes : (classes[c].untouched /\ r.to[c] \in DOMAIN holidays)
         => Within(classes[c].day, holidays[r.to[c]])

Back ==
  /\ ComesBack
  /\ \A p, q \in Slots : request[p].op = "remove" /\ request[q].op = "remove" => p = q
  /\ \A q \in Slots : KnowsBack(request[q])

-----------------------------------------------------------------------------
(* The clock.                                                              *)

(* Whatever two offsets the clock changes between and whenever it does,    *)
(* zonedToUtc leads to an instant that shows the wall time, if there is    *)
(* one.                                                                    *)
LEMMA ConversionKeepsTime ==
  ASSUME NEW zone \in [before : Int, after : Int, at : Int], NEW wall \in Int
  PROVE  KeepsTime(wall, zone)
<1> PICK b, a, t \in Int : zone.before = b /\ zone.after = a /\ zone.at = t
  OBVIOUS
<1>1. Shows(wall, zone) = {u \in {wall - b, wall - a} : u + (IF u < t THEN b ELSE a) = wall}
  BY DEF Shows, Local, offsetMs
<1> PICK u \in Int : u = wall - (IF wall - (IF wall < t THEN b ELSE a) < t THEN b ELSE a)
  OBVIOUS
<1>2. zonedToUtc(wall, zone) = u
  BY DEF zonedToUtc, offsetMs
<1>3. CASE \E v \in Shows(wall, zone) : TRUE
  <2>1. u \in Shows(wall, zone)
    BY <1>1, <1>3
  <2> QED  BY <1>2, <2>1 DEF KeepsTime
<1>4. CASE Shows(wall, zone) = {}
  <2>1. ~(wall - b < t) /\ wall - a < t
    BY <1>1, <1>4
  <2>2. Local(u, zone) = u + (IF u < t THEN b ELSE a)
    BY DEF Local, offsetMs
  <2>3. Apart(Local(u, zone), wall) <= Apart(b, a)
    BY <2>1, <2>2 DEF Apart
  <2> QED  BY <1>2, <1>4, <2>3 DEF KeepsTime
<1> QED  BY <1>3, <1>4

(* An instant is on or after a wall time that the clock shows only once    *)
(* exactly when its own wall time is.                                      *)
LEMMA OnceSplitsTime ==
  ASSUME NEW zone \in [before : Int, after : Int, at : Int], NEW wall \in Int, Once(wall, zone),
         NEW u \in Int
  PROVE  zonedToUtc(wall, zone) <= u <=> wall <= Local(u, zone)
<1> PICK b, a, t \in Int : zone.before = b /\ zone.after = a /\ zone.at = t
  OBVIOUS
<1>1. Shows(wall, zone) = {v \in {wall - b, wall - a} : v + (IF v < t THEN b ELSE a) = wall}
  BY DEF Shows, Local, offsetMs
<1>2. PICK v : Shows(wall, zone) = {v}
  BY DEF Once
<1>3. zonedToUtc(wall, zone) = v
  BY <1>2, ConversionKeepsTime DEF KeepsTime
<1>4. /\ v \in {wall - b, wall - a} /\ v \in Int
      /\ v + (IF v < t THEN b ELSE a) = wall
  BY <1>1, <1>2
<1>5. /\ wall - b < t => v = wall - b
      /\ ~(wall - a < t) => v = wall - a
  <2>1. wall - b < t => wall - b \in Shows(wall, zone)
    BY <1>1
  <2>2. ~(wall - a < t) => wall - a \in Shows(wall, zone)
    BY <1>1
  <2> QED  BY <1>2, <2>1, <2>2
<1>6. Local(u, zone) = u + (IF u < t THEN b ELSE a)
  BY DEF Local, offsetMs
<1> QED  BY <1>3, <1>4, <1>5, <1>6

(* So the instants of a day are those from its midnight to the next.       *)
LEMMA DaysAreTheirInstants ==
  ASSUME NEW zone \in [before : Int, after : Int, at : Int], NEW day \in Int
  PROVE  IsItsInstants(day, zone)
<1> SUFFICES ASSUME Once(Midnight(day), zone), Once(Midnight(day + 1), zone),
                    NEW u \in Midnight(day - 1)..Midnight(day + 2)
             PROVE  (todayIn(zone, u) = day)
                      <=> (zonedToUtc(Midnight(day), zone) <= u /\ u < zonedToUtc(Midnight(day + 1), zone))
  BY DEF IsItsInstants
<1>1. u \in Int /\ Midnight(day) = 48 * day /\ Midnight(day + 1) = 48 * day + 48
  BY DEF Midnight, DayLength
<1>2. Local(u, zone) \in Int
  BY <1>1 DEF Local, offsetMs
<1>3. todayIn(zone, u) = day <=> (48 * day <= Local(u, zone) /\ Local(u, zone) < 48 * day + 48)
  BY <1>2 DEF todayIn, DayLength
<1>4. zonedToUtc(Midnight(day), zone) <= u <=> 48 * day <= Local(u, zone)
  BY <1>1, OnceSplitsTime
<1>5. zonedToUtc(Midnight(day + 1), zone) <= u <=> 48 * day + 48 <= Local(u, zone)
  BY <1>1, OnceSplitsTime
<1>6. zonedToUtc(Midnight(day + 1), zone) \in Int
  BY <1>1 DEF zonedToUtc, offsetMs
<1> QED  BY <1>1, <1>2, <1>3, <1>4, <1>5, <1>6

-----------------------------------------------------------------------------
(* Numbering.                                                              *)

(* Rows created together take the ids that follow, each its own.           *)
Upto(S, d) == {x \in S : x <= d}

(* Numbering the days of a set in order gives each its own number.         *)
LEMMA Numbering ==
  ASSUME NEW S \in SUBSET Nat, IsFiniteSet(S), NEW n \in Nat, NEW d \in S
  PROVE  /\ Cardinality(S) \in Nat
         /\ n + Cardinality(Upto(S, d)) \in (n + 1)..(n + Cardinality(S))
         /\ \A e \in S : n + Cardinality(Upto(S, e)) = n + Cardinality(Upto(S, d)) => e = d
<1>1. ASSUME NEW e \in S
      PROVE  IsFiniteSet(Upto(S, e)) /\ Cardinality(Upto(S, e)) \in Nat
             /\ Cardinality(Upto(S, e)) <= Cardinality(S) /\ Cardinality(Upto(S, e)) # 0
  <2>1. Upto(S, e) \in SUBSET S /\ e \in Upto(S, e)
    BY DEF Upto
  <2>2. IsFiniteSet(Upto(S, e)) /\ Cardinality(Upto(S, e)) <= Cardinality(S)
    BY <2>1, FS_Subset
  <2> QED  BY <2>1, <2>2, FS_CardinalityType, FS_EmptySet
<1>2. ASSUME NEW e \in S, NEW f \in S, e < f  PROVE Cardinality(Upto(S, e)) < Cardinality(Upto(S, f))
  <2>1. Upto(S, e) \subseteq Upto(S, f)
    <3> SUFFICES ASSUME NEW x \in S, x <= e  PROVE x <= f
      BY DEF Upto
    <3>1. x \in Nat /\ e \in Nat /\ f \in Nat
      OBVIOUS
    <3> QED  BY <1>2, <3>1
  <2>2. f \in Upto(S, f) /\ f \notin Upto(S, e)
    <3>1. e \in Nat /\ f \in Nat
      OBVIOUS
    <3> QED  BY <1>2, <3>1 DEF Upto
  <2> QED  BY <1>1, <2>1, <2>2, FS_Subset
<1>3. Cardinality(S) \in Nat
  BY FS_CardinalityType
<1> QED  BY <1>1, <1>2, <1>3

(* Some ids have a first one.                                              *)
LEMMA FirstId ==
  ASSUME NEW S \in SUBSET Nat, S # {}
  PROVE  \E h \in S : \A i \in S : h <= i
<1> DEFINE R == {ss \in Nat \X Nat : ss[1] < ss[2]}
<1>1. IsWellFoundedOn(R, Nat)
  BY NatLessThanWellFounded DEF OpToRel
<1>2. PICK h \in S : \A i \in S : <<i, h>> \notin R
  <2> HIDE DEF R
  <2> QED  BY <1>1, WFMin
<1>3. \A i \in S : ~(i < h)
  BY <1>2
<1> QED  BY <1>3

-----------------------------------------------------------------------------
(* Rows.                                                                   *)

(* A class cancelled by a holiday, handed to one, or put back, is as it was *)
(* otherwise.                                                              *)
CancelledBy(row, h) == [row EXCEPT !.status = "CANCELLED", !.holiday = h]

(* A class cancelled by a holiday keeps its day and its roster.            *)
LEMMA CancelledRow ==
  ASSUME NEW row \in ClassRow, NEW h \in Nat
  PROVE  /\ CancelledBy(row, h) \in ClassRow
         /\ CancelledBy(row, h).status = "CANCELLED" /\ CancelledBy(row, h).holiday = h
         /\ CancelledBy(row, h).day = row.day /\ CancelledBy(row, h).untouched = row.untouched
         /\ CancelledBy(row, h).attended = row.attended
BY DEF CancelledBy, ClassRow

(* A class handed to another holiday changes in nothing else.              *)
LEMMA GivenRow ==
  ASSUME NEW row \in ClassRow, NEW h \in Nat
  PROVE  LET new == [row EXCEPT !.holiday = h] IN
         /\ new \in ClassRow
         /\ new.status = row.status /\ new.holiday = h
         /\ new.day = row.day /\ new.untouched = row.untouched /\ new.attended = row.attended
BY DEF ClassRow

(* A new class.                                                            *)
LEMMA NewClass ==
  ASSUME NEW d \in Days, NEW length \in Durations,
         NEW status \in {"SCHEDULED", "COMPLETED", "CANCELLED"}, NEW untouched \in BOOLEAN
  PROVE  LET new == Class(d, length, status, untouched) IN
         /\ new \in ClassRow
         /\ new.day = d /\ new.status = status /\ new.holiday = NoHoliday
         /\ new.untouched = untouched /\ ~ new.attended
BY DEF Class, ClassRow, NoHoliday

(* A restored class is scheduled and depends on no holiday.                *)
LEMMA RestoredRow ==
  ASSUME NEW row \in ClassRow
  PROVE  /\ Restored(row) \in ClassRow
         /\ Restored(row).status = "SCHEDULED" /\ Restored(row).holiday = NoHoliday
         /\ Restored(row).day = row.day /\ Restored(row).untouched = row.untouched
         /\ Restored(row).attended = row.attended
BY DEF Restored, ClassRow, NoHoliday

(* What createIn does to every class, if its ids are new.                  *)
LEMMA Declared ==
  ASSUME RowsHold, NEW new, DOMAIN new \subseteq Nat, \A h \in DOMAIN new : h > declared, Declare(new)
  PROVE  /\ DOMAIN holidays' = DOMAIN holidays \cup DOMAIN new
         /\ \A h \in DOMAIN new : holidays'[h] = new[h]
         /\ \A h \in DOMAIN holidays : holidays'[h] = holidays[h]
         /\ declared' = declared + Cardinality(DOMAIN new)
         /\ DOMAIN classes' = DOMAIN classes
         /\ \A c \in DOMAIN classes :
              \/ /\ classes'[c] = classes[c]
                 /\ Cancellable(classes[c]) => \A h \in DOMAIN new : ~Within(classes[c].day, new[h])
              \/ /\ Cancellable(classes[c])
                 /\ \E h \in DOMAIN new :
                      /\ Within(classes[c].day, new[h])
                      /\ classes'[c] = CancelledBy(classes[c], h)
<1> DEFINE covering(c) == {h \in DOMAIN new : Within(classes[c].day, new[h])}
           first(c) == CHOOSE h \in covering(c) : \A i \in covering(c) : h <= i
<1>1. /\ holidays' = [h \in DOMAIN holidays \cup DOMAIN new |-> IF h \in DOMAIN new THEN new[h] ELSE holidays[h]]
      /\ declared' = declared + Cardinality(DOMAIN new)
      /\ classes' = [c \in DOMAIN classes |->
           IF Cancellable(classes[c]) /\ covering(c) # {}
           THEN CancelledBy(classes[c], first(c))
           ELSE classes[c]]
  BY DEF Declare, CancelledBy
<1>2. DOMAIN holidays \cap DOMAIN new = {}
  BY DEF RowsHold, TypeOK
<1>3. \A c : covering(c) # {} => first(c) \in covering(c)
  <2> TAKE c
  <2>1. covering(c) \in SUBSET Nat
    OBVIOUS
  <2> HIDE DEF covering
  <2> QED  BY <2>1, FirstId
<1>4. ASSUME NEW c \in DOMAIN classes
      PROVE  \/ /\ classes'[c] = classes[c]
                /\ Cancellable(classes[c]) => \A h \in DOMAIN new : ~Within(classes[c].day, new[h])
             \/ /\ Cancellable(classes[c])
                /\ \E h \in DOMAIN new :
                     /\ Within(classes[c].day, new[h])
                     /\ classes'[c] = CancelledBy(classes[c], h)
  <2>1. CASE Cancellable(classes[c]) /\ covering(c) # {}
    <3>1. first(c) \in covering(c)
      BY <1>3, <2>1
    <3>3. classes'[c] = CancelledBy(classes[c], first(c))
      BY <1>1, <2>1
    <3> HIDE DEF first
    <3> QED  BY <2>1, <3>1, <3>3
  <2>2. CASE ~(Cancellable(classes[c]) /\ covering(c) # {})
    <3>1. classes'[c] = classes[c]
      BY <1>1, <2>2
    <3> QED  BY <2>2, <3>1
  <2> QED  BY <2>1, <2>2
<1> HIDE DEF covering, first
<1> QED  BY <1>1, <1>2, <1>4

(* What remove makes of the row of class c.                                *)
AfterRemoval(new, old, c, r) ==
  /\ new \in ClassRow
  /\ new.day = old.day /\ new.attended = old.attended /\ new.untouched = old.untouched
  /\ new.status = IF c \in r.restore THEN "SCHEDULED" ELSE old.status
  /\ new.holiday = IF c \in r.restore THEN NoHoliday
                   ELSE IF c \in DOMAIN r.to THEN r.to[c]
                   ELSE IF old.holiday = r.holiday THEN NoHoliday
                   ELSE old.holiday

(* What removing a holiday leaves in the rows it decided on, and in the    *)
(* others.                                                                 *)
LEMMA Removed ==
  ASSUME RowsHold, NEW r, \A c \in DOMAIN r.to : r.to[c] \in Nat /\ r.to[c] # r.holiday,
         r.restore \cap DOMAIN r.to = {},
         classes' = SetNull(r.holiday, [c \in DOMAIN classes |->
                      CASE c \in r.restore -> Restored(classes[c])
                        [] c \in DOMAIN r.to -> [classes[c] EXCEPT !.holiday = r.to[c]]
                        [] OTHER -> classes[c]])
  PROVE  /\ DOMAIN classes' = DOMAIN classes
         /\ \A c \in DOMAIN classes : AfterRemoval(classes'[c], classes[c], c, r)
<1> PICK rows : rows = [c \in DOMAIN classes |->
                          CASE c \in r.restore -> Restored(classes[c])
                            [] c \in DOMAIN r.to -> [classes[c] EXCEPT !.holiday = r.to[c]]
                            [] OTHER -> classes[c]]
  OBVIOUS
<1>1. /\ DOMAIN classes' = DOMAIN classes
      /\ \A c \in DOMAIN classes : classes'[c] =
           IF rows[c].holiday = r.holiday THEN [rows[c] EXCEPT !.holiday = NoHoliday] ELSE rows[c]
  BY DEF SetNull
<1>2. ASSUME NEW c \in DOMAIN classes
      PROVE  /\ rows[c] \in ClassRow
             /\ rows[c].day = classes[c].day /\ rows[c].attended = classes[c].attended
             /\ rows[c].untouched = classes[c].untouched
             /\ rows[c].status = IF c \in r.restore THEN "SCHEDULED" ELSE classes[c].status
             /\ rows[c].holiday = IF c \in r.restore THEN NoHoliday
                                  ELSE IF c \in DOMAIN r.to THEN r.to[c] ELSE classes[c].holiday
  <2> PICK old \in ClassRow : old = classes[c]
    BY DEF RowsHold, TypeOK
  <2>1. CASE c \in r.restore
    <3>1. rows[c] = Restored(old)
      BY <2>1
    <3>2. rows[c] \in ClassRow /\ rows[c].status = "SCHEDULED" /\ rows[c].holiday = NoHoliday
          /\ rows[c].day = old.day /\ rows[c].untouched = old.untouched /\ rows[c].attended = old.attended
      BY <3>1, RestoredRow, ZenonT(60)
    <3> QED  BY <2>1, <3>2
  <2>2. CASE c \notin r.restore /\ c \in DOMAIN r.to
    <3>1. rows[c] = [old EXCEPT !.holiday = r.to[c]]
      BY <2>2
    <3>2. /\ rows[c] \in ClassRow /\ rows[c].status = old.status /\ rows[c].holiday = r.to[c]
          /\ rows[c].day = old.day /\ rows[c].untouched = old.untouched /\ rows[c].attended = old.attended
      BY <2>2, <3>1, GivenRow
    <3> QED  BY <2>2, <3>2
  <2>3. CASE c \notin r.restore /\ c \notin DOMAIN r.to
    <3>1. rows[c] = old
      BY <2>3
    <3> QED  BY <2>3, <3>1
  <2> QED  BY <2>1, <2>2, <2>3
<1>3. ASSUME NEW c \in DOMAIN classes
      PROVE  /\ classes'[c] \in ClassRow
             /\ classes'[c].day = rows[c].day /\ classes'[c].attended = rows[c].attended
             /\ classes'[c].untouched = rows[c].untouched /\ classes'[c].status = rows[c].status
             /\ classes'[c].holiday = IF rows[c].holiday = r.holiday THEN NoHoliday ELSE rows[c].holiday
  <2> PICK old \in ClassRow : old = rows[c]
    BY <1>2
  <2>1. CASE old.holiday = r.holiday
    <3>1. classes'[c] = [old EXCEPT !.holiday = NoHoliday]
      BY <1>1, <2>1
    <3>2. PICK new : new = [old EXCEPT !.holiday = NoHoliday]
      OBVIOUS
    <3>3. /\ new \in ClassRow /\ new.status = old.status /\ new.holiday = NoHoliday
          /\ new.day = old.day /\ new.untouched = old.untouched /\ new.attended = old.attended
      BY <3>2, GivenRow DEF NoHoliday
    <3>4. /\ classes'[c] \in ClassRow /\ classes'[c].status = old.status /\ classes'[c].holiday = NoHoliday
          /\ classes'[c].day = old.day /\ classes'[c].untouched = old.untouched
          /\ classes'[c].attended = old.attended
      BY <3>1, <3>2, <3>3
    <3> QED  BY <2>1, <3>4
  <2>2. CASE old.holiday # r.holiday
    <3>1. classes'[c] = old
      BY <1>1, <2>2
    <3> QED  BY <2>2, <3>1
  <2> QED  BY <2>1, <2>2
<1>4. ASSUME NEW c \in DOMAIN classes
      PROVE  classes'[c].holiday = IF c \in r.restore THEN NoHoliday
                                   ELSE IF c \in DOMAIN r.to THEN r.to[c]
                                   ELSE IF classes[c].holiday = r.holiday THEN NoHoliday
                                   ELSE classes[c].holiday
  <2>1. CASE c \in r.restore
    BY <1>2, <1>3, <2>1
  <2>2. CASE c \notin r.restore /\ c \in DOMAIN r.to
    BY <1>2, <1>3, <2>2
  <2>3. CASE c \notin r.restore /\ c \notin DOMAIN r.to
    BY <1>2, <1>3, <2>3
  <2> QED  BY <2>1, <2>2, <2>3
<1>5. ASSUME NEW c \in DOMAIN classes
      PROVE  /\ classes'[c] \in ClassRow
             /\ classes'[c].day = classes[c].day /\ classes'[c].attended = classes[c].attended
             /\ classes'[c].untouched = classes[c].untouched
             /\ classes'[c].status = IF c \in r.restore THEN "SCHEDULED" ELSE classes[c].status
  <2>1. classes'[c].status = rows[c].status /\ classes'[c].status
          = IF c \in r.restore THEN "SCHEDULED" ELSE classes[c].status
    BY <1>2, <1>3, ZenonT(60)
  <2>2. /\ rows[c].day = classes[c].day /\ rows[c].attended = classes[c].attended
        /\ rows[c].untouched = classes[c].untouched
    BY <1>2
  <2>3. /\ classes'[c].day = rows[c].day /\ classes'[c].attended = rows[c].attended
        /\ classes'[c].untouched = rows[c].untouched
    BY <1>3
  <2> QED  BY <1>3, <2>1, <2>2, <2>3
<1> QED  BY <1>1, <1>4, <1>5 DEF AfterRemoval

(* What generate does: a new class for each day to create, of its own id.  *)
LEMMA Generated ==
  ASSUME RowsHold, NEW q, generate(q), DOMAIN request[q].toCreate \subseteq Days,
         \A d \in DOMAIN request[q].toCreate : request[q].toCreate[d] \in Durations
  PROVE  /\ created' \in Nat /\ created <= created'
         /\ \A c \in DOMAIN classes' :
              \/ c \in DOMAIN classes \ request[q].toReplace /\ classes'[c] = classes[c]
              \/ /\ c \in (created + 1)..created'
                 /\ \E d \in DOMAIN request[q].toCreate :
                      classes'[c] = Class(d, request[q].toCreate[d], "SCHEDULED", TRUE)
         /\ \A c \in DOMAIN classes \ request[q].toReplace : c \in DOMAIN classes'
         /\ \A c, e \in DOMAIN classes' :
              (c > created /\ e > created /\ classes'[c].day = classes'[e].day) => c = e
<1> PICK r : r = request[q]
  OBVIOUS
<1> PICK days \in SUBSET Nat : days = DOMAIN r.toCreate
  BY CalendarAssumption
<1> PICK n \in Nat : n = created
  BY DEF RowsHold, TypeOK
<1> DEFINE Id(d) == n + Cardinality(Upto(days, d))
           DayOf(c) == CHOOSE d \in days : Id(d) = c
           ids == {Id(d) : d \in days}
<1>1. /\ classes' = [c \in (DOMAIN classes \ r.toReplace) \cup ids |->
                       IF c \in ids THEN Class(DayOf(c), r.toCreate[DayOf(c)], "SCHEDULED", TRUE)
                       ELSE classes[c]]
      /\ created' = n + Cardinality(days)
  BY DEF generate, Upto
<1>2. IsFiniteSet(days)
  BY CalendarAssumption, FS_Subset
<1>3. created' \in Nat /\ created <= created'
  BY <1>1, <1>2, FS_CardinalityType
<1>4. \A d \in days : Id(d) \in (n + 1)..created' /\ \A e \in days : Id(e) = Id(d) => e = d
  BY <1>1, <1>2, Numbering
<1> HIDE DEF Id
<1>5. \A c \in ids : /\ DayOf(c) \in days /\ Id(DayOf(c)) = c
                     /\ c \in (n + 1)..created' /\ c \notin DOMAIN classes
  BY <1>3, <1>4 DEF RowsHold, TypeOK
<1> HIDE DEF DayOf, ids
<1>6. \A c \in ids : classes'[c] = Class(DayOf(c), r.toCreate[DayOf(c)], "SCHEDULED", TRUE)
  BY <1>1
<1>7. \A c \in ids : classes'[c].day = DayOf(c)
  <2>1. \A d, length : Class(d, length, "SCHEDULED", TRUE).day = d
    BY DEF Class
  <2> QED  BY <1>6, <2>1
<1>8. \A c \in DOMAIN classes' : c \notin ids =>
        c \in DOMAIN classes \ r.toReplace /\ classes'[c] = classes[c]
  BY <1>1
<1>9. \A c \in DOMAIN classes' : c > created => c \in ids
  BY <1>8 DEF RowsHold, TypeOK
<1>10. \A c, e \in ids : DayOf(c) = DayOf(e) => c = e
  BY <1>5
<1>11. \A c \in DOMAIN classes \ r.toReplace : c \in DOMAIN classes'
  BY <1>1
<1>12. ASSUME NEW c \in DOMAIN classes'
       PROVE  \/ c \in DOMAIN classes \ r.toReplace /\ classes'[c] = classes[c]
              \/ /\ c \in (created + 1)..created'
                 /\ \E d \in DOMAIN r.toCreate :
                      classes'[c] = Class(d, r.toCreate[d], "SCHEDULED", TRUE)
  BY <1>5, <1>6, <1>8
<1>13. \A c, e \in DOMAIN classes' :
         (c > created /\ e > created /\ classes'[c].day = classes'[e].day) => c = e
  BY <1>7, <1>9, <1>10
<1> QED  BY <1>3, <1>11, <1>12, <1>13

-----------------------------------------------------------------------------
(* One step.                                                               *)

(* What a request knows stays true, as long as no class that nobody has    *)
(* touched appears under a plan.                                           *)
LEMMA UnderstandingOutlives ==
  ASSUME RowsHold, Onward, NEW r, Understood(r),
         (r.op = "generate" /\ r.at = "planned") => NothingNew
  PROVE  Understood(r)'
<1>1. created \in Nat /\ created' \in Nat /\ declared \in Nat /\ declared' \in Nat
      /\ created <= created' /\ declared <= declared'
  BY DEF Onward, RowsHold, TypeOK
<1>2. CASE r.op = "generate" /\ r.at = "planned"
  <2>1. ASSUME NEW c \in DOMAIN classes' \ r.toReplace, classes'[c].untouched
        PROVE  classes'[c].day \notin DOMAIN r.toCreate
    <3>1. c \in 1..created
      BY <1>2, <2>1 DEF NothingNew
    <3>2. c \in DOMAIN classes /\ classes[c].untouched /\ classes'[c].day = classes[c].day
      BY <2>1, <3>1 DEF Onward
    <3> QED  BY <1>2, <2>1, <3>2 DEF Understood
  <2> QED  BY <1>1, <1>2, <2>1 DEF Understood
<1>3. CASE ~(r.op = "generate" /\ r.at = "planned")
  BY <1>1, <1>3 DEF Understood
<1> QED  BY <1>2, <1>3

(* Requests still know what they read when one of them takes a step.       *)
LEMMA SlotsUnderstand ==
  ASSUME IInv, Onward, NEW q \in Slots, NEW r, Begin(q, r), Understood(r)',
         r.op = "generate" => request[q].op = "generate" \/ ~Planning,
         NothingNew \/ request[q].op = "generate"
  PROVE  OnePlan' /\ \A p \in Slots : Understood(request[p])'
<1>1. DOMAIN request = Slots /\ RowsHold
  BY DEF IInv, RowsHold, TypeOK
<1>2. request'[q] = r /\ \A p \in Slots \ {q} : request'[p] = request[p]
  BY <1>1 DEF Begin
<1>3. OnePlan'
  BY <1>2 DEF OnePlan, IInv, Planning
<1>4. ASSUME NEW p \in Slots  PROVE Understood(request[p])'
  <2>1. CASE p = q
    BY <1>2, <2>1
  <2>2. CASE p # q
    <3> PICK was : was = request[p]
      OBVIOUS
    <3>1. Understood(was)
      BY DEF IInv
    <3>2. (was.op = "generate" /\ was.at = "planned") => NothingNew
      BY <2>2 DEF IInv, OnePlan
    <3>3. Understood(was)'
      BY <1>1, <3>1, <3>2, UnderstandingOutlives
    <3>4. request'[p] = was
      BY <1>2, <2>2
    <3> QED  BY <3>3, <3>4
  <2> QED  BY <2>1, <2>2
<1> QED  BY <1>3, <1>4

(* Requests still know what they read when somebody else takes a step.     *)
LEMMA OthersUnderstand ==
  ASSUME IInv, Onward, NothingNew, UNCHANGED request
  PROVE  OnePlan' /\ \A p \in Slots : Understood(request[p])'
<1>1. ASSUME NEW p \in Slots  PROVE Understood(request[p])'
  <2> PICK was : was = request[p]
    OBVIOUS
  <2>1. Understood(was)'
    BY UnderstandingOutlives DEF IInv
  <2>2. request'[p] = was
    OBVIOUS
  <2> QED  BY <2>1, <2>2
<1> QED  BY <1>1 DEF IInv, OnePlan

(* A request that is over knows nothing.                                   *)
LEMMA IdleUnderstands == Understood(NoRequest)'
BY DEF Understood, NoRequest

(* By hand.                                                                *)
LEMMA HandsOff ==
  ASSUME RowsHold, ByHand, now' \in Nat, schedule' \in Schedules, edits' \in Nat,
         DOMAIN request' = Slots, DOMAIN classes' \subseteq 1..created',
         \A c \in DOMAIN classes' :
           /\ classes'[c] \in ClassRow /\ classes'[c].holiday \in DOMAIN holidays \cup {NoHoliday}
           /\ classes'[c].untouched => ~ classes'[c].attended
  PROVE  RowsHold' /\ Onward /\ NothingNew
<1>1. holidays' = holidays /\ declared' = declared /\ created \in Nat /\ declared \in Nat
  BY DEF ByHand, RowsHold, TypeOK
<1>2. TypeOK'
  BY <1>1 DEF RowsHold, TypeOK, ByHand
<1>3. \A c \in DOMAIN classes' : classes'[c].untouched => c \in DOMAIN classes /\ classes'[c] = classes[c]
  BY DEF ByHand
<1>4. NoTwins' /\ UntouchedIsNew'
  BY <1>3 DEF RowsHold, NoTwins, UntouchedIsNew
<1>5. Onward
  BY <1>1, <1>3 DEF Onward, ByHand, RowsHold, TypeOK
<1>6. NothingNew
  BY <1>3 DEF NothingNew, RowsHold, TypeOK
<1> QED  BY <1>2, <1>4, <1>5, <1>6 DEF RowsHold

(* Nothing changes but the requests, the clock, the schedule or the count  *)
(* of the changes by hand.                                                 *)
LEMMA RowsStay ==
  ASSUME RowsHold, UNCHANGED <<holidays, classes, created, declared>>,
         now' \in Nat, schedule' \in Schedules, edits' \in Nat, DOMAIN request' = Slots
  PROVE  RowsHold' /\ Onward /\ NothingNew /\ ByHand
<1>1. ByHand
  BY DEF ByHand, RowsHold, TypeOK
<1>2. /\ DOMAIN classes' \subseteq 1..created'
      /\ \A c \in DOMAIN classes' :
           /\ classes'[c] \in ClassRow /\ classes'[c].holiday \in DOMAIN holidays \cup {NoHoliday}
           /\ classes'[c].untouched => ~ classes'[c].attended
  BY DEF RowsHold, TypeOK, UntouchedIsNew
<1> QED  BY <1>1, <1>2, HandsOff

(* An update of one class leaves the others as they were.                  *)
LEMMA Touched ==
  ASSUME RowsHold, NEW c \in DOMAIN classes, NEW row \in ClassRow, row.holiday = classes[c].holiday,
         Touch(c, row)
  PROVE  /\ DOMAIN classes' = DOMAIN classes
         /\ classes'[c].attended = row.attended
         /\ \A x \in DOMAIN classes :
              /\ classes'[x] \in ClassRow /\ classes'[x].holiday = classes[x].holiday
              /\ (classes'[x] = classes[x] /\ x # c) \/ (~ classes'[x].untouched /\ x = c)
<1> PICK new : new = [row EXCEPT !.untouched = FALSE]
  OBVIOUS
<1>1. new \in ClassRow /\ new.holiday = row.holiday /\ new.attended = row.attended /\ ~ new.untouched
  BY DEF ClassRow
<1>2. classes' = [classes EXCEPT ![c] = new]
  BY DEF Touch
<1> QED  BY <1>1, <1>2 DEF RowsHold, TypeOK

(* An update of one class keeps the rows in order.                         *)
LEMMA TouchStep ==
  ASSUME RowsHold, NEW c \in DOMAIN classes, NEW row \in ClassRow, row.holiday = classes[c].holiday,
         Touch(c, row), UNCHANGED <<now, schedule, holidays, created, declared>>, edits' \in Nat,
         DOMAIN request' = Slots
  PROVE  RowsHold' /\ Onward /\ NothingNew /\ ByHand
<1>1. /\ DOMAIN classes' = DOMAIN classes
      /\ \A x \in DOMAIN classes :
           /\ classes'[x] \in ClassRow /\ classes'[x].holiday = classes[x].holiday
           /\ classes'[x] = classes[x] \/ ~ classes'[x].untouched
  BY Touched
<1>2. ByHand
  BY <1>1 DEF ByHand, RowsHold, TypeOK
<1>3. \A x \in DOMAIN classes' :
        /\ classes'[x] \in ClassRow /\ classes'[x].holiday \in DOMAIN holidays \cup {NoHoliday}
        /\ classes'[x].untouched => ~ classes'[x].attended
  BY <1>1 DEF RowsHold, TypeOK, UntouchedIsNew
<1>4. now' \in Nat /\ schedule' \in Schedules /\ DOMAIN classes' \subseteq 1..created'
  BY <1>1 DEF RowsHold, TypeOK
<1> QED  BY <1>2, <1>3, <1>4, HandsOff

(* What every step keeps, whoever takes it, if the rows are well after it. *)
LEMMA ByHandStep ==
  ASSUME IInv, RowsHold' /\ Onward /\ NothingNew, UNCHANGED request
  PROVE  IInv'
BY OthersUnderstand DEF IInv

(* A request that takes a step to a record it understands keeps the        *)
(* invariant.                                                              *)
LEMMA SlotStep ==
  ASSUME IInv, RowsHold' /\ Onward, NEW q \in Slots, NEW r, Begin(q, r), Understood(r)',
         r.op = "generate" => request[q].op = "generate" \/ ~Planning,
         NothingNew \/ request[q].op = "generate"
  PROVE  IInv'
BY SlotsUnderstand DEF IInv

(* A request that ends keeps the invariant.                                *)
LEMMA EndStep ==
  ASSUME IInv, RowsHold' /\ Onward, NEW q \in Slots, End(q), NothingNew \/ request[q].op = "generate"
  PROVE  IInv'
<1> PICK r : r = NoRequest
  OBVIOUS
<1>1. Begin(q, r) /\ Understood(r)' /\ r.op # "generate"
  BY IdleUnderstands DEF End, NoRequest
<1> QED  BY <1>1, SlotStep

(* Reading, and giving up: a request begins or ends and no row changes.    *)
ReadsOrFails(q) == \/ ReadSchedule(q) \/ ReadExisting(q) \/ ReadNational(q)
                   \/ ReadRemoval(q) \/ ReadRoster(q) \/ Fail(q)

(* Reading, or failing, changes no row.                                    *)
LEMMA ReadingTouchesNothing ==
  ASSUME RowsHold, NEW q \in Slots, ReadsOrFails(q)
  PROVE  UNCHANGED <<holidays, classes, created, declared>> /\ RowsHold' /\ Onward /\ NothingNew /\ ByHand
<1>1. UNCHANGED <<now, schedule, holidays, classes, created, declared>>
  BY DEF ReadsOrFails, ReadSchedule, ReadExisting, ReadNational, ReadRemoval, ReadRoster, Fail
<1>2. edits' \in Nat
  <2>1. edits \in Nat
    BY DEF RowsHold, TypeOK
  <2>2. edits' = edits \/ edits' = edits + 1
    BY DEF ReadsOrFails, ReadSchedule, ReadExisting, ReadNational, ReadRemoval, ReadRoster, Fail
  <2> QED  BY <2>1, <2>2
<1>3. \E r : Begin(q, r)
  BY DEF ReadsOrFails, ReadSchedule, ReadExisting, ReadNational, ReadRemoval, ReadRoster, Fail, End
<1>4. DOMAIN request' = Slots
  BY <1>3 DEF Begin, RowsHold, TypeOK
<1>5. now' \in Nat /\ schedule' \in Schedules
  BY <1>1 DEF RowsHold, TypeOK
<1> QED  BY <1>1, <1>2, <1>4, <1>5, RowsStay

(* What a plan has read first: the holidays and the schedule.              *)
LEMMA ReadScheduleBegins ==
  ASSUME RowsHold, NEW q \in Slots, ReadSchedule(q)
  PROVE  \E r : /\ Begin(q, r) /\ r.op = "generate" /\ r.at = "read"
                /\ r.holidays = {holidays[h] : h \in DOMAIN holidays}
                /\ ~Planning /\ Idle(q, "generate")
                /\ \A w \in DOMAIN r.schedule : r.schedule[w] \in Durations
<1>1. PICK p, replace : Begin(q, [op |-> "generate", at |-> "read", period |-> p, replace |-> replace,
               schedule |-> schedule, holidays |-> {holidays[h] : h \in DOMAIN holidays}])
  BY DEF ReadSchedule
<1>2. \A w \in DOMAIN schedule : schedule[w] \in Durations
  BY DEF RowsHold, TypeOK, Schedules
<1>3. ~Planning /\ Idle(q, "generate")
  BY DEF ReadSchedule
<1> PICK r : r = [op |-> "generate", at |-> "read", period |-> p, replace |-> replace,
               schedule |-> schedule, holidays |-> {holidays[h] : h \in DOMAIN holidays}]
  OBVIOUS
<1> QED  BY <1>1, <1>2, <1>3

(* What a plan has decided once it has read the classes.                   *)
LEMMA ReadExistingPlans ==
  ASSUME RowsHold, NEW q \in Slots, ReadExisting(q)
  PROVE  /\ request[q].op = "generate" /\ request[q].at = "read"
         /\ \E r : /\ Begin(q, r) /\ r.op = "generate" /\ r.at = "planned"
                   /\ \A c \in r.toReplace : c \in DOMAIN classes /\ ~ classes[c].attended
                   /\ DOMAIN r.toCreate \subseteq Occurrences(request[q])
                   /\ \A d \in DOMAIN r.toCreate : r.toCreate[d] = request[q].schedule[d % WeekLength]
                   /\ \A c \in DOMAIN classes \ r.toReplace : classes[c].day \notin DOMAIN r.toCreate
<1> PICK was : was = request[q]
  OBVIOUS
<1> DEFINE toReplace == {c \in Existing(was) : Replaceable(was, classes[c])}
           kept == {classes[c].day : c \in Existing(was) \ toReplace}
           toCreate == [d \in Occurrences(was) \ kept |-> was.schedule[d % WeekLength]]
<1>1. /\ was.op = "generate" /\ was.at = "read"
      /\ Begin(q, [op |-> "generate", at |-> "planned", toReplace |-> toReplace, toCreate |-> toCreate])
  BY DEF ReadExisting
<1>2. \A c \in toReplace : c \in DOMAIN classes /\ ~ classes[c].attended
  BY DEF Existing, Replaceable
<1>3. ASSUME NEW c \in DOMAIN classes \ toReplace, classes[c].day \in Occurrences(was)  PROVE classes[c].day \in kept
  <2>1. c \in Existing(was)
    BY <1>3 DEF Existing, Occurrences
  <2> QED  BY <1>3, <2>1
<1> HIDE DEF toReplace, kept
<1>4. /\ DOMAIN toCreate = Occurrences(was) \ kept
      /\ \A d \in DOMAIN toCreate : toCreate[d] = was.schedule[d % WeekLength]
  OBVIOUS
<1> HIDE DEF toCreate
<1> PICK r : r = [op |-> "generate", at |-> "planned", toReplace |-> toReplace, toCreate |-> toCreate]
  OBVIOUS
<1>5. /\ Begin(q, r) /\ r.op = "generate" /\ r.at = "planned"
      /\ r.toReplace = toReplace /\ r.toCreate = toCreate
  BY <1>1
<1>6. \A c \in DOMAIN classes \ toReplace : classes[c].day \notin DOMAIN toCreate
  BY <1>3, <1>4
<1>7. DOMAIN toCreate \subseteq Occurrences(was)
  BY <1>4
<1> QED  BY <1>1, <1>2, <1>4, <1>5, <1>6, <1>7

(* What an import of national holidays starts from.                        *)
LEMMA ReadNationalBegins ==
  ASSUME NEW q \in Slots, ReadNational(q)
  PROVE  Idle(q, "import") /\ \E r : Begin(q, r) /\ r.op = "import" /\ r.days \subseteq Days
<1> PICK r : Begin(q, r) /\ r.op = "import" /\ r.days \subseteq NationalDays
  BY DEF ReadNational
<1> QED  BY CalendarAssumption DEF ReadNational

(* What the removal of a holiday has decided from what it read.            *)
LEMMA ReadRemovalBegins ==
  ASSUME RowsHold, NEW q \in Slots, ReadRemoval(q)
  PROVE  /\ Idle(q, "remove")
         /\ \E r : /\ Begin(q, r) /\ r.op = "remove" /\ r.holiday \in DOMAIN holidays
                   /\ \A c \in DOMAIN classes : classes[c].holiday = r.holiday => c \in r.restore \cup DOMAIN r.to
                   /\ r.restore \cup DOMAIN r.to \subseteq DOMAIN classes
                   /\ r.restore \cap DOMAIN r.to = {}
                   /\ \A c \in DOMAIN r.to : /\ r.to[c] \in DOMAIN holidays \ {r.holiday}
                                             /\ Within(classes[c].day, holidays[r.to[c]])
                   /\ \A c \in r.restore, h \in DOMAIN holidays \ {r.holiday} :
                        ~Within(classes[c].day, holidays[h])
<1>1. PICK gone \in DOMAIN holidays :
        LET cancelled == {c \in DOMAIN classes : classes[c].holiday = gone}
            covers(c) == {i \in Others(gone) : Within(classes[c].day, holidays[i])}
            reassigned == {c \in cancelled : covers(c) # {}}
        IN
        /\ Idle(q, "remove")
        /\ \E to \in [reassigned -> DOMAIN holidays] :
             /\ \A c \in reassigned : to[c] \in covers(c)
             /\ Begin(q, [op |-> "remove", holiday |-> gone, to |-> to, restore |-> cancelled \ reassigned])
  BY DEF ReadRemoval
<1> DEFINE cancelled == {c \in DOMAIN classes : classes[c].holiday = gone}
           covers(c) == {i \in Others(gone) : Within(classes[c].day, holidays[i])}
           reassigned == {c \in cancelled : covers(c) # {}}
<1>2. PICK to \in [reassigned -> DOMAIN holidays] :
             /\ \A c \in reassigned : to[c] \in covers(c)
             /\ Begin(q, [op |-> "remove", holiday |-> gone, to |-> to, restore |-> cancelled \ reassigned])
  BY <1>1
<1>3. \A c \in DOMAIN to : to[c] \in DOMAIN holidays \ {gone} /\ Within(classes[c].day, holidays[to[c]])
  BY <1>2 DEF Others
<1>4. \A c \in cancelled \ reassigned, h \in DOMAIN holidays \ {gone} : ~Within(classes[c].day, holidays[h])
  BY DEF Others
<1>5. cancelled \subseteq DOMAIN classes /\ DOMAIN to = reassigned /\ reassigned \subseteq cancelled
      /\ \A c \in DOMAIN classes : classes[c].holiday = gone => c \in cancelled
  OBVIOUS
<1> HIDE DEF cancelled, reassigned
<1> PICK r : r = [op |-> "remove", holiday |-> gone, to |-> to, restore |-> cancelled \ reassigned]
  OBVIOUS
<1>6. Begin(q, r) /\ r.op = "remove" /\ r.holiday = gone /\ r.to = to /\ r.restore = cancelled \ reassigned
  BY <1>2
<1>7. Idle(q, "remove")
  BY <1>1
<1>8. \A c \in DOMAIN classes : classes[c].holiday = gone => c \in r.restore \cup DOMAIN to
  BY <1>5, <1>6
<1>9. r.restore \cup DOMAIN to \subseteq DOMAIN classes /\ r.restore \cap DOMAIN to = {}
  BY <1>5, <1>6
<1> QED  BY <1>3, <1>4, <1>6, <1>7, <1>8, <1>9

(* What marking attendance starts from.                                    *)
LEMMA ReadRosterBegins ==
  ASSUME NEW q \in Slots, ReadRoster(q)
  PROVE  Idle(q, "save") /\ \E r : Begin(q, r) /\ r.op = "save"
BY DEF ReadRoster

(* The step of a request that reads or fails.                              *)
LEMMA RequestStep ==
  ASSUME IInv, NEW q \in Slots, ReadsOrFails(q)
  PROVE  IInv'
<1>1. RowsHold /\ RowsHold' /\ Onward /\ NothingNew /\ UNCHANGED <<holidays, classes, created, declared>>
  BY ReadingTouchesNothing DEF IInv
<1>2. Understood(request[q])
  BY DEF IInv
<1>3. DOMAIN classes \subseteq 1..created /\ DOMAIN holidays \subseteq 1..declared
  BY <1>1 DEF RowsHold, TypeOK
<1>4. CASE ReadSchedule(q)
  <2> PICK r : /\ Begin(q, r) /\ r.op = "generate" /\ r.at = "read" /\ ~Planning
               /\ \A w \in DOMAIN r.schedule : r.schedule[w] \in Durations
    BY <1>1, <1>4, ReadScheduleBegins
  <2>1. Understood(r)'
    BY DEF Understood
  <2> QED  BY <1>1, <2>1, SlotStep
<1>5. CASE ReadExisting(q)
  <2>1. request[q].op = "generate" /\ request[q].at = "read"
    BY <1>1, <1>5, ReadExistingPlans
  <2>2. PICK r : /\ Begin(q, r) /\ r.op = "generate" /\ r.at = "planned"
                 /\ \A c \in r.toReplace : c \in DOMAIN classes
                 /\ DOMAIN r.toCreate \subseteq Occurrences(request[q])
                 /\ \A d \in DOMAIN r.toCreate : r.toCreate[d] = request[q].schedule[d % WeekLength]
                 /\ \A c \in DOMAIN classes \ r.toReplace : classes[c].day \notin DOMAIN r.toCreate
    BY <1>1, <1>5, ReadExistingPlans
  <2>3. \A d \in DOMAIN r.toCreate : d \in Days /\ r.toCreate[d] \in Durations
    BY <1>2, <2>1, <2>2 DEF Occurrences, Understood
  <2>4. Understood(r)'
    BY <1>1, <1>3, <2>2, <2>3 DEF Understood
  <2> QED  BY <1>1, <2>1, <2>2, <2>4, SlotStep
<1>6. CASE ReadNational(q)
  <2> PICK r : Begin(q, r) /\ r.op = "import" /\ r.days \subseteq Days
    BY <1>6, ReadNationalBegins
  <2>1. Understood(r)'
    BY DEF Understood
  <2> QED  BY <1>1, <2>1, SlotStep
<1>7. CASE ReadRemoval(q)
  <2>1. PICK r : /\ Begin(q, r) /\ r.op = "remove" /\ r.holiday \in DOMAIN holidays
                 /\ r.restore \cup DOMAIN r.to \subseteq DOMAIN classes
                 /\ r.restore \cap DOMAIN r.to = {}
                 /\ \A c \in DOMAIN r.to : r.to[c] \in DOMAIN holidays \ {r.holiday}
    BY <1>1, <1>7, ReadRemovalBegins
  <2>2. Understood(r)'
    BY <1>1, <1>3, <2>1 DEF Understood
  <2> QED  BY <1>1, <2>1, <2>2, SlotStep
<1>8. CASE ReadRoster(q)
  <2> PICK r : Begin(q, r) /\ r.op = "save"
    BY <1>8, ReadRosterBegins
  <2>1. Understood(r)'
    BY DEF Understood
  <2> QED  BY <1>1, <2>1, SlotStep
<1>9. CASE Fail(q)
  BY <1>1, <1>9, EndStep DEF Fail
<1> QED  BY <1>4, <1>5, <1>6, <1>7, <1>8, <1>9 DEF ReadsOrFails

(* What people do by hand.                                                 *)
ByHandAction(c) == UpdateSession(c) \/ RemoveSession(c) \/ bulkUpsert(c) \/ RemoveAttendance(c)

(* A class created by hand gets a new number, on no holiday.               *)
LEMMA CreateSessionStep ==
  ASSUME RowsHold, CreateSession
  PROVE  RowsHold' /\ Onward /\ NothingNew /\ ByHand /\ UNCHANGED request
<1> PICK d \in Days, status \in Statuses, length \in Durations :
      classes' = [c \in DOMAIN classes \cup {created + 1} |->
                    IF c = created + 1 THEN Class(d, length, status, FALSE) ELSE classes[c]]
  BY DEF CreateSession
<1>1. UNCHANGED <<now, schedule, holidays, request, declared>> /\ edits' = edits + 1 /\ created' = created + 1
  BY DEF CreateSession, Edit
<1>2. created \in Nat /\ DOMAIN classes \subseteq 1..created
  BY DEF RowsHold, TypeOK
<1>3. DOMAIN classes' = DOMAIN classes \cup {created + 1}
  OBVIOUS
<1> PICK new : new = Class(d, length, status, FALSE)
  OBVIOUS
<1>4. classes'[created + 1] = new /\ \A c \in DOMAIN classes : classes'[c] = classes[c]
  <2> PICK id : id = created + 1
    OBVIOUS
  <2>1. id \notin DOMAIN classes
    BY <1>2
  <2>2. classes' = [c \in DOMAIN classes \cup {id} |-> IF c = id THEN new ELSE classes[c]]
    OBVIOUS
  <2> QED  BY <2>1, <2>2
<1>5. new \in ClassRow /\ new.holiday = NoHoliday /\ ~ new.untouched
  <2>1. status \in {"SCHEDULED", "COMPLETED", "CANCELLED"} /\ FALSE \in BOOLEAN
    BY CalendarAssumption
  <2> QED  BY <2>1 DEF Class, ClassRow, NoHoliday
<1>6. ByHand
  <2>1. \A c \in DOMAIN classes' : c \in 1..created => c \in DOMAIN classes
    BY <1>2, <1>3
  <2>2. \A c \in DOMAIN classes' : (c \in DOMAIN classes /\ classes'[c] = classes[c]) \/ ~ classes'[c].untouched
    BY <1>3, <1>4, <1>5
  <2>3. created' \in Nat /\ created <= created' /\ UNCHANGED <<holidays, declared>>
    BY <1>1, <1>2
  <2> QED  BY <2>1, <2>2, <2>3 DEF ByHand
<1>7. \A c \in DOMAIN classes' :
        /\ classes'[c] \in ClassRow /\ classes'[c].holiday \in DOMAIN holidays \cup {NoHoliday}
        /\ classes'[c].untouched => ~ classes'[c].attended
  BY <1>3, <1>4, <1>5 DEF RowsHold, TypeOK, UntouchedIsNew
<1>8. /\ DOMAIN classes' \subseteq 1..created' /\ now' \in Nat /\ schedule' \in Schedules /\ edits' \in Nat
      /\ DOMAIN request' = Slots
  BY <1>1, <1>2, <1>3 DEF RowsHold, TypeOK
<1> QED  BY <1>1, <1>6, <1>7, <1>8, HandsOff

(* A change made by hand to one class keeps the rows in order.             *)
LEMMA ByHandActionStep ==
  ASSUME RowsHold, NEW c \in DOMAIN classes, ByHandAction(c)
  PROVE  RowsHold' /\ Onward /\ NothingNew /\ ByHand /\ UNCHANGED request
<1>1. /\ UNCHANGED <<now, schedule, holidays, request, declared, created>> /\ edits' \in Nat
      /\ DOMAIN request' = Slots
  BY DEF ByHandAction, UpdateSession, RemoveSession, bulkUpsert, RemoveAttendance, Edit, RowsHold, TypeOK
<1> PICK was \in ClassRow : was = classes[c]
  BY DEF RowsHold, TypeOK
<1>2. CASE RemoveSession(c)
  <2>1. classes' = [x \in DOMAIN classes \ {c} |-> classes[x]]
    BY <1>2 DEF RemoveSession
  <2>2. ByHand
    BY <1>1, <2>1 DEF ByHand, RowsHold, TypeOK
  <2>3. \A x \in DOMAIN classes' :
          /\ classes'[x] \in ClassRow /\ classes'[x].holiday \in DOMAIN holidays \cup {NoHoliday}
          /\ classes'[x].untouched => ~ classes'[x].attended
    BY <2>1 DEF RowsHold, TypeOK, UntouchedIsNew
  <2>4. DOMAIN classes' \subseteq 1..created' /\ now' \in Nat /\ schedule' \in Schedules
    BY <1>1, <2>1 DEF RowsHold, TypeOK
  <2> QED  BY <1>1, <2>2, <2>3, <2>4, HandsOff
<1>3. CASE ~ RemoveSession(c)
  <2>1. PICK row \in ClassRow : row.holiday = was.holiday /\ Touch(c, row)
    <3>1. CASE \E s \in Statuses \ {was.status} : Touch(c, [was EXCEPT !.status = s])
      <4> PICK s \in Statuses : Touch(c, [was EXCEPT !.status = s])
        BY <3>1
      <4> PICK row : row = [was EXCEPT !.status = s]
        OBVIOUS
      <4>1. row \in ClassRow /\ row.holiday = was.holiday
        BY CalendarAssumption DEF ClassRow
      <4> QED  BY <4>1
    <3>2. CASE \E d \in Days \ {was.day} : Touch(c, [was EXCEPT !.day = d])
      <4> PICK d \in Days : Touch(c, [was EXCEPT !.day = d])
        BY <3>2
      <4> PICK row : row = [was EXCEPT !.day = d]
        OBVIOUS
      <4>1. row \in ClassRow /\ row.holiday = was.holiday
        BY DEF ClassRow
      <4> QED  BY <4>1
    <3>3. CASE \E a \in BOOLEAN : Touch(c, [was EXCEPT !.attended = a])
      <4> PICK a \in BOOLEAN : Touch(c, [was EXCEPT !.attended = a])
        BY <3>3
      <4> PICK row : row = [was EXCEPT !.attended = a]
        OBVIOUS
      <4>1. row \in ClassRow /\ row.holiday = was.holiday
        BY DEF ClassRow
      <4> QED  BY <4>1
    <3>4. CASE \E n \in Durations \ {was.duration} : Touch(c, [was EXCEPT !.duration = n])
      <4> PICK n \in Durations : Touch(c, [was EXCEPT !.duration = n])
        BY <3>4
      <4> PICK row : row = [was EXCEPT !.duration = n]
        OBVIOUS
      <4>1. row \in ClassRow /\ row.holiday = was.holiday
        BY DEF ClassRow
      <4> QED  BY <4>1
    <3> QED  BY <1>3, <3>1, <3>2, <3>3, <3>4 DEF ByHandAction, UpdateSession, bulkUpsert, RemoveAttendance
  <2> QED  BY <1>1, <2>1, TouchStep
<1> QED  BY <1>2, <1>3

(* Marking attendance changes the rows of one class.                       *)
LEMMA SaveAttendanceStep ==
  ASSUME RowsHold, NEW q \in Slots, saveAttendance(q)
  PROVE  RowsHold' /\ Onward /\ NothingNew /\ ByHand
<1> PICK c : c = request[q].class
  OBVIOUS
<1>1. /\ UNCHANGED <<now, schedule, holidays, created, declared, edits>>
      /\ IF c \in DOMAIN classes THEN Touch(c, [classes[c] EXCEPT !.attended = TRUE]) ELSE UNCHANGED classes
      /\ End(q)
  BY DEF saveAttendance
<1>2. edits' \in Nat /\ DOMAIN request' = Slots /\ now' \in Nat /\ schedule' \in Schedules
  BY <1>1 DEF End, Begin, RowsHold, TypeOK
<1>3. CASE c \in DOMAIN classes
  <2> PICK was \in ClassRow : was = classes[c]
    BY <1>3 DEF RowsHold, TypeOK
  <2> PICK row : row = [was EXCEPT !.attended = TRUE]
    OBVIOUS
  <2>1. row \in ClassRow /\ row.holiday = was.holiday
    BY DEF ClassRow
  <2>2. Touch(c, row)
    BY <1>1, <1>3
  <2> QED  BY <1>1, <1>2, <1>3, <2>1, <2>2, TouchStep
<1>4. CASE c \notin DOMAIN classes
  BY <1>1, <1>2, <1>4, RowsStay
<1> QED  BY <1>3, <1>4

(* Declaring days without classes.                                         *)
LEMMA DeclareStep ==
  ASSUME RowsHold, NEW new, Declare(new), Cardinality(DOMAIN new) \in Nat,
         DOMAIN new \subseteq (declared + 1)..(declared + Cardinality(DOMAIN new)),
         \A h \in DOMAIN new : new[h] \in Periods,
         UNCHANGED <<now, schedule, created, edits>>, DOMAIN request' = Slots
  PROVE  RowsHold' /\ Onward /\ NothingNew
<1>1. declared \in Nat /\ created \in Nat /\ DOMAIN holidays \subseteq 1..declared
  BY DEF RowsHold, TypeOK
<1>2. DOMAIN new \subseteq Nat /\ \A h \in DOMAIN new : h > declared
  BY <1>1
<1>3. /\ DOMAIN holidays' = DOMAIN holidays \cup DOMAIN new
      /\ \A h \in DOMAIN new : holidays'[h] = new[h]
      /\ \A h \in DOMAIN holidays : holidays'[h] = holidays[h]
      /\ declared' = declared + Cardinality(DOMAIN new)
      /\ DOMAIN classes' = DOMAIN classes
  BY <1>2, Declared
<1>4. ASSUME NEW c \in DOMAIN classes
      PROVE  /\ classes'[c] \in ClassRow /\ classes'[c].holiday \in DOMAIN holidays' \cup {NoHoliday}
             /\ classes'[c].untouched = classes[c].untouched /\ classes'[c].day = classes[c].day
             /\ classes'[c].attended = classes[c].attended
  <2> PICK was \in ClassRow : was = classes[c] /\ was.holiday \in DOMAIN holidays \cup {NoHoliday}
    BY DEF RowsHold, TypeOK
  <2>1. CASE classes'[c] = was
    BY <1>3, <2>1
  <2>2. CASE \E h \in DOMAIN new : classes'[c] = CancelledBy(was, h)
    <3> PICK h \in DOMAIN new : classes'[c] = CancelledBy(was, h)
      BY <2>2
    <3> PICK row : row = CancelledBy(was, h)
      OBVIOUS
    <3>1. h \in Nat
      BY <1>2
    <3>2. /\ row \in ClassRow /\ row.holiday = h
          /\ row.day = was.day /\ row.untouched = was.untouched /\ row.attended = was.attended
      BY <3>1, CancelledRow
    <3> QED  BY <1>3, <3>2
  <2>3. \/ classes'[c] = classes[c]
        \/ \E h \in DOMAIN new : classes'[c] = CancelledBy(classes[c], h)
    BY <1>2, Declared
  <2> QED  BY <2>1, <2>2, <2>3
<1>5. TypeOK'
  <2>1. DOMAIN holidays' \subseteq 1..declared' /\ declared' \in Nat
    BY <1>1, <1>3
  <2>2. \A h \in DOMAIN holidays' : holidays'[h] \in Periods
    BY <1>3 DEF RowsHold, TypeOK
  <2> QED  BY <1>3, <1>4, <2>1, <2>2 DEF RowsHold, TypeOK
<1>6. NoTwins'
  <2>1. ASSUME NEW c \in DOMAIN classes, NEW d \in DOMAIN classes, c # d,
               classes'[c].untouched, classes'[d].untouched
        PROVE  classes'[c].day # classes'[d].day
    <3>1. classes[c].untouched /\ classes[d].untouched
      BY <1>4, <2>1
    <3>2. classes[c].day # classes[d].day
      BY <2>1, <3>1 DEF RowsHold, NoTwins
    <3> QED  BY <1>4, <3>2
  <2> QED  BY <1>3, <2>1 DEF NoTwins
<1>7. UntouchedIsNew'
  BY <1>3, <1>4 DEF RowsHold, UntouchedIsNew
<1>8. Onward
  BY <1>1, <1>3, <1>4 DEF Onward
<1>9. NothingNew
  BY <1>3 DEF NothingNew, RowsHold, TypeOK
<1> QED  BY <1>5, <1>6, <1>7, <1>8, <1>9 DEF RowsHold

(* A declaration adds one holiday and gives it its classes.                *)
LEMMA createHolidayStep ==
  ASSUME RowsHold, createHoliday
  PROVE  RowsHold' /\ Onward /\ NothingNew /\ UNCHANGED request
<1>1. UNCHANGED <<now, schedule, request, created, edits>>
  BY DEF createHoliday
<1> PICK p \in Periods : Declare([h \in {declared + 1} |-> p])
  BY DEF createHoliday
<1> PICK new : new = [h \in {declared + 1} |-> p]
  OBVIOUS
<1>2. DOMAIN new = {declared + 1} /\ \A h \in DOMAIN new : new[h] \in Periods
  OBVIOUS
<1>3. Cardinality(DOMAIN new) = 1 /\ declared \in Nat
  BY <1>2, FS_Singleton DEF RowsHold, TypeOK
<1>4. DOMAIN new \subseteq (declared + 1)..(declared + Cardinality(DOMAIN new))
  BY <1>2, <1>3
<1>5. DOMAIN request' = Slots
  BY <1>1 DEF RowsHold, TypeOK
<1> QED  BY <1>1, <1>2, <1>3, <1>4, <1>5, DeclareStep

(* The ids of the imported holidays, and their periods.                    *)
LEMMA Imported ==
  ASSUME RowsHold, NEW q \in Slots, importNational(q), request[q].days \subseteq Days
  PROVE  \E new : /\ Declare(new) /\ Cardinality(DOMAIN new) \in Nat
                  /\ DOMAIN new \subseteq (declared + 1)..(declared + Cardinality(DOMAIN new))
                  /\ \A h \in DOMAIN new : new[h] \in Periods
<1> PICK n \in Nat : n = declared
  BY DEF RowsHold, TypeOK
<1> PICK days \in SUBSET Nat : days = request[q].days
  BY CalendarAssumption
<1> DEFINE Id(d) == n + Cardinality(Upto(days, d))
           DayOf(h) == CHOOSE x \in days : Id(x) = h
           ids == {Id(d) : d \in days}
<1> PICK new : new = [h \in ids |-> LET d == CHOOSE x \in days : Id(x) = h IN [from |-> d, to |-> d]]
  OBVIOUS
<1>1. Declare(new)
  BY DEF importNational, Upto
<1>2. IsFiniteSet(days)
  BY CalendarAssumption, FS_Subset
<1>3. Cardinality(days) \in Nat
  BY <1>2, FS_CardinalityType
<1>4. \A d \in days : Id(d) \in (n + 1)..(n + Cardinality(days)) /\ \A e \in days : Id(e) = Id(d) => e = d
  BY <1>2, Numbering
<1> HIDE DEF Id
<1>5. \A h \in ids : DayOf(h) \in days
  OBVIOUS
<1>6. \A h \in ids : new[h] = [from |-> DayOf(h), to |-> DayOf(h)]
  OBVIOUS
<1> HIDE DEF DayOf
<1>7. \A h \in ids : new[h] \in Periods
  <2> TAKE h \in ids
  <2> PICK d \in days : d = DayOf(h)
    BY <1>5
  <2>1. new[h] = [from |-> d, to |-> d] /\ d \in Days /\ d <= d
    BY <1>6, SMTT(40)
  <2> QED  BY <2>1 DEF Periods
<1>8. DOMAIN new = ids /\ ids \subseteq (n + 1)..(n + Cardinality(days))
  BY <1>4
<1>9. IsFiniteSet(ids) /\ Cardinality(ids) = Cardinality(days)
  <2> PICK f : f = [d \in days |-> Id(d)]
    OBVIOUS
  <2>1. f \in [days -> ids] /\ \A d \in days : f[d] = Id(d)
    OBVIOUS
  <2>2. \A t \in ids : \E d \in days : f[d] = t
    BY <2>1
  <2> HIDE DEF ids
  <2>3. f \in Bijection(days, ids)
    BY <1>4, <2>1, <2>2 DEF Bijection, Injection, IsInjective, Surjection
  <2> QED  BY <1>2, <2>3, FS_Bijection DEF ExistsBijection
<1> QED  BY <1>1, <1>3, <1>7, <1>8, <1>9

(* An import declares the days that it read, all at once.                  *)
LEMMA importNationalStep ==
  ASSUME RowsHold, NEW q \in Slots, importNational(q), request[q].days \subseteq Days
  PROVE  RowsHold' /\ Onward /\ NothingNew
<1>1. UNCHANGED <<now, schedule, created, edits>> /\ DOMAIN request' = Slots
  BY DEF importNational, End, Begin, RowsHold, TypeOK
<1> PICK new : /\ Declare(new) /\ Cardinality(DOMAIN new) \in Nat
               /\ DOMAIN new \subseteq (declared + 1)..(declared + Cardinality(DOMAIN new))
               /\ \A h \in DOMAIN new : new[h] \in Periods
  BY Imported
<1> QED  BY <1>1, DeclareStep

(* Removing a holiday.                                                     *)
Removes(r) == r.holiday \in DOMAIN holidays /\ \A c \in DOMAIN r.to \cap DOMAIN classes : r.to[c] \in DOMAIN holidays

(* The rows after a removal, class by class.                               *)
LEMMA RemovedRows ==
  ASSUME RowsHold, NEW q \in Slots, NEW r, r = request[q], remove(q), Understood(r), Removes(r)
  PROVE  /\ DOMAIN holidays' = DOMAIN holidays \ {r.holiday}
         /\ \A h \in DOMAIN holidays' : holidays'[h] = holidays[h]
         /\ DOMAIN classes' = DOMAIN classes
         /\ \A c \in DOMAIN classes : AfterRemoval(classes'[c], classes[c], c, r)
<1>1. /\ holidays' = [h \in DOMAIN holidays \ {r.holiday} |-> holidays[h]]
      /\ classes' = SetNull(r.holiday, [c \in DOMAIN classes |->
               CASE c \in r.restore -> Restored(classes[c])
                 [] c \in DOMAIN r.to -> [classes[c] EXCEPT !.holiday = r.to[c]]
                 [] OTHER -> classes[c]])
  BY DEF remove, Removes
<1>2. /\ \A c \in DOMAIN r.to : r.to[c] \in Nat /\ r.to[c] # r.holiday
      /\ r.restore \cap DOMAIN r.to = {}
  BY DEF Understood, remove
<1>3. DOMAIN holidays' = DOMAIN holidays \ {r.holiday} /\ \A h \in DOMAIN holidays' : holidays'[h] = holidays[h]
  BY <1>1
<1> QED  BY <1>1, <1>2, <1>3, Removed

(* A removal keeps the rows in order.                                      *)
LEMMA removeStep ==
  ASSUME RowsHold, NEW q \in Slots, remove(q), Understood(request[q])
  PROVE  RowsHold' /\ Onward /\ NothingNew
<1> PICK r : r = request[q]
  OBVIOUS
<1>1. r.op = "remove" /\ End(q) /\ UNCHANGED <<now, schedule, created, declared, edits>>
      /\ RowsHold /\ Understood(r)
  BY DEF remove
<1>2. now' \in Nat /\ schedule' \in Schedules /\ edits' \in Nat /\ DOMAIN request' = Slots
  BY <1>1 DEF End, Begin, RowsHold, TypeOK
<1>3. CASE Removes(r)
  <2>2. \A c \in DOMAIN r.to : r.to[c] # r.holiday
    BY <1>1 DEF Understood
  <2>3. DOMAIN classes' = DOMAIN classes
    BY <1>1, <1>3, RemovedRows
  <2>4. \A c \in DOMAIN classes : AfterRemoval(classes'[c], classes[c], c, r)
    BY <1>1, <1>3, RemovedRows
  <2>5. DOMAIN holidays' = DOMAIN holidays \ {r.holiday} /\ \A h \in DOMAIN holidays' : holidays'[h] = holidays[h]
    BY <1>1, <1>3, RemovedRows
  <2>6. ASSUME NEW c \in DOMAIN classes  PROVE classes'[c].holiday \in DOMAIN holidays' \cup {NoHoliday}
    <3>1. classes[c].holiday \in DOMAIN holidays \cup {NoHoliday}
      BY DEF RowsHold, TypeOK
    <3>2. c \in DOMAIN r.to => r.to[c] \in DOMAIN holidays \ {r.holiday}
      BY <1>3, <2>2 DEF Removes
    <3> QED  BY <2>4, <2>5, <3>1, <3>2 DEF AfterRemoval
  <2>7. TypeOK'
    BY <1>1, <1>2, <2>3, <2>4, <2>5, <2>6 DEF RowsHold, TypeOK, AfterRemoval
  <2>8. NoTwins'
    <3>1. ASSUME NEW c \in DOMAIN classes, NEW d \in DOMAIN classes, c # d,
                 classes'[c].untouched, classes'[d].untouched
          PROVE  classes'[c].day # classes'[d].day
      <4>1. classes[c].untouched /\ classes[d].untouched
        BY <2>4, <3>1 DEF AfterRemoval
      <4>2. classes[c].day # classes[d].day
        BY <3>1, <4>1 DEF RowsHold, NoTwins
      <4> QED  BY <2>4, <4>2 DEF AfterRemoval
    <3> QED  BY <2>3, <3>1 DEF NoTwins
  <2>9. UntouchedIsNew'
    BY <2>3, <2>4 DEF RowsHold, UntouchedIsNew, AfterRemoval
  <2>10. Onward
    <3>1. created' \in Nat /\ created <= created' /\ declared' \in Nat /\ declared <= declared'
      BY <1>1 DEF RowsHold, TypeOK
    <3>2. \A c \in DOMAIN classes' : c \in DOMAIN classes /\ classes'[c].untouched = classes[c].untouched
                                     /\ classes'[c].day = classes[c].day
      BY <2>3, <2>4 DEF AfterRemoval
    <3> QED  BY <2>5, <3>1, <3>2 DEF Onward
  <2>11. NothingNew
    BY <2>3 DEF NothingNew, RowsHold, TypeOK
  <2> QED  BY <2>7, <2>8, <2>9, <2>10, <2>11 DEF RowsHold
<1>4. CASE ~ Removes(r)
  <2>1. UNCHANGED <<holidays, classes>>
    BY <1>4 DEF remove, Removes
  <2> QED  BY <1>1, <1>2, <2>1, RowsStay
<1> QED  BY <1>3, <1>4

(* Carrying out a plan.                                                    *)
LEMMA generateStep ==
  ASSUME RowsHold, NEW q \in Slots, generate(q), Understood(request[q])
  PROVE  RowsHold' /\ Onward
<1> PICK r : r = request[q]
  OBVIOUS
<1>1. r.op = "generate" /\ r.at = "planned" /\ End(q) /\ UNCHANGED <<now, schedule, holidays, declared, edits>>
  BY DEF generate
<1>2. /\ DOMAIN r.toCreate \subseteq Days /\ \A d \in DOMAIN r.toCreate : r.toCreate[d] \in Durations
      /\ \A c \in DOMAIN classes \ r.toReplace : classes[c].untouched => classes[c].day \notin DOMAIN r.toCreate
  BY <1>1 DEF Understood
<1>3. /\ created' \in Nat /\ created <= created' /\ created \in Nat /\ DOMAIN classes \subseteq 1..created
  BY <1>2, Generated DEF RowsHold, TypeOK
<1> DEFINE Old(c) == c \in DOMAIN classes \ r.toReplace /\ classes'[c] = classes[c]
           New(c) == /\ c \in (created + 1)..created'
                     /\ \E d \in DOMAIN r.toCreate : classes'[c] = Class(d, r.toCreate[d], "SCHEDULED", TRUE)
<1>4. \A c \in DOMAIN classes' : Old(c) \/ New(c)
  BY <1>2, Generated
<1>5. ASSUME NEW c \in DOMAIN classes', New(c)
      PROVE  /\ classes'[c] \in ClassRow /\ classes'[c].holiday = NoHoliday
             /\ classes'[c].day \in DOMAIN r.toCreate /\ ~ classes'[c].attended
  <2> PICK d \in DOMAIN r.toCreate : classes'[c] = Class(d, r.toCreate[d], "SCHEDULED", TRUE)
    BY <1>5
  <2> PICK row : row = Class(d, r.toCreate[d], "SCHEDULED", TRUE)
    OBVIOUS
  <2>1. row \in ClassRow /\ row.holiday = NoHoliday /\ row.day = d /\ ~ row.attended
    BY <1>2 DEF Class, ClassRow, NoHoliday
  <2> QED  BY <2>1
<1>6. TypeOK'
  <2>1. DOMAIN classes' \subseteq 1..created'
    <3> SUFFICES ASSUME NEW c \in DOMAIN classes'  PROVE c \in 1..created'
      OBVIOUS
    <3>1. CASE Old(c)
      BY <1>3, <3>1
    <3>2. CASE New(c)
      BY <1>3, <3>2
    <3> QED  BY <1>4, <3>1, <3>2
  <2>2. ASSUME NEW c \in DOMAIN classes'
        PROVE  classes'[c] \in ClassRow /\ classes'[c].holiday \in DOMAIN holidays' \cup {NoHoliday}
    <3>1. CASE Old(c)
      BY <1>1, <3>1 DEF RowsHold, TypeOK
    <3>2. CASE New(c)
      BY <1>5, <3>2
    <3> QED  BY <1>4, <3>1, <3>2
  <2>3. DOMAIN request' = Slots
    BY <1>1 DEF End, Begin, RowsHold, TypeOK
  <2> QED  BY <1>1, <1>3, <2>1, <2>2, <2>3 DEF RowsHold, TypeOK
<1>7. NoTwins'
  <2>1. ASSUME NEW c \in DOMAIN classes', NEW d \in DOMAIN classes', c # d,
               classes'[c].untouched, classes'[d].untouched
        PROVE  classes'[c].day # classes'[d].day
    <3>1. CASE Old(c) /\ Old(d)
      BY <2>1, <3>1 DEF RowsHold, NoTwins
    <3>2. CASE Old(c) /\ New(d)
      BY <1>2, <1>5, <2>1, <3>2
    <3>3. CASE New(c) /\ Old(d)
      BY <1>2, <1>5, <2>1, <3>3
    <3>4. CASE New(c) /\ New(d)
      <4>1. c > created /\ d > created
        BY <1>3, <3>4
      <4> QED  BY <1>2, <2>1, <4>1, Generated
    <3> QED  BY <1>4, <3>1, <3>2, <3>3, <3>4
  <2> QED  BY <2>1 DEF NoTwins
<1>8. UntouchedIsNew'
  <2>1. ASSUME NEW c \in DOMAIN classes', classes'[c].untouched  PROVE ~ classes'[c].attended
    <3>1. CASE Old(c)
      BY <2>1, <3>1 DEF RowsHold, UntouchedIsNew
    <3>2. CASE New(c)
      BY <1>5, <3>2
    <3> QED  BY <1>4, <3>1, <3>2
  <2> QED  BY <2>1 DEF UntouchedIsNew
<1>9. Onward
  <2>1. ASSUME NEW c \in DOMAIN classes', c \in 1..created  PROVE c \in DOMAIN classes /\ classes'[c] = classes[c]
    <3>1. c \notin (created + 1)..created'
      BY <1>3, <2>1
    <3> QED  BY <1>4, <3>1
  <2>2. declared' = declared /\ holidays' = holidays /\ declared \in Nat
    BY <1>1 DEF RowsHold, TypeOK
  <2> QED  BY <1>3, <2>1, <2>2 DEF Onward
<1> QED  BY <1>6, <1>7, <1>8, <1>9 DEF RowsHold

(* What a step is.                                                         *)
Slotted(q) == ReadsOrFails(q) \/ generate(q) \/ importNational(q) \/ remove(q) \/ saveAttendance(q)
Nobody == put \/ Tick \/ UNCHANGED vars

(* Every step is somebody's.                                               *)
LEMMA Steps ==
  ASSUME [Next]_vars
  PROVE  \/ Nobody \/ createHoliday \/ CreateSession
         \/ \E c \in DOMAIN classes : ByHandAction(c)
         \/ \E q \in Slots : Slotted(q)
BY DEF Next, Nobody, Slotted, ReadsOrFails, ByHandAction

(* Time and the schedule change no class and no holiday.                   *)
LEMMA NobodyStep ==
  ASSUME RowsHold, Nobody
  PROVE  /\ UNCHANGED <<holidays, classes, created, declared, request>>
         /\ RowsHold' /\ Onward /\ NothingNew /\ ByHand
<1>1. UNCHANGED <<holidays, classes, created, declared, request>>
  BY DEF Nobody, put, Tick, vars
<1>2. now' \in Nat /\ schedule' \in Schedules /\ edits' \in Nat /\ DOMAIN request' = Slots
  BY DEF Nobody, put, Tick, vars, RowsHold, TypeOK
<1> QED  BY <1>1, <1>2, RowsStay

(* Every step keeps what is understood, and goes onward.                   *)
LEMMA EveryStep ==
  ASSUME IInv, [Next]_vars
  PROVE  IInv' /\ Onward
<1>1. RowsHold
  BY DEF IInv
<1>2. CASE Nobody
  BY <1>1, <1>2, NobodyStep, ByHandStep
<1>3. CASE createHoliday
  BY <1>1, <1>3, createHolidayStep, ByHandStep
<1>4. CASE CreateSession
  BY <1>1, <1>4, CreateSessionStep, ByHandStep
<1>5. ASSUME NEW c \in DOMAIN classes, ByHandAction(c)  PROVE IInv' /\ Onward
  BY <1>1, <1>5, ByHandActionStep, ByHandStep
<1>6. ASSUME NEW q \in Slots, Slotted(q)  PROVE IInv' /\ Onward
  <2>1. Understood(request[q])
    BY DEF IInv
  <2>2. CASE ReadsOrFails(q)
    BY <1>1, <2>2, RequestStep, ReadingTouchesNothing
  <2>3. CASE generate(q)
    <3>1. RowsHold' /\ Onward
      BY <1>1, <2>1, <2>3, generateStep
    <3>2. End(q) /\ request[q].op = "generate"
      BY <2>3 DEF generate
    <3> QED  BY <3>1, <3>2, EndStep
  <2>4. CASE importNational(q)
    <3>1. End(q) /\ request[q].days \subseteq Days
      BY <2>1, <2>4 DEF importNational, Understood
    <3> QED  BY <1>1, <2>4, <3>1, importNationalStep, EndStep
  <2>5. CASE remove(q)
    <3>1. End(q)
      BY <2>5 DEF remove
    <3> QED  BY <1>1, <2>1, <2>5, <3>1, removeStep, EndStep
  <2>6. CASE saveAttendance(q)
    <3>1. End(q)
      BY <2>6 DEF saveAttendance
    <3> QED  BY <1>1, <2>6, <3>1, SaveAttendanceStep, EndStep
  <2> QED  BY <1>6, <2>2, <2>3, <2>4, <2>5, <2>6 DEF Slotted
<1> QED  BY <1>2, <1>3, <1>4, <1>5, <1>6, Steps

(* The calendar starts empty, with nobody asking.                          *)
LEMMA Initial == Init => IInv
<1> SUFFICES ASSUME Init  PROVE IInv
  OBVIOUS
<1>1. DOMAIN holidays = {} /\ DOMAIN classes = {} /\ request = [q \in Slots |-> NoRequest]
      /\ created = 0 /\ declared = 0 /\ edits = 0 /\ now = 0
  BY DEF Init
<1>2. schedule \in Schedules
  BY DEF Init
<1>3. RowsHold
  BY <1>1, <1>2 DEF RowsHold, TypeOK, UntouchedIsNew, NoTwins
<1>4. OnePlan /\ \A q \in Slots : Understood(request[q])
  BY <1>1 DEF OnePlan, Understood, NoRequest
<1> QED  BY <1>3, <1>4 DEF IInv

-----------------------------------------------------------------------------
(* The theorems.                                                           *)

(* Whatever overlaps, what a request decided earlier still fits the rows   *)
(* it will write (the advisory lock of generate, and ids that are never    *)
(* given again).                                                           *)
THEOREM RequestsUnderstand == Spec => []IInv
<1>1. IInv /\ [Next]_vars => IInv'
  BY EveryStep
<1> QED  BY <1>1, Initial, PTL DEF Spec

(* Every row keeps its type and its foreign key.                           *)
THEOREM CalendarTypes == Spec => []TypeOK
<1>1. IInv => TypeOK
  BY DEF IInv, RowsHold
<1> QED  BY <1>1, RequestsUnderstand, PTL

(* Generating, however many at once and whatever else is going on, never   *)
(* creates a class twice.                                                  *)
THEOREM NeverTwice == Spec => []NoTwins
<1>1. IInv => NoTwins
  BY DEF IInv, RowsHold
<1> QED  BY <1>1, RequestsUnderstand, PTL

(* In every zone, whenever its clock changes and by how much, a class is   *)
(* at its time and on its day.                                             *)
THEOREM ClassesKeepTheirTime == Spec => []LocalTimeKept
<1>1. TypeOK => LocalTimeKept
  <2> SUFFICES ASSUME TypeOK, NEW c \in DOMAIN classes  PROVE classes[c].day \in SoundDays(Days)
    BY DEF LocalTimeKept, SoundCalendar
  <2> PICK d \in Days : d = classes[c].day
    BY DEF TypeOK, ClassRow
  <2>1. d \in Int /\ \A wall \in Hours(d) : wall \in Int
    BY CalendarAssumption DEF Hours, Midnight, DayLength
  <2>2. \A zone \in Zones : zone \in [before : Int, after : Int, at : Int]
    BY ClockAssumption
  <2>3. \A zone \in Zones : IsItsInstants(d, zone)
    BY <2>1, <2>2, DaysAreTheirInstants
  <2>4. \A zone \in Zones : \A wall \in Hours(d) : KeepsTime(wall, zone)
    BY <2>1, <2>2, ConversionKeepsTime
  <2> QED  BY <2>3, <2>4 DEF SoundDays
<1> QED  BY <1>1, CalendarTypes, PTL

-----------------------------------------------------------------------------
(* What a request still knows when it does not overlap with some others.   *)

LEMMA Began ==
  ASSUME RowsHold, NEW q \in Slots, NEW r, Begin(q, r)
  PROVE  request'[q] = r /\ \A p \in Slots \ {q} : request'[p] = request[p]
BY DEF Begin, RowsHold, TypeOK

(* A request that ends leaves the others as they were.                     *)
LEMMA Ended ==
  ASSUME RowsHold, NEW q \in Slots, End(q)
  PROVE  request'[q] = NoRequest /\ \A p \in Slots \ {q} : request'[p] = request[p]
BY DEF End, Begin, RowsHold, TypeOK

(* What may not overlap a request is not under way when it starts.         *)
LEMMA Alone ==
  ASSUME NEW op, NEW others, MayStart(op), \A o \in others : <<op, o>> \notin Overlapping, "idle" \notin others
  PROVE  \A p \in Slots : request[p].op \notin others
<1> TAKE p \in Slots
<1>1. request[p] = NoRequest \/ <<op, request[p].op>> \in Overlapping
  BY DEF MayStart
<1>2. request[p] = NoRequest => request[p].op = "idle"
  BY DEF NoRequest
<1> QED  BY <1>1, <1>2

(* No day without classes is added: what a request knows about them stays  *)
(* true.                                                                   *)
HolidaysOnlyGo == DOMAIN holidays' \subseteq DOMAIN holidays

(* A plan that knows the holidays still does when holidays only go.        *)
LEMMA FreeOutlives ==
  ASSUME RowsHold, Onward, HolidaysOnlyGo, NEW r, Understood(r), KnowsFree(r)
  PROVE  KnowsFree(r)'
<1>1. \A h \in DOMAIN holidays' : h \in DOMAIN holidays /\ holidays'[h] = holidays[h]
  BY DEF HolidaysOnlyGo, Onward, RowsHold, TypeOK
<1>2. CASE r.op = "generate"
  BY <1>1, <1>2 DEF KnowsFree
<1>3. CASE r.op = "remove"
  <2> SUFFICES ASSUME NEW c \in r.restore \cap DOMAIN classes', classes'[c].untouched,
                      NEW h \in DOMAIN holidays' \ {r.holiday}
               PROVE  ~Within(classes'[c].day, holidays'[h])
    BY <1>3 DEF KnowsFree
  <2>1. c \in 1..created
    BY <1>3 DEF Understood
  <2>2. c \in DOMAIN classes /\ classes[c].untouched /\ classes'[c].day = classes[c].day
    BY <2>1 DEF Onward
  <2>3. ~Within(classes[c].day, holidays[h])
    BY <1>1, <1>3, <2>2 DEF KnowsFree
  <2> QED  BY <1>1, <2>2, <2>3
<1>4. CASE r.op \notin Relying
  BY <1>4 DEF KnowsFree, Relying
<1> QED  BY <1>2, <1>3, <1>4 DEF Relying

(* Free is kept by a request's step,                                       *)
LEMMA FreeOfSlots ==
  ASSUME IInv, Free, Onward, HolidaysOnlyGo, NEW q \in Slots, NEW r, Begin(q, r), KnowsFree(r)',
         r.op \in Declaring => \A p \in Slots : request[p].op \notin Relying,
         r.op \in Relying => (\A p \in Slots : request[p].op \notin Declaring),
         FreeOnHolidays'
  PROVE  Free'
<1>1. request'[q] = r /\ \A p \in Slots \ {q} : request'[p] = request[p]
  BY Began DEF IInv
<1>2. r.op \in Declaring => r.op \notin Relying
  BY DEF Declaring, Relying
<1>3. \A p, s \in Slots : ~(request'[p].op \in Declaring /\ request'[s].op \in Relying)
  BY <1>1, <1>2 DEF Free
<1>4. ASSUME NEW p \in Slots  PROVE KnowsFree(request[p])'
  <2>1. CASE p = q
    BY <1>1, <2>1
  <2>2. CASE p # q
    <3> PICK was : was = request[p]
      OBVIOUS
    <3>1. KnowsFree(was)'
      BY FreeOutlives DEF IInv, Free
    <3>2. request'[p] = was
      BY <1>1, <2>2
    <3> QED  BY <3>1, <3>2
  <2> QED  BY <2>1, <2>2
<1> QED  BY <1>3, <1>4 DEF Free

(* by a step of somebody else,                                             *)
LEMMA FreeOfOthers ==
  ASSUME IInv, Free, Onward, HolidaysOnlyGo, UNCHANGED request, FreeOnHolidays'
  PROVE  Free'
<1>1. ASSUME NEW p \in Slots  PROVE KnowsFree(request[p])'
  <2> PICK was : was = request[p]
    OBVIOUS
  <2>1. KnowsFree(was)'
    BY FreeOutlives DEF IInv, Free
  <2>2. request'[p] = was
    OBVIOUS
  <2> QED  BY <2>1, <2>2
<1> QED  BY <1>1 DEF Free

(* by a request that ends,                                                 *)
LEMMA FreeOfEnd ==
  ASSUME IInv, Free, Onward, HolidaysOnlyGo, NEW q \in Slots, End(q), FreeOnHolidays'
  PROVE  Free'
<1> PICK r : r = NoRequest
  OBVIOUS
<1>1. Begin(q, r) /\ KnowsFree(r)' /\ r.op \notin Declaring /\ r.op \notin Relying
  BY DEF End, NoRequest, KnowsFree, Declaring, Relying
<1> QED  BY <1>1, FreeOfSlots

(* by a change made by hand,                                               *)
LEMMA FreeByHand ==
  ASSUME Free, ByHand
  PROVE  FreeOnHolidays' /\ HolidaysOnlyGo
BY DEF Free, FreeOnHolidays, ByHand, HolidaysOnlyGo

(* The operations that declare days without classes do not overlap with    *)
(* those that rely on them.                                                *)
NoDeclaringUnderRelying == Overlapping \cap ((Declaring \X Relying) \cup (Relying \X Declaring)) = {}

(* by reading or failing,                                                  *)
LEMMA FreeRequest ==
  ASSUME IInv, Free, NoDeclaringUnderRelying, NEW q \in Slots, ReadsOrFails(q)
  PROVE  Free'
<1>1. /\ RowsHold /\ Onward /\ ByHand /\ UNCHANGED <<holidays, classes>>
      /\ FreeOnHolidays' /\ HolidaysOnlyGo
  BY ReadingTouchesNothing, FreeByHand DEF IInv
<1>2. "idle" \notin Declaring /\ "idle" \notin Relying
  BY DEF Declaring, Relying
<1>3. \A op \in Relying : \A o \in Declaring : <<op, o>> \notin Overlapping
  BY DEF NoDeclaringUnderRelying
<1>4. \A op \in Declaring : \A o \in Relying : <<op, o>> \notin Overlapping
  BY DEF NoDeclaringUnderRelying
<1>5. CASE ReadSchedule(q)
  <2> PICK r : /\ Begin(q, r) /\ r.op = "generate" /\ r.at = "read"
               /\ r.holidays = {holidays[h] : h \in DOMAIN holidays} /\ Idle(q, "generate")
    BY <1>1, <1>5, ReadScheduleBegins
  <2>1. KnowsFree(r)'
    BY <1>1 DEF KnowsFree
  <2>2. \A p \in Slots : request[p].op \notin Declaring
    BY <1>2, <1>3, Alone DEF Idle, Relying
  <2> QED  BY <1>1, <2>1, <2>2, FreeOfSlots DEF Declaring
<1>6. CASE ReadExisting(q)
  <2>1. request[q].op = "generate" /\ request[q].at = "read"
    BY <1>1, <1>6, ReadExistingPlans
  <2>2. PICK r : /\ Begin(q, r) /\ r.op = "generate" /\ r.at = "planned"
                 /\ DOMAIN r.toCreate \subseteq Occurrences(request[q])
    BY <1>1, <1>6, ReadExistingPlans
  <2>3. \A h \in DOMAIN holidays : holidays[h] \in request[q].holidays
    BY <2>1 DEF Free, KnowsFree
  <2>4. KnowsFree(r)'
    BY <1>1, <2>2, <2>3 DEF KnowsFree, Occurrences
  <2>5. \A p \in Slots : request[p].op \notin Declaring
    BY <2>1 DEF Free, Relying
  <2> QED  BY <1>1, <2>2, <2>4, <2>5, FreeOfSlots DEF Declaring
<1>7. CASE ReadNational(q)
  <2> PICK r : Begin(q, r) /\ r.op = "import" /\ Idle(q, "import")
    BY <1>7, ReadNationalBegins
  <2>1. KnowsFree(r)'
    BY DEF KnowsFree
  <2>2. \A p \in Slots : request[p].op \notin Relying
    BY <1>2, <1>4, Alone DEF Idle, Declaring
  <2> QED  BY <1>1, <2>1, <2>2, FreeOfSlots DEF Relying
<1>8. CASE ReadRemoval(q)
  <2>1. PICK r : /\ Begin(q, r) /\ r.op = "remove"
                 /\ \A c \in r.restore, h \in DOMAIN holidays \ {r.holiday} :
                      ~Within(classes[c].day, holidays[h])
    BY <1>1, <1>8, ReadRemovalBegins
  <2>2. KnowsFree(r)'
    BY <1>1, <2>1 DEF KnowsFree
  <2>3. \A p \in Slots : request[p].op \notin Declaring
    BY <1>1, <1>2, <1>3, <1>8, ReadRemovalBegins, Alone DEF Idle, Relying
  <2> QED  BY <1>1, <2>1, <2>2, <2>3, FreeOfSlots DEF Declaring
<1>9. CASE ReadRoster(q)
  <2> PICK r : Begin(q, r) /\ r.op = "save"
    BY <1>9, ReadRosterBegins
  <2>1. KnowsFree(r)'
    BY DEF KnowsFree
  <2> QED  BY <1>1, <2>1, FreeOfSlots DEF Relying, Declaring
<1>10. CASE Fail(q)
  BY <1>1, <1>10, FreeOfEnd DEF Fail
<1> QED  BY <1>5, <1>6, <1>7, <1>8, <1>9, <1>10 DEF ReadsOrFails

(* Declaring leaves no class scheduled on the new holidays.                *)
LEMMA DeclaredFree ==
  ASSUME RowsHold, FreeOnHolidays, NEW new, DOMAIN new \subseteq Nat, \A h \in DOMAIN new : h > declared,
         Declare(new)
  PROVE  FreeOnHolidays'
<1>1. /\ DOMAIN holidays' = DOMAIN holidays \cup DOMAIN new
      /\ \A h \in DOMAIN new : holidays'[h] = new[h]
      /\ \A h \in DOMAIN holidays : holidays'[h] = holidays[h]
      /\ DOMAIN classes' = DOMAIN classes
  BY Declared
<1> SUFFICES ASSUME NEW c \in DOMAIN classes, NEW h \in DOMAIN holidays',
                    classes'[c].untouched, classes'[c].status = "SCHEDULED"
             PROVE  ~Within(classes'[c].day, holidays'[h])
  BY <1>1 DEF FreeOnHolidays
<1>2. CASE \E i \in DOMAIN new : classes'[c] = CancelledBy(classes[c], i)
  <2> PICK i \in DOMAIN new : classes'[c] = CancelledBy(classes[c], i)
    BY <1>2
  <2>1. classes[c] \in ClassRow /\ i \in Nat
    BY DEF RowsHold, TypeOK
  <2>2. classes'[c].status = "CANCELLED"
    BY <2>1, CancelledRow
  <2> QED  BY <2>2
<1>3. CASE /\ classes'[c] = classes[c]
           /\ Cancellable(classes[c]) => \A i \in DOMAIN new : ~Within(classes[c].day, new[i])
  <2>1. Cancellable(classes[c])
    BY <1>3 DEF Cancellable, RowsHold, UntouchedIsNew
  <2>2. \A i \in DOMAIN holidays : ~Within(classes[c].day, holidays[i])
    BY <1>3 DEF FreeOnHolidays
  <2> QED  BY <1>1, <1>3, <2>1, <2>2
<1>4. \/ /\ classes'[c] = classes[c]
         /\ Cancellable(classes[c]) => \A i \in DOMAIN new : ~Within(classes[c].day, new[i])
      \/ \E i \in DOMAIN new : classes'[c] = CancelledBy(classes[c], i)
  BY Declared
<1> QED  BY <1>2, <1>3, <1>4

(* Free is kept by a declaration,                                          *)
LEMMA FreeDeclare ==
  ASSUME IInv, Free, NoDeclaringUnderRelying, createHoliday
  PROVE  Free'
<1> PICK p \in Periods : Declare([h \in {declared + 1} |-> p])
  BY DEF createHoliday
<1> PICK new : new = [h \in {declared + 1} |-> p]
  OBVIOUS
<1>1. DOMAIN new = {declared + 1} /\ declared \in Nat
  BY DEF IInv, RowsHold, TypeOK
<1>2. DOMAIN new \subseteq Nat /\ \A h \in DOMAIN new : h > declared
  BY <1>1
<1>3. FreeOnHolidays'
  BY <1>2, DeclaredFree DEF IInv, Free
<1>4. \A o \in Relying : <<"createHoliday", o>> \notin Overlapping
  BY DEF NoDeclaringUnderRelying, Declaring
<1>5. \A q \in Slots : request[q].op \notin Relying
  BY <1>4, Alone DEF createHoliday, Relying
<1>6. request' = request
  BY DEF createHoliday
<1>7. \A q \in Slots : KnowsFree(request[q])'
  BY <1>5, <1>6 DEF KnowsFree, Relying
<1> QED  BY <1>3, <1>6, <1>7 DEF Free

(* by an import,                                                           *)
LEMMA FreeImport ==
  ASSUME IInv, Free, NEW q \in Slots, importNational(q)
  PROVE  Free'
<1>1. request[q].op = "import" /\ End(q) /\ Understood(request[q]) /\ RowsHold
  BY DEF importNational, IInv
<1> PICK new : /\ Declare(new)
               /\ DOMAIN new \subseteq (declared + 1)..(declared + Cardinality(DOMAIN new))
               /\ Cardinality(DOMAIN new) \in Nat
  BY <1>1, Imported DEF Understood
<1>2. DOMAIN new \subseteq Nat /\ \A h \in DOMAIN new : h > declared
  BY <1>1 DEF RowsHold, TypeOK
<1>3. FreeOnHolidays'
  BY <1>1, <1>2, DeclaredFree DEF Free
<1>4. \A p \in Slots : request[p].op \notin Relying
  BY <1>1 DEF Free, Declaring
<1>5. \A p \in Slots : request'[p].op \notin Relying
  BY <1>1, <1>4, Ended DEF NoRequest, Relying
<1>6. \A p \in Slots : KnowsFree(request[p])'
  BY <1>5 DEF KnowsFree, Relying
<1> QED  BY <1>3, <1>5, <1>6 DEF Free

(* by a removal,                                                           *)
LEMMA FreeRemove ==
  ASSUME IInv, Free, NEW q \in Slots, remove(q)
  PROVE  Free'
<1> PICK r : r = request[q]
  OBVIOUS
<1>1. r.op = "remove" /\ End(q) /\ Understood(r) /\ KnowsFree(r) /\ RowsHold
  BY DEF remove, IInv, Free
<1>2. ASSUME Removes(r)  PROVE FreeOnHolidays' /\ HolidaysOnlyGo
  <2>3. DOMAIN classes' = DOMAIN classes
    BY <1>1, <1>2, RemovedRows
  <2>4. \A c \in DOMAIN classes : AfterRemoval(classes'[c], classes[c], c, r)
    BY <1>1, <1>2, RemovedRows
  <2>5. DOMAIN holidays' = DOMAIN holidays \ {r.holiday} /\ \A h \in DOMAIN holidays' : holidays'[h] = holidays[h]
    BY <1>1, <1>2, RemovedRows
  <2>6. ASSUME NEW c \in DOMAIN classes, NEW h \in DOMAIN holidays',
               classes'[c].untouched, classes'[c].status = "SCHEDULED"
        PROVE  ~Within(classes'[c].day, holidays'[h])
    <3>1. classes[c].untouched /\ classes'[c].day = classes[c].day /\ h \in DOMAIN holidays \ {r.holiday}
      BY <2>4, <2>5, <2>6 DEF AfterRemoval
    <3>2. CASE c \in r.restore
      BY <1>1, <2>5, <3>1, <3>2 DEF KnowsFree
    <3>3. CASE c \notin r.restore
      <4>1. classes[c].status = "SCHEDULED"
        BY <2>4, <2>6, <3>3 DEF AfterRemoval
      <4> QED  BY <2>5, <3>1, <4>1 DEF Free, FreeOnHolidays
    <3> QED  BY <3>2, <3>3
  <2> QED  BY <2>3, <2>5, <2>6 DEF FreeOnHolidays, HolidaysOnlyGo
<1>3. ASSUME ~ Removes(r)  PROVE FreeOnHolidays' /\ HolidaysOnlyGo
  <2>1. UNCHANGED <<holidays, classes>>
    BY <1>3 DEF remove, Removes
  <2> QED  BY <2>1 DEF Free, FreeOnHolidays, HolidaysOnlyGo
<1>4. Onward
  BY <1>1, removeStep
<1> QED  BY <1>1, <1>2, <1>3, <1>4, FreeOfEnd

(* by a plan that is carried out,                                          *)
LEMMA FreeGenerate ==
  ASSUME IInv, Free, NEW q \in Slots, generate(q)
  PROVE  Free'
<1> PICK r : r = request[q]
  OBVIOUS
<1>1. /\ r.op = "generate" /\ r.at = "planned" /\ End(q) /\ UNCHANGED holidays
      /\ Understood(r) /\ KnowsFree(r) /\ RowsHold
  BY DEF generate, IInv, Free
<1>2. DOMAIN r.toCreate \subseteq Days /\ \A d \in DOMAIN r.toCreate : r.toCreate[d] \in Durations
  BY <1>1 DEF Understood
<1>3. ASSUME NEW c \in DOMAIN classes', classes'[c].untouched, classes'[c].status = "SCHEDULED",
             NEW h \in DOMAIN holidays
      PROVE  ~Within(classes'[c].day, holidays[h])
  <2>1. CASE c \in DOMAIN classes /\ classes'[c] = classes[c]
    BY <1>3, <2>1 DEF Free, FreeOnHolidays
  <2>2. CASE \E d \in DOMAIN r.toCreate : classes'[c] = Class(d, r.toCreate[d], "SCHEDULED", TRUE)
    <3> PICK d \in DOMAIN r.toCreate : classes'[c] = Class(d, r.toCreate[d], "SCHEDULED", TRUE)
      BY <2>2
    <3>1. classes'[c].day = d
      BY DEF Class
    <3> QED  BY <1>1, <3>1 DEF KnowsFree
  <2> QED  BY <1>1, <1>2, <2>1, <2>2, Generated
<1>4. FreeOnHolidays' /\ HolidaysOnlyGo
  BY <1>1, <1>3 DEF FreeOnHolidays, HolidaysOnlyGo
<1>5. Onward
  BY <1>1, generateStep
<1> QED  BY <1>1, <1>4, <1>5, FreeOfEnd

(* and so by every step.                                                   *)
LEMMA FreeStep ==
  ASSUME IInv, Free, NoDeclaringUnderRelying, [Next]_vars
  PROVE  Free'
<1>1. RowsHold
  BY DEF IInv
<1>2. CASE Nobody
  BY <1>1, <1>2, NobodyStep, FreeByHand, FreeOfOthers
<1>3. CASE createHoliday
  BY <1>3, FreeDeclare
<1>4. CASE CreateSession
  BY <1>1, <1>4, CreateSessionStep, FreeByHand, FreeOfOthers
<1>5. ASSUME NEW c \in DOMAIN classes, ByHandAction(c)  PROVE Free'
  BY <1>1, <1>5, ByHandActionStep, FreeByHand, FreeOfOthers
<1>6. ASSUME NEW q \in Slots, Slotted(q)  PROVE Free'
  <2>1. CASE saveAttendance(q)
    BY <1>1, <2>1, SaveAttendanceStep, FreeByHand, FreeOfEnd DEF saveAttendance
  <2> QED  BY <1>6, <2>1, FreeRequest, FreeGenerate, FreeImport, FreeRemove DEF Slotted
<1> QED  BY <1>2, <1>3, <1>4, <1>5, <1>6, Steps

(* A class that nobody has touched never stays on a day without classes,   *)
(* as long as no holiday is declared while a plan or a removal is under    *)
(* way: what either has read before misses the declaration that overlaps   *)
(* it.                                                                     *)
THEOREM HolidaysAreFree ==
  ASSUME NoDeclaringUnderRelying
  PROVE  Spec => []FreeOnHolidays
<1>1. Init => Free
  BY DEF Init, Free, FreeOnHolidays, KnowsFree, NoRequest, Declaring
<1>2. IInv /\ Free /\ [Next]_vars => Free'
  BY FreeStep
<1>3. Free => FreeOnHolidays
  BY DEF Free
<1> QED  BY <1>1, <1>2, <1>3, RequestsUnderstand, PTL DEF Spec

-----------------------------------------------------------------------------
(* What a holiday cancelled.                                               *)

(* No class is newly cancelled and untouched, and no holiday goes that one *)
(* refers to.                                                              *)
LEMMA BackOutlives ==
  ASSUME RowsHold, Onward, NEW r, Understood(r), KnowsBack(r),
         \A c \in DOMAIN classes' :
           (classes'[c].untouched /\ classes'[c].status = "CANCELLED" /\ classes'[c].holiday \in 1..declared)
              => c \in DOMAIN classes /\ classes'[c] = classes[c]
  PROVE  KnowsBack(r)'
<1> SUFFICES ASSUME r.op = "remove"
             PROVE  /\ \A c \in DOMAIN classes' :
                         (classes'[c].untouched /\ classes'[c].status = "CANCELLED" /\ classes'[c].holiday = r.holiday)
                           => c \in r.restore \cup DOMAIN r.to
                    /\ \A c \in DOMAIN r.to \cap DOMAIN classes' :
                         (classes'[c].untouched /\ r.to[c] \in DOMAIN holidays')
                           => Within(classes'[c].day, holidays'[r.to[c]])
  BY DEF KnowsBack
<1>1. r.holiday \in 1..declared /\ DOMAIN r.to \subseteq 1..created /\ \A c \in DOMAIN r.to : r.to[c] \in 1..declared
  BY DEF Understood
<1>2. ASSUME NEW c \in DOMAIN classes', classes'[c].untouched, classes'[c].status = "CANCELLED",
             classes'[c].holiday = r.holiday
      PROVE  c \in r.restore \cup DOMAIN r.to
  BY <1>1, <1>2 DEF KnowsBack
<1>3. ASSUME NEW c \in DOMAIN r.to \cap DOMAIN classes', classes'[c].untouched, r.to[c] \in DOMAIN holidays'
      PROVE  Within(classes'[c].day, holidays'[r.to[c]])
  <2>1. c \in DOMAIN classes /\ classes[c].untouched /\ classes'[c].day = classes[c].day
    BY <1>1, <1>3 DEF Onward
  <2>2. r.to[c] \in DOMAIN holidays /\ holidays'[r.to[c]] = holidays[r.to[c]]
    BY <1>1, <1>3 DEF Onward
  <2> QED  BY <2>1, <2>2 DEF KnowsBack
<1> QED  BY <1>2, <1>3

(* What ComesBack needs of a step, but of one that removes.                *)
NewlyCancelled ==
  /\ DOMAIN holidays \subseteq DOMAIN holidays'
  /\ \A h \in DOMAIN holidays : holidays'[h] = holidays[h]
  /\ \A c \in DOMAIN classes' : (classes'[c].untouched /\ classes'[c].status = "CANCELLED") =>
       \/ c \in DOMAIN classes /\ classes'[c] = classes[c]
       \/ /\ classes'[c].holiday \in DOMAIN holidays' \ (0..declared)
          /\ Within(classes'[c].day, holidays'[classes'[c].holiday])

(* Newly cancelled classes depend on the holiday that cancelled them.      *)
LEMMA CancelledComesBack ==
  ASSUME RowsHold, ComesBack, NewlyCancelled
  PROVE  ComesBack'
<1> SUFFICES ASSUME NEW c \in DOMAIN classes', classes'[c].untouched, classes'[c].status = "CANCELLED"
             PROVE  /\ classes'[c].holiday # NoHoliday
                    /\ Within(classes'[c].day, holidays'[classes'[c].holiday])
  BY DEF ComesBack
<1>1. CASE c \in DOMAIN classes /\ classes'[c] = classes[c]
  <2>1. classes[c].holiday # NoHoliday /\ Within(classes[c].day, holidays[classes[c].holiday])
    BY <1>1 DEF ComesBack
  <2>2. classes[c].holiday \in DOMAIN holidays
    BY <1>1, <2>1 DEF RowsHold, TypeOK
  <2> QED  BY <1>1, <2>1, <2>2 DEF NewlyCancelled
<1>2. CASE ~(c \in DOMAIN classes /\ classes'[c] = classes[c])
  <2>1. declared \in Nat
    BY DEF RowsHold, TypeOK
  <2>2. /\ classes'[c].holiday \notin 0..declared
        /\ Within(classes'[c].day, holidays'[classes'[c].holiday])
    BY <1>2 DEF NewlyCancelled
  <2>3. 0 \in 0..declared
    BY <2>1
  <2> QED  BY <2>2, <2>3 DEF NoHoliday
<1> QED  BY <1>1, <1>2

(* Back is kept by a request's step,                                       *)
LEMMA BackOfSlots ==
  ASSUME IInv, Back, Onward, NewlyCancelled, NEW q \in Slots, NEW r, Begin(q, r), KnowsBack(r)',
         r.op = "remove" => (\A p \in Slots : request[p].op # "remove")
  PROVE  Back'
<1>1. request'[q] = r /\ \A p \in Slots \ {q} : request'[p] = request[p]
  BY Began DEF IInv
<1>2. \A p, s \in Slots : request'[p].op = "remove" /\ request'[s].op = "remove" => p = s
  BY <1>1 DEF Back
<1>3. \A c \in DOMAIN classes' :
        (classes'[c].untouched /\ classes'[c].status = "CANCELLED" /\ classes'[c].holiday \in 1..declared)
          => c \in DOMAIN classes /\ classes'[c] = classes[c]
  <2>1. 1..declared \subseteq 0..declared
    BY DEF IInv, RowsHold, TypeOK
  <2> QED  BY <2>1 DEF NewlyCancelled
<1>4. ASSUME NEW p \in Slots  PROVE KnowsBack(request[p])'
  <2>1. CASE p = q
    BY <1>1, <2>1
  <2>2. CASE p # q
    <3> PICK was : was = request[p]
      OBVIOUS
    <3>1. KnowsBack(was)'
      BY <1>3, BackOutlives DEF IInv, Back
    <3>2. request'[p] = was
      BY <1>1, <2>2
    <3> QED  BY <3>1, <3>2
  <2> QED  BY <2>1, <2>2
<1>5. ComesBack'
  BY CancelledComesBack DEF IInv, Back
<1> QED  BY <1>2, <1>4, <1>5 DEF Back

(* by a step of somebody else,                                             *)
LEMMA BackOfOthers ==
  ASSUME IInv, Back, Onward, NewlyCancelled, UNCHANGED request
  PROVE  Back'
<1>1. \A c \in DOMAIN classes' :
        (classes'[c].untouched /\ classes'[c].status = "CANCELLED" /\ classes'[c].holiday \in 1..declared)
          => c \in DOMAIN classes /\ classes'[c] = classes[c]
  <2>1. 1..declared \subseteq 0..declared
    BY DEF IInv, RowsHold, TypeOK
  <2> QED  BY <2>1 DEF NewlyCancelled
<1>2. ASSUME NEW p \in Slots  PROVE KnowsBack(request[p])'
  <2> PICK was : was = request[p]
    OBVIOUS
  <2>1. KnowsBack(was)'
    BY <1>1, BackOutlives DEF IInv, Back
  <2>2. request'[p] = was
    OBVIOUS
  <2> QED  BY <2>1, <2>2
<1>3. ComesBack'
  BY CancelledComesBack DEF IInv, Back
<1> QED  BY <1>2, <1>3 DEF Back

(* by a request that ends,                                                 *)
LEMMA BackOfEnd ==
  ASSUME IInv, Back, Onward, NewlyCancelled, NEW q \in Slots, End(q)
  PROVE  Back'
<1> PICK r : r = NoRequest
  OBVIOUS
<1>1. Begin(q, r) /\ KnowsBack(r)' /\ r.op # "remove"
  BY DEF End, NoRequest, KnowsBack
<1> QED  BY <1>1, BackOfSlots

(* by a change made by hand: no holiday cancels a class in it,             *)
LEMMA BackByHand ==
  ASSUME ByHand
  PROVE  NewlyCancelled
BY DEF ByHand, NewlyCancelled

(* by a declaration,                                                       *)
LEMMA BackDeclare ==
  ASSUME RowsHold, NEW new, DOMAIN new \subseteq Nat, \A h \in DOMAIN new : h > declared, Declare(new)
  PROVE  NewlyCancelled
<1>1. /\ DOMAIN holidays' = DOMAIN holidays \cup DOMAIN new
      /\ \A h \in DOMAIN new : holidays'[h] = new[h]
      /\ \A h \in DOMAIN holidays : holidays'[h] = holidays[h]
      /\ DOMAIN classes' = DOMAIN classes
  BY Declared
<1>2. \A h \in DOMAIN new : h \notin 0..declared
  BY DEF RowsHold, TypeOK
<1>3. ASSUME NEW c \in DOMAIN classes
      PROVE  \/ classes'[c] = classes[c]
             \/ /\ classes'[c].holiday \in DOMAIN holidays' \ (0..declared)
                /\ Within(classes'[c].day, holidays'[classes'[c].holiday])
  <2>1. CASE \E h \in DOMAIN new : /\ Within(classes[c].day, new[h])
                                   /\ classes'[c] = CancelledBy(classes[c], h)
    <3> PICK h \in DOMAIN new : Within(classes[c].day, new[h]) /\ classes'[c] = CancelledBy(classes[c], h)
      BY <2>1
    <3>1. classes[c] \in ClassRow /\ h \in Nat
      BY DEF RowsHold, TypeOK
    <3>2. classes'[c].holiday = h /\ classes'[c].day = classes[c].day
      BY <3>1, CancelledRow
    <3> QED  BY <1>1, <1>2, <3>2
  <2>2. \/ classes'[c] = classes[c]
        \/ \E h \in DOMAIN new : /\ Within(classes[c].day, new[h])
                                 /\ classes'[c] = CancelledBy(classes[c], h)
    BY Declared
  <2> QED  BY <2>1, <2>2
<1> QED  BY <1>1, <1>3 DEF NewlyCancelled

(* by reading or failing,                                                  *)
LEMMA BackRequest ==
  ASSUME IInv, Back, <<"remove", "remove">> \notin Overlapping, NEW q \in Slots, ReadsOrFails(q)
  PROVE  Back'
<1>1. RowsHold /\ Onward /\ NewlyCancelled /\ UNCHANGED <<holidays, classes>>
  BY ReadingTouchesNothing, BackByHand DEF IInv
<1>2. CASE ReadSchedule(q)
  <2> PICK r : Begin(q, r) /\ r.op = "generate"
    BY <1>1, <1>2, ReadScheduleBegins
  <2> QED  BY <1>1, BackOfSlots DEF KnowsBack
<1>3. CASE ReadExisting(q)
  <2> PICK r : Begin(q, r) /\ r.op = "generate"
    BY <1>1, <1>3, ReadExistingPlans
  <2> QED  BY <1>1, BackOfSlots DEF KnowsBack
<1>4. CASE ReadNational(q)
  <2> PICK r : Begin(q, r) /\ r.op = "import"
    BY <1>4, ReadNationalBegins
  <2> QED  BY <1>1, BackOfSlots DEF KnowsBack
<1>5. CASE ReadRemoval(q)
  <2>1. PICK r : /\ Begin(q, r) /\ r.op = "remove"
                 /\ \A c \in DOMAIN classes : classes[c].holiday = r.holiday => c \in r.restore \cup DOMAIN r.to
                 /\ \A c \in DOMAIN r.to : Within(classes[c].day, holidays[r.to[c]])
    BY <1>1, <1>5, ReadRemovalBegins
  <2>2. KnowsBack(r)'
    BY <1>1, <2>1 DEF KnowsBack
  <2>3. MayStart("remove")
    BY <1>1, <1>5, ReadRemovalBegins DEF Idle
  <2>4. \A p \in Slots : request[p].op \notin {"remove"}
    BY <2>3, Alone
  <2> QED  BY <1>1, <2>1, <2>2, <2>4, BackOfSlots
<1>6. CASE ReadRoster(q)
  <2> PICK r : Begin(q, r) /\ r.op = "save"
    BY <1>6, ReadRosterBegins
  <2> QED  BY <1>1, BackOfSlots DEF KnowsBack
<1>7. CASE Fail(q)
  BY <1>1, <1>7, BackOfEnd DEF Fail
<1> QED  BY <1>2, <1>3, <1>4, <1>5, <1>6, <1>7 DEF ReadsOrFails

(* by a plan that is carried out,                                          *)
LEMMA BackGenerate ==
  ASSUME IInv, Back, NEW q \in Slots, generate(q)
  PROVE  Back'
<1> PICK r : r = request[q]
  OBVIOUS
<1>1. r.op = "generate" /\ r.at = "planned" /\ End(q) /\ UNCHANGED holidays /\ Understood(r) /\ RowsHold
  BY DEF generate, IInv
<1>2. DOMAIN r.toCreate \subseteq Days /\ \A d \in DOMAIN r.toCreate : r.toCreate[d] \in Durations
  BY <1>1 DEF Understood
<1>3. ASSUME NEW c \in DOMAIN classes', classes'[c].status = "CANCELLED"
      PROVE  c \in DOMAIN classes /\ classes'[c] = classes[c]
  <2>1. \A d, length : Class(d, length, "SCHEDULED", TRUE).status = "SCHEDULED"
    BY DEF Class
  <2> QED  BY <1>1, <1>2, <1>3, <2>1, Generated
<1>4. NewlyCancelled
  BY <1>1, <1>3 DEF NewlyCancelled
<1>5. Onward
  BY <1>1, generateStep
<1> QED  BY <1>1, <1>4, <1>5, BackOfEnd

(* by a removal,                                                           *)
LEMMA BackRemove ==
  ASSUME IInv, Back, NEW q \in Slots, remove(q)
  PROVE  Back'
<1> PICK r : r = request[q]
  OBVIOUS
<1>1. r.op = "remove" /\ End(q) /\ Understood(r) /\ KnowsBack(r) /\ RowsHold /\ ComesBack
  BY DEF remove, IInv, Back
<1>2. ASSUME Removes(r)  PROVE ComesBack'
  <2>1. \A c \in DOMAIN r.to : r.to[c] \in 1..declared /\ r.to[c] # r.holiday
    BY <1>1 DEF Understood
  <2>2. DOMAIN holidays' = DOMAIN holidays \ {r.holiday} /\ \A h \in DOMAIN holidays' : holidays'[h] = holidays[h]
    BY <1>1, <1>2, RemovedRows
  <2>3. DOMAIN classes' = DOMAIN classes /\ \A c \in DOMAIN classes : AfterRemoval(classes'[c], classes[c], c, r)
    BY <1>1, <1>2, RemovedRows
  <2>4. ASSUME NEW c \in DOMAIN classes, classes'[c].untouched, classes'[c].status = "CANCELLED"
        PROVE  /\ classes'[c].holiday # NoHoliday
               /\ Within(classes'[c].day, holidays'[classes'[c].holiday])
    <3>1. /\ c \notin r.restore /\ classes[c].untouched /\ classes[c].status = "CANCELLED"
          /\ classes'[c].day = classes[c].day
      BY <2>3, <2>4 DEF AfterRemoval
    <3>2. CASE c \in DOMAIN r.to
      <4>1. classes'[c].holiday = r.to[c]
        BY <2>3, <3>1, <3>2 DEF AfterRemoval
      <4>2. r.to[c] \in DOMAIN holidays'
        BY <1>2, <2>1, <2>2, <3>2 DEF Removes
      <4>3. Within(classes[c].day, holidays[r.to[c]])
        BY <1>1, <2>2, <3>1, <3>2, <4>2 DEF KnowsBack
      <4>4. r.to[c] # 0
        BY <1>1, <2>1, <3>2 DEF RowsHold, TypeOK
      <4> QED  BY <2>2, <3>1, <4>1, <4>2, <4>3, <4>4 DEF NoHoliday
    <3>3. CASE c \notin DOMAIN r.to
      <4>1. classes[c].holiday # r.holiday
        BY <1>1, <3>1, <3>3 DEF KnowsBack
      <4>2. classes'[c].holiday = classes[c].holiday
        BY <2>3, <3>1, <3>3, <4>1 DEF AfterRemoval
      <4>3. /\ classes[c].holiday # NoHoliday /\ Within(classes[c].day, holidays[classes[c].holiday])
            /\ classes[c].holiday \in DOMAIN holidays
        BY <1>1, <3>1 DEF ComesBack, RowsHold, TypeOK
      <4> QED  BY <2>2, <3>1, <4>1, <4>2, <4>3
    <3> QED  BY <3>2, <3>3
  <2> QED  BY <2>3, <2>4 DEF ComesBack
<1>3. ASSUME ~ Removes(r)  PROVE ComesBack'
  <2>1. UNCHANGED <<holidays, classes>>
    BY <1>3 DEF remove, Removes
  <2> QED  BY <1>1, <2>1 DEF ComesBack
<1>4. ComesBack'
  BY <1>2, <1>3
<1>5. \A p \in Slots : request'[p].op # "remove"
  BY <1>1, Ended DEF Back, NoRequest
<1> QED  BY <1>4, <1>5 DEF Back, KnowsBack

(* and so by every step.                                                   *)
LEMMA BackStep ==
  ASSUME IInv, Back, <<"remove", "remove">> \notin Overlapping, [Next]_vars
  PROVE  Back'
<1>1. RowsHold
  BY DEF IInv
<1>2. CASE Nobody
  BY <1>1, <1>2, NobodyStep, BackByHand, BackOfOthers
<1>3. CASE createHoliday
  <2> PICK p \in Periods : Declare([h \in {declared + 1} |-> p])
    BY <1>3 DEF createHoliday
  <2> PICK new : new = [h \in {declared + 1} |-> p]
    OBVIOUS
  <2>1. DOMAIN new \subseteq Nat /\ \A h \in DOMAIN new : h > declared
    BY <1>1 DEF RowsHold, TypeOK
  <2>2. NewlyCancelled
    BY <1>1, <2>1, BackDeclare
  <2> QED  BY <1>1, <1>3, <2>2, createHolidayStep, BackOfOthers
<1>4. CASE CreateSession
  BY <1>1, <1>4, CreateSessionStep, BackByHand, BackOfOthers
<1>5. ASSUME NEW c \in DOMAIN classes, ByHandAction(c)  PROVE Back'
  BY <1>1, <1>5, ByHandActionStep, BackByHand, BackOfOthers
<1>6. ASSUME NEW q \in Slots, Slotted(q)  PROVE Back'
  <2>1. CASE saveAttendance(q)
    BY <1>1, <2>1, SaveAttendanceStep, BackByHand, BackOfEnd DEF saveAttendance
  <2>2. CASE importNational(q)
    <3>1. request[q].days \subseteq Days /\ End(q)
      BY <2>2 DEF importNational, IInv, Understood
    <3> PICK new : /\ Declare(new)
                   /\ DOMAIN new \subseteq (declared + 1)..(declared + Cardinality(DOMAIN new))
                   /\ Cardinality(DOMAIN new) \in Nat
      BY <1>1, <2>2, <3>1, Imported
    <3>2. DOMAIN new \subseteq Nat /\ \A h \in DOMAIN new : h > declared
      BY <1>1 DEF RowsHold, TypeOK
    <3>3. NewlyCancelled
      BY <1>1, <3>2, BackDeclare
    <3> QED  BY <1>1, <2>2, <3>1, <3>3, importNationalStep, BackOfEnd
  <2> QED  BY <1>6, <2>1, <2>2, BackRequest, BackGenerate, BackRemove DEF Slotted
<1> QED  BY <1>2, <1>3, <1>4, <1>5, <1>6, Steps

(* A class that a holiday cancelled is never left behind: it is handed to  *)
(* another holiday or comes back, as long as two removals do not overlap,  *)
(* whatever else does.                                                     *)
THEOREM CancelledClassesComeBack ==
  ASSUME <<"remove", "remove">> \notin Overlapping
  PROVE  Spec => []ComesBack
<1>1. Init => Back
  BY DEF Init, Back, ComesBack, KnowsBack, NoRequest
<1>2. IInv /\ Back /\ [Next]_vars => Back'
  BY BackStep
<1>3. Back => ComesBack
  BY DEF Back
<1> QED  BY <1>1, <1>2, <1>3, RequestsUnderstand, PTL DEF Spec
=============================================================================
