------------------------------ MODULE Calendar ------------------------------
(***************************************************************************)
(* The calendar of one group: its weekly schedule, the classes generated   *)
(* from it, the days without classes, and what people do to single classes *)
(* by hand.                                                                *)
(*                                                                         *)
(* Generating, removing a holiday, importing holidays and a teacher's      *)
(* saving of attendance read first and write later; READ COMMITTED lets    *)
(* anything happen in between.  The other operations read nothing that     *)
(* they rely on, and are one step.                                         *)
(*                                                                         *)
(* Days are numbered.  A weekday has at most one class, in the middle of   *)
(* the day, so that the moment of a class is 2 * day + 1 and the clock,    *)
(* which counts half days, says which classes are past.                    *)
(***************************************************************************)
EXTENDS Integers, FiniteSets, Clock

CONSTANTS Slots,          \* requests in progress at the same time
          Days,           \* the days of the calendar
          WeekLength,     \* 7
          Durations,
          NationalDays,   \* spainNationalHolidays
          Statuses,       \* what a class may be set to by hand
          Overlapping,    \* pairs: what may start while what is in progress
          MaxClasses, MaxHolidays, MaxEdits   \* bounds

Ops == {"put", "generate", "createHoliday", "import", "remove", "create", "update", "delete", "mark", "save"}

ASSUME CalendarAssumption ==
  /\ IsFiniteSet(Days) /\ Days \subseteq Nat /\ NationalDays \subseteq Days
  /\ WeekLength \in Nat \ {0}
  /\ Durations \subseteq Nat \ {0}
  /\ Statuses \subseteq {"SCHEDULED", "COMPLETED", "CANCELLED"}
  /\ Overlapping \subseteq Ops \X Ops
  /\ {MaxClasses, MaxHolidays, MaxEdits} \subseteq Nat

VARIABLES now,        \* half days
          schedule,   \* the duration of the class of each weekday that has one
          holidays,   \* the periods without classes, by id
          classes,    \* the group's sessions, by id
          request,    \* what each slot has read and is about to write
          created,    \* classes and
          declared,   \* holidays so far
          edits       \* changes by hand so far

vars == <<now, schedule, holidays, classes, request, created, declared, edits>>

NoRequest == [op |-> "idle"]
NoHoliday == 0

Periods == {p \in [from : Days, to : Days] : p.from <= p.to}
Within(d, p) == p.from <= d /\ d <= p.to

(* untouched: nobody but generate and the holidays has written it.         *)
\* Mutant: the duration is not written
ClassWithoutDuration(d, length, status, untouched) ==
  [day |-> d, duration |-> 0, status |-> status, holiday |-> NoHoliday,
   attended |-> FALSE, untouched |-> untouched]
Class(d, length, status, untouched) ==
  [day |-> d, duration |-> length, status |-> status, holiday |-> NoHoliday,
   attended |-> FALSE, untouched |-> untouched]
Past(c) == 2 * c.day + 1 < now

Weekdays == {d % WeekLength : d \in Days}
Schedules == UNION {[W -> Durations] : W \in SUBSET Weekdays}

Init == /\ now = 0
        /\ schedule \in {s \in Schedules : DOMAIN s = Weekdays}
        /\ holidays = [h \in {} |-> 0] /\ classes = [c \in {} |-> 0]
        /\ request = [q \in Slots |-> NoRequest]
        /\ created = 0 /\ declared = 0 /\ edits = 0

MayStart(op) == \A p \in Slots : request[p] = NoRequest \/ <<op, request[p].op>> \in Overlapping
Idle(q, op) == request[q] = NoRequest /\ MayStart(op)
Begin(q, r) == request' = [request EXCEPT ![q] = r]
End(q) == Begin(q, NoRequest)

-----------------------------------------------------------------------------
(* The weekly schedule.                                                    *)

put == \E s \in Schedules :
  /\ MayStart("put")
  /\ edits < MaxEdits /\ edits' = edits + 1
  /\ schedule' = s
  /\ UNCHANGED <<now, holidays, classes, request, created, declared>>

(* generate: its advisory lock lets one plan at a time be made and         *)
(* carried out.                                                            *)
\* Mutant: no advisory lock
Unlocked == FALSE
Planning == \E q \in Slots : request[q].op = "generate"

ReadSchedule(q) == \E p \in Periods, replace \in BOOLEAN :
  /\ Idle(q, "generate") /\ ~Planning
  /\ DOMAIN schedule # {}
  /\ created + Cardinality(Days) <= MaxClasses
  /\ Begin(q, [op |-> "generate", at |-> "read", period |-> p, replace |-> replace,
               schedule |-> schedule, holidays |-> {holidays[h] : h \in DOMAIN holidays}])
  /\ UNCHANGED <<now, schedule, holidays, classes, created, declared, edits>>

\* Mutant: holidays are not looked at
OccurrencesEveryDay(r) ==
  {d \in Days : Within(d, r.period) /\ d % WeekLength \in DOMAIN r.schedule}
Occurrences(r) ==
  {d \in Days : /\ Within(d, r.period) /\ d % WeekLength \in DOMAIN r.schedule
                /\ \A h \in r.holidays : ~Within(d, h)}

(* Future classes without attendance that do not match the schedule.       *)
Replaceable(r, c) ==
  /\ r.replace
  /\ c.status = "SCHEDULED" /\ ~c.attended /\ ~Past(c)
  /\ ~(c.day \in Occurrences(r) /\ r.schedule[c.day % WeekLength] = c.duration)

Existing(r) == {c \in DOMAIN classes : Within(classes[c].day, r.period)}

ReadExisting(q) ==
  LET r == request[q]
      toReplace == {c \in Existing(r) : Replaceable(r, classes[c])}
      kept == {classes[c].day : c \in Existing(r) \ toReplace}
  IN
  /\ r.op = "generate" /\ r.at = "read"
  /\ Begin(q, [op |-> "generate", at |-> "planned", toReplace |-> toReplace,
               toCreate |-> [d \in Occurrences(r) \ kept |-> r.schedule[d % WeekLength]]])
  /\ UNCHANGED <<now, schedule, holidays, classes, created, declared, edits>>

generate(q) ==
  LET r == request[q]
      days == DOMAIN r.toCreate
      Id(d) == created + Cardinality({x \in days : x <= d})
      DayOf(c) == CHOOSE d \in days : Id(d) = c
      new == {Id(d) : d \in days}
  IN
  /\ r.op = "generate" /\ r.at = "planned"
  /\ classes' = [c \in (DOMAIN classes \ r.toReplace) \cup new |->
                   IF c \in new THEN Class(DayOf(c), r.toCreate[DayOf(c)], "SCHEDULED", TRUE) ELSE classes[c]]
  /\ created' = created + Cardinality(days)
  /\ End(q)
  /\ UNCHANGED <<now, schedule, holidays, declared, edits>>

-----------------------------------------------------------------------------
(* Days without classes.                                                   *)

(* createIn: the new rows h, each with its period, cancel what is still    *)
(* untouched in them; a class goes to the first of them.                   *)
Cancellable(c) == c.status = "SCHEDULED" /\ ~c.attended

Declare(new) ==
  LET covering(c) == {h \in DOMAIN new : Within(classes[c].day, new[h])}
      first(c) == CHOOSE h \in covering(c) : \A i \in covering(c) : h <= i
  IN
  /\ holidays' = [h \in DOMAIN holidays \cup DOMAIN new |-> IF h \in DOMAIN new THEN new[h] ELSE holidays[h]]
  /\ declared' = declared + Cardinality(DOMAIN new)
  /\ classes' = [c \in DOMAIN classes |->
       IF Cancellable(classes[c]) /\ covering(c) # {}
       THEN [classes[c] EXCEPT !.status = "CANCELLED", !.holiday = first(c)]
       ELSE classes[c]]

createHoliday == \E p \in Periods :
  /\ MayStart("createHoliday")
  /\ declared < MaxHolidays
  /\ Declare([h \in {declared + 1} |-> p])
  /\ UNCHANGED <<now, schedule, request, created, edits>>

(* importNational skips the days that already are a holiday of one day.    *)
ReadNational(q) ==
  LET taken == {d \in NationalDays : \E h \in DOMAIN holidays : holidays[h] = [from |-> d, to |-> d]} IN
  /\ Idle(q, "import") /\ declared + Cardinality(NationalDays) <= MaxHolidays
  /\ Begin(q, [op |-> "import", days |-> NationalDays \ taken])
  /\ UNCHANGED <<now, schedule, holidays, classes, created, declared, edits>>

importNational(q) ==
  LET days == request[q].days
      Id(d) == declared + Cardinality({x \in days : x <= d})
  IN
  /\ request[q].op = "import"
  /\ Declare([h \in {Id(d) : d \in days} |-> LET d == CHOOSE x \in days : Id(x) = h IN [from |-> d, to |-> d]])
  /\ End(q)
  /\ UNCHANGED <<now, schedule, created, edits>>

\* Mutant: the holiday that goes counts as another one
AllOfThem(h) == DOMAIN holidays
Others(h) == DOMAIN holidays \ {h}

(* remove: a class that another holiday covers is handed to it, the others *)
(* go back on the calendar.                                                *)
ReadRemoval(q) == \E h \in DOMAIN holidays :
  LET cancelled == {c \in DOMAIN classes : classes[c].holiday = h}
      covers(c) == {i \in Others(h) : Within(classes[c].day, holidays[i])}
      reassigned == {c \in cancelled : covers(c) # {}}
  IN
  /\ Idle(q, "remove")
  /\ \E to \in [reassigned -> DOMAIN holidays] :
       /\ \A c \in reassigned : to[c] \in covers(c)
       /\ Begin(q, [op |-> "remove", holiday |-> h, to |-> to, restore |-> cancelled \ reassigned])
  /\ UNCHANGED <<now, schedule, holidays, classes, created, declared, edits>>

(* The row is deleted and whatever still refers to it is set to null.  A   *)
(* row that is gone, or a new owner that is gone, undoes everything.       *)
SetNull(h, rows) ==
  [c \in DOMAIN rows |-> IF rows[c].holiday = h THEN [rows[c] EXCEPT !.holiday = NoHoliday] ELSE rows[c]]

Restored(c) == [c EXCEPT !.status = "SCHEDULED", !.holiday = NoHoliday]

remove(q) ==
  LET r == request[q] IN
  /\ r.op = "remove"
  /\ End(q)
  /\ IF r.holiday \in DOMAIN holidays /\ \A c \in DOMAIN r.to \cap DOMAIN classes : r.to[c] \in DOMAIN holidays
     THEN /\ holidays' = [h \in DOMAIN holidays \ {r.holiday} |-> holidays[h]]
          /\ classes' = SetNull(r.holiday, [c \in DOMAIN classes |->
               CASE c \in r.restore -> Restored(classes[c])
                 [] c \in DOMAIN r.to -> [classes[c] EXCEPT !.holiday = r.to[c]]
                 [] OTHER -> classes[c]])
     ELSE UNCHANGED <<holidays, classes>>
  /\ UNCHANGED <<now, schedule, created, declared, edits>>

-----------------------------------------------------------------------------
(* By hand: SessionsService and the attendance.                            *)

Edit(op) == /\ MayStart(op)
            /\ edits < MaxEdits /\ edits' = edits + 1
            /\ UNCHANGED <<now, schedule, holidays, request, declared>>

Touch(c, row) == classes' = [classes EXCEPT ![c] = [row EXCEPT !.untouched = FALSE]]

CreateSession == \E d \in Days, status \in Statuses, length \in Durations :
  /\ Edit("create") /\ created < MaxClasses
  /\ created' = created + 1
  /\ classes' = [c \in DOMAIN classes \cup {created + 1} |->
                   IF c = created + 1 THEN Class(d, length, status, FALSE) ELSE classes[c]]

UpdateSession(c) ==
  /\ Edit("update") /\ UNCHANGED created
  /\ \/ \E s \in Statuses \ {classes[c].status} : Touch(c, [classes[c] EXCEPT !.status = s])
     \/ \E d \in Days \ {classes[c].day} : Touch(c, [classes[c] EXCEPT !.day = d])
     \/ \E n \in Durations \ {classes[c].duration} : Touch(c, [classes[c] EXCEPT !.duration = n])

RemoveSession(c) ==
  /\ Edit("delete") /\ UNCHANGED created
  /\ classes' = [x \in DOMAIN classes \ {c} |-> classes[x]]

(* The office marks attendance whatever the class's status, and unmarks it.*)
bulkUpsert(c) == Edit("mark") /\ UNCHANGED created /\ Touch(c, [classes[c] EXCEPT !.attended = TRUE])
RemoveAttendance(c) == /\ Edit("mark") /\ UNCHANGED created /\ classes[c].attended
                       /\ Touch(c, [classes[c] EXCEPT !.attended = FALSE])

(* A teacher may not mark a cancelled class.                               *)
ReadRoster(q) == \E c \in DOMAIN classes :
  /\ Idle(q, "save") /\ edits < MaxEdits /\ edits' = edits + 1
  /\ classes[c].status # "CANCELLED"
  /\ Begin(q, [op |-> "save", class |-> c])
  /\ UNCHANGED <<now, schedule, holidays, classes, created, declared>>

saveAttendance(q) ==
  LET c == request[q].class IN
  /\ request[q].op = "save"
  /\ End(q)
  /\ IF c \in DOMAIN classes THEN Touch(c, [classes[c] EXCEPT !.attended = TRUE]) ELSE UNCHANGED classes
  /\ UNCHANGED <<now, schedule, holidays, created, declared, edits>>

(* A request that throws or dies, and whose transaction is rolled back.    *)
Fail(q) == /\ request[q] # NoRequest /\ End(q)
           /\ UNCHANGED <<now, schedule, holidays, classes, created, declared, edits>>

Tick == /\ \E d \in Days : now <= 2 * d + 1
        /\ now' = now + 1
        /\ UNCHANGED <<schedule, holidays, classes, request, created, declared, edits>>

Next == \/ put \/ createHoliday \/ CreateSession \/ Tick
        \/ \E q \in Slots : \/ ReadSchedule(q) \/ ReadExisting(q) \/ generate(q)
                            \/ ReadNational(q) \/ importNational(q)
                            \/ ReadRemoval(q) \/ remove(q)
                            \/ ReadRoster(q) \/ saveAttendance(q) \/ Fail(q)
        \/ \E c \in DOMAIN classes : \/ UpdateSession(c) \/ RemoveSession(c)
                                     \/ bulkUpsert(c) \/ RemoveAttendance(c)

Spec == Init /\ [][Next]_vars

-----------------------------------------------------------------------------
(* Properties.                                                             *)

ClassRow == [day : Days, duration : Durations, status : {"SCHEDULED", "COMPLETED", "CANCELLED"},
             holiday : Nat, attended : BOOLEAN, untouched : BOOLEAN]

(* The foreign key: a class refers to a holiday that exists.               *)
TypeOK ==
  /\ now \in Nat /\ schedule \in Schedules
  /\ {created, declared, edits} \subseteq Nat
  /\ DOMAIN holidays \subseteq 1..declared /\ \A h \in DOMAIN holidays : holidays[h] \in Periods
  /\ DOMAIN classes \subseteq 1..created
  /\ \A c \in DOMAIN classes : classes[c] \in ClassRow /\ classes[c].holiday \in DOMAIN holidays \cup {NoHoliday}
  /\ DOMAIN request = Slots

(* A double click, or two people at once, never create a class twice       *)
(* (ClassScheduleService.generate: "Idempotent").                          *)
NoTwins == \A c, d \in DOMAIN classes :
  (c # d /\ classes[c].untouched /\ classes[d].untouched) => classes[c].day # classes[d].day

(* A class that nobody has touched is not left on a day without classes    *)
(* (HolidaysService.create, and generate, which skips them).               *)
FreeOnHolidays == \A c \in DOMAIN classes, h \in DOMAIN holidays :
  (classes[c].untouched /\ classes[c].status = "SCHEDULED") => ~Within(classes[c].day, holidays[h])

(* What a holiday cancelled comes back when the last holiday over it goes: *)
(* an untouched class is cancelled only under a holiday that exists.       *)
ComesBack == \A c \in DOMAIN classes :
  (classes[c].untouched /\ classes[c].status = "CANCELLED") =>
    classes[c].holiday # NoHoliday /\ Within(classes[c].day, holidays[classes[c].holiday])

SoundCalendar == SoundDays(Days)
(* Days are numbers here and instants in the code: whatever the academy's   *)
(* zone and whenever its clock changes, a class of the calendar is at its   *)
(* time, and on its day for the queries that look for it there (plan and    *)
(* generate, HolidaysService.createIn and remove, through zoned-time).      *)
LocalTimeKept == \A c \in DOMAIN classes : classes[c].day \in SoundCalendar

(* A class that was held stays held until somebody says otherwise          *)
(* (HolidaysService.remove: "puts its cancelled classes back").            *)
HeldStays == [][\A c \in DOMAIN classes :
  (classes[c].status = "COMPLETED" /\ c \in DOMAIN classes' /\ classes'[c].status # "COMPLETED")
    => UpdateSession(c)]_vars
=============================================================================
