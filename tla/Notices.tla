------------------------------ MODULE Notices -------------------------------
(***************************************************************************)
(* The emails the academy sends to families: reminders of overdue          *)
(* invoices, absence notices, offers of a free place, messages and report  *)
(* cards.                                                                  *)
(*                                                                         *)
(* Each is a job: it reads whom to write to, and for one after the other   *)
(* calls the email provider and then records what was sent.  A job may die *)
(* between the two, and the provider may accept an email and its answer be *)
(* lost; both count as faults.  Whatever else people do happens at any     *)
(* moment of a job.  inbox is what families received.                      *)
(***************************************************************************)
EXTENDS Naturals, FiniteSets

CONSTANTS Workers,           \* jobs in progress at the same time
          Students, Addresses,
          Families,          \* [guardians, own]: the addresses of each student
          INTERVAL_DAYS, MAX_REMINDERS,
          WINDOW,            \* days after a class during which it is recent
          MAX_RECIPIENTS, CONCURRENCY,
          Desks,             \* sets of kinds: what a behaviour is about
          MaxRows, MaxFaults, MaxPushes   \* bounds

Kinds == {"reminder", "absence", "offer", "report", "message"}

ASSUME NoticesAssumption ==
  /\ IsFiniteSet(Workers) /\ IsFiniteSet(Addresses)
  /\ Families \subseteq [guardians : [Students -> SUBSET Addresses], own : [Students -> SUBSET Addresses]]
  /\ {INTERVAL_DAYS, WINDOW, MAX_REMINDERS, MAX_RECIPIENTS, MaxRows, MaxFaults, MaxPushes} \subseteq Nat
  /\ CONCURRENCY \in Nat \ {0}
  /\ Desks \subseteq SUBSET Kinds

VARIABLES desk, family,   \* stay as they are
          invoice,     \* an invoice of each student
          ranToday,    \* has the daily job begun?
          attendance,  \* the marks of one class
          classAge,    \* days since that class
          place,       \* each student's enrollment in one group
          messages,    \* messages recorded
          job,         \* what each worker is sending
          inbox,       \* history: how often each email was received
          heard,       \* history: days since a family last received a reminder
          early,       \* history: the reminders received too soon after another
          faults, pushes   \* bounds

rows == <<invoice, attendance, place, messages>>
mail == <<inbox, heard, early>>
vars == <<desk, family, rows, ranToday, classAge, job, mail, faults, pushes>>

NoJob == [kind |-> "none"]
Targets == ({"reminder", "absence", "offer", "report"} \X Students) \cup ({"message"} \X Addresses)
Never == INTERVAL_DAYS + 1

(* row counts the rows a student has had in the class.                     *)
NoMark == [row |-> 0, status |-> "NONE", notified |-> FALSE]

Init == /\ desk \in Desks /\ family \in Families
        /\ invoice = [s \in Students |-> [status |-> "PENDING", reminderCount |-> 0, age |-> Never]]
        /\ attendance = [s \in Students |-> NoMark]
        /\ place \in [Students -> {"ACTIVE", "WAITLIST"}]
        /\ messages = 0 /\ ranToday = FALSE /\ classAge = 0
        /\ job = [w \in Workers |-> NoJob]
        /\ inbox = [t \in Targets |-> 0]
        /\ heard = [s \in Students |-> Never] /\ early = {}
        /\ faults = 0 /\ pushes = 0

(* Guardians' addresses or, if none has one, the student's own.            *)
familyEmails(s) == IF family.guardians[s] # {} THEN family.guardians[s] ELSE family.own[s]
Reachable(ss) == {s \in ss : familyEmails(s) # {}}

Idle(w, kind) == kind \in desk /\ job[w] = NoJob
Do(w, j) == job' = [job EXCEPT ![w] = j]
Job(kind, todo) == [kind |-> kind, todo |-> todo, accepted |-> {}]

-----------------------------------------------------------------------------
(* Overdue invoices: every day at nine.                                    *)

(* A reminder sent INTERVAL_DAYS ago is older than the cutoff or not: both *)
(* were sent at nine and some milliseconds.                                *)
MayBeDue(s) == /\ invoice[s].status = "OVERDUE"
               /\ invoice[s].reminderCount < MAX_REMINDERS
               /\ invoice[s].age >= INTERVAL_DAYS
MustBeDue(s) == MayBeDue(s) /\ invoice[s].age > INTERVAL_DAYS

sendOverdueReminders(w) == \E due \in SUBSET {s \in Students : MayBeDue(s)} :
  /\ Idle(w, "reminder") /\ ~ranToday /\ ranToday' = TRUE
  /\ {s \in Students : MustBeDue(s)} \subseteq due
  /\ Do(w, Job("reminder", Reachable(due)))
  /\ UNCHANGED <<desk, family, rows, classAge, mail, faults, pushes>>

-----------------------------------------------------------------------------
(* At the push of a button.                                                *)

Push(w, kind, j) ==
  /\ Idle(w, kind) /\ Do(w, j)
  /\ pushes < MaxPushes /\ pushes' = pushes + 1
  /\ UNCHANGED <<desk, family, ranToday, classAge, mail, faults>>

(* The marks of some students in one transaction (bulkUpsert, a teacher's  *)
(* saveAttendance, or update); then the absent ones are looked at.         *)
Save(w) == \E marked \in SUBSET Students \ {{}} : \E absent \in SUBSET marked :
  /\ \A s \in marked : attendance[s].row < MaxRows \/ attendance[s].status # "NONE"
  /\ attendance' = [s \in Students |->
       IF s \notin marked THEN attendance[s]
       ELSE [attendance[s] EXCEPT !.status = IF s \in absent THEN "ABSENT" ELSE "PRESENT",
                                  !.row = IF attendance[s].status = "NONE" THEN @ + 1 ELSE @]]
  /\ Push(w, "absence", IF absent = {} THEN NoJob ELSE [kind |-> "saved", students |-> absent])
  /\ UNCHANGED <<invoice, place, messages>>

Recent == classAge <= WINDOW

\* Mutant: families that know are told again
PendingAll(ss) == {s \in ss : attendance[s].status = "ABSENT"}
Pending(ss) == {s \in ss : attendance[s].status = "ABSENT" /\ ~attendance[s].notified}

notify(w) ==
  /\ job[w].kind = "saved"
  /\ Do(w, IF ~Recent THEN NoJob
           ELSE [kind |-> "absence", todo |-> Reachable(Pending(job[w].students)), accepted |-> {},
                 row |-> [s \in Students |-> attendance[s].row]])
  /\ UNCHANGED <<desk, family, rows, ranToday, classAge, mail, faults, pushes>>

offerSpot(w) == \E s \in Reachable(Students) :
  /\ place[s] = "WAITLIST"
  /\ Push(w, "offer", Job("offer", {s})) /\ UNCHANGED rows

ActiveOnes == {s \in Students : place[s] = "ACTIVE"}

sendGroup(w) == Push(w, "report", Job("report", Reachable(ActiveOnes))) /\ UNCHANGED rows

(* Each address once, however many children it stands for.                 *)
resolve(ss) == UNION {familyEmails(s) : s \in ss}

SendMessage(w) == \E ss \in {ActiveOnes} \cup {{s} : s \in Students} :
  /\ Cardinality(resolve(ss)) \in 1..MAX_RECIPIENTS
  /\ Push(w, "message", Job("message", resolve(ss))) /\ UNCHANGED rows

-----------------------------------------------------------------------------
(* Sending.  The provider accepts an email, refuses it, or accepts it and  *)
(* the answer is lost.                                                     *)

Sending(w) == job[w].kind \in Kinds
Hears(kind, xs) == {s \in Students : kind = "reminder" /\ s \in xs}
Deliver(kind, xs) ==
  /\ inbox' = [t \in Targets |-> IF t[1] = kind /\ t[2] \in xs THEN inbox[t] + 1 ELSE inbox[t]]
  /\ heard' = [s \in Students |-> IF s \in Hears(kind, xs) THEN 0 ELSE heard[s]]
  /\ early' = early \cup {<<s, inbox'[<<"reminder", s>>]>> : s \in {s \in Hears(kind, xs) : heard[s] < INTERVAL_DAYS}}

Accept(w, s) ==
  /\ Sending(w) /\ job[w].kind # "message" /\ job[w].accepted = {} /\ s \in job[w].todo
  /\ Deliver(job[w].kind, {s})
  /\ Do(w, [job[w] EXCEPT !.todo = @ \ {s}, !.accepted = {s}])
  /\ UNCHANGED <<desk, family, rows, ranToday, classAge, faults, pushes>>

\* Mutant: a refused email is recorded like an accepted one
RefuseAndRecord(w, s) ==
  /\ Sending(w) /\ job[w].kind # "message" /\ job[w].accepted = {} /\ s \in job[w].todo
  /\ Do(w, [job[w] EXCEPT !.todo = @ \ {s}, !.accepted = {s}])
  /\ UNCHANGED <<desk, family, rows, ranToday, classAge, mail, faults, pushes>>
Refuse(w, s) ==
  /\ Sending(w) /\ job[w].kind # "message" /\ job[w].accepted = {} /\ s \in job[w].todo
  /\ Do(w, [job[w] EXCEPT !.todo = @ \ {s}])
  /\ \/ UNCHANGED <<mail, faults>>
     \/ Deliver(job[w].kind, {s}) /\ faults < MaxFaults /\ faults' = faults + 1
  /\ UNCHANGED <<desk, family, rows, ranToday, classAge, pushes>>

(* A message goes out CONCURRENCY addresses at a time.                     *)
SendChunk(w) == job[w].kind = "message" /\ \E chunk \in SUBSET job[w].todo :
  /\ chunk # {} /\ Cardinality(chunk) <= CONCURRENCY
  /\ Cardinality(chunk) < CONCURRENCY => chunk = job[w].todo
  /\ \E reached \in SUBSET chunk : \E answered \in SUBSET reached :
       /\ Deliver("message", reached)
       /\ faults' = faults + Cardinality(reached \ answered) /\ faults' <= MaxFaults
  /\ Do(w, [job[w] EXCEPT !.todo = @ \ chunk])
  /\ UNCHANGED <<desk, family, rows, ranToday, classAge, pushes>>

-----------------------------------------------------------------------------
(* Recording.                                                              *)

Recorded(w) == /\ Do(w, [job[w] EXCEPT !.accepted = {}])
               /\ UNCHANGED <<desk, family, ranToday, classAge, mail, faults, pushes>>

\* Mutant: lastReminderAt is not written
Counted(i) == [i EXCEPT !.reminderCount = @ + 1]
Reminded(i) == [i EXCEPT !.age = 0, !.reminderCount = @ + 1]

RecordReminder(w) == job[w].kind = "reminder" /\ \E s \in job[w].accepted :
  /\ invoice' = [invoice EXCEPT ![s] = Reminded(@)]
  /\ Recorded(w) /\ UNCHANGED <<attendance, place, messages>>

(* A mark deleted meanwhile makes the update throw, and the job ends.      *)
RecordAbsence(w) == job[w].kind = "absence" /\ \E s \in job[w].accepted :
  /\ IF attendance[s].status # "NONE" /\ attendance[s].row = job[w].row[s]
     THEN attendance' = [attendance EXCEPT ![s].notified = TRUE] /\ Recorded(w)
     ELSE /\ Do(w, NoJob)
          /\ UNCHANGED <<attendance, desk, family, ranToday, classAge, mail, faults, pushes>>
  /\ UNCHANGED <<invoice, place, messages>>

(* spotOfferedAt, which nobody reads again; a report card leaves no trace. *)
RecordOther(w) == /\ job[w].kind \in {"offer", "report"} /\ job[w].accepted # {}
                  /\ Recorded(w) /\ UNCHANGED rows

Finished(w) == Sending(w) /\ job[w].todo = {} /\ job[w].accepted = {}

Finish(w) == /\ Finished(w) /\ Do(w, NoJob)
             /\ messages' = IF job[w].kind = "message" THEN messages + 1 ELSE messages
             /\ UNCHANGED <<desk, family, invoice, attendance, place, ranToday, classAge, mail, faults, pushes>>

Crash(w) == /\ job[w] # NoJob /\ Do(w, NoJob)
            /\ faults < MaxFaults /\ faults' = faults + 1
            /\ UNCHANGED <<desk, family, rows, ranToday, classAge, mail, pushes>>

-----------------------------------------------------------------------------
(* Meanwhile.                                                              *)

(* The overdue cron; payments made, and undone.                            *)
InvoiceMoves == \E s \in Students, status \in {"OVERDUE", "PAID"} :
  /\ "reminder" \in desk /\ invoice[s].status # status
  /\ invoice' = [invoice EXCEPT ![s].status = status]
  /\ UNCHANGED <<desk, family, attendance, place, messages, ranToday, classAge, job, mail, faults, pushes>>

RemoveAttendance == \E s \in Students :
  /\ attendance[s].status # "NONE"
  /\ attendance' = [attendance EXCEPT ![s].status = "NONE", ![s].notified = FALSE]
  /\ UNCHANGED <<desk, family, invoice, place, messages, ranToday, classAge, job, mail, faults, pushes>>

PlaceMoves == \E s \in Students :
  /\ desk \cap {"offer", "report", "message"} # {}
  /\ place' = [place EXCEPT ![s] = IF @ = "WAITLIST" THEN "ACTIVE" ELSE "DROPPED"]
  /\ place[s] # "DROPPED"
  /\ UNCHANGED <<desk, family, invoice, attendance, messages, ranToday, classAge, job, mail, faults, pushes>>

(* The daily job takes minutes: the day does not end before it does.       *)
Day == /\ \A w \in Workers : job[w].kind # "reminder"
       /\ ranToday' = FALSE
       /\ invoice' = [s \in Students |-> [invoice[s] EXCEPT !.age = IF @ < Never THEN @ + 1 ELSE @]]
       /\ heard' = [s \in Students |-> IF heard[s] < Never THEN heard[s] + 1 ELSE heard[s]]
       /\ classAge' = IF classAge <= WINDOW THEN classAge + 1 ELSE classAge
       /\ UNCHANGED <<desk, family, attendance, place, messages, job, inbox, early, faults, pushes>>

Step(w) == \/ notify(w) \/ SendChunk(w) \/ RecordReminder(w) \/ RecordAbsence(w)
           \/ RecordOther(w) \/ Finish(w)
           \/ \E s \in Students : Accept(w, s) \/ Refuse(w, s)

Next == \/ \E w \in Workers :
             \/ sendOverdueReminders(w) \/ Save(w) \/ offerSpot(w) \/ sendGroup(w) \/ SendMessage(w)
             \/ Step(w) \/ Crash(w)
        \/ InvoiceMoves \/ RemoveAttendance \/ PlaceMoves \/ Day

(* The cron runs every day, a job goes on, and the provider, asked again   *)
(* and again, does accept an email to a family.                            *)
Fairness == /\ WF_vars(Day)
            /\ \A w \in Workers : /\ WF_vars(sendOverdueReminders(w)) /\ WF_vars(Step(w))
                                  /\ \A s \in Students : SF_vars(Accept(w, s))

Spec == Init /\ [][Next]_vars /\ Fairness

-----------------------------------------------------------------------------
(* Properties.                                                             *)

(* No family gets more than MAX_REMINDERS reminders of an invoice, nor two *)
(* notices of an absence, nor a message that is not in the list of sent    *)
(* ones, unless a job died or an answer was lost, and then one for each    *)
(* such fault.                                                             *)
OnlyFaultsRepeat ==
  /\ \A s \in Students : inbox[<<"reminder", s>>] <= MAX_REMINDERS + faults
  /\ \A s \in Students : inbox[<<"absence", s>>] <= attendance[s].row + faults
  /\ \A a \in Addresses :
       inbox[<<"message", a>>] <= messages + faults + Cardinality({w \in Workers : job[w].kind = "message"})

(* "At most one every INTERVAL_DAYS": a family receives a reminder sooner  *)
(* than that after the last one it received, whatever the invoice's row    *)
(* says of it, at most once for each email that the job did not get to     *)
(* record: a lost answer, or a death between the two.                      *)
RemindersSpaced == Cardinality(early) <= faults

(* The family of an invoice that stays overdue gets as many reminders as   *)
(* it may: an email that was refused does not count as one.                *)
AllReminded == \A s \in Students :
  <>[](invoice[s].status = "OVERDUE" /\ familyEmails(s) # {} /\ "reminder" \in desk)
    => <>(inbox[<<"reminder", s>>] + faults >= MAX_REMINDERS)
=============================================================================
