--------------------------- MODULE NoticesProofs ----------------------------
(***************************************************************************)
(* That no family gets the same email twice but for a fault, for any       *)
(* number of students, addresses, guardians, faults and days.              *)
(*                                                                         *)
(* An email is counted in inbox when the provider has it and in the rows   *)
(* when the job comes to record it.  In between the job holds the student  *)
(* as accepted, or the address as no longer to do; a fault that makes it   *)
(* forget is counted in faults.                                            *)
(*                                                                         *)
(* That reminders are days apart needs, besides, that a row is at most as  *)
(* old as the last email a family received of it, but for a fault.         *)
(***************************************************************************)
EXTENDS Notices, FiniteSetTheorems, TLAPS

USE DEF mail

Marks == [row : Nat, status : {"NONE", "ABSENT", "PRESENT"}, notified : BOOLEAN]
Invoices == [status : {"PENDING", "OVERDUE", "PAID"}, reminderCount : Nat, age : Nat]
Plain == [kind : {"reminder", "offer", "report"}, todo : SUBSET Students, accepted : SUBSET Students]
Absence == [kind : {"absence"}, todo : SUBSET Students, accepted : SUBSET Students, row : [Students -> Nat]]
Message == [kind : {"message"}, todo : SUBSET Addresses, accepted : {{}}]
Saved == [kind : {"saved"}, students : SUBSET Students]
Jobs == {NoJob} \cup Plain \cup Absence \cup Message \cup Saved

RowsHold ==
  /\ desk \subseteq Kinds /\ family \in Families
  /\ invoice \in [Students -> Invoices] /\ attendance \in [Students -> Marks]
  /\ job \in [Workers -> Jobs] /\ inbox \in [Targets -> Nat]
  /\ messages \in Nat /\ faults \in Nat
  /\ \A w \in Workers : Sending(w) => \A s, u \in job[w].accepted : s = u

-----------------------------------------------------------------------------
(* Jobs.                                                                   *)

(* A job is of the kind that it says.                                      *)
LEMMA JobFields ==
  ASSUME NEW j \in Jobs
  PROVE  /\ j.kind = "none" <=> j = NoJob
         /\ j.kind = "message" <=> j \in Message
         /\ j.kind = "saved" <=> j \in Saved
         /\ j.kind = "absence" <=> j \in Absence
         /\ j.kind \in {"reminder", "offer", "report"} <=> j \in Plain
         /\ j.kind \in Kinds \cup {"none", "saved"}
BY DEF Jobs, NoJob, Message, Saved, Absence, Plain, Kinds

(* Fields of a mark,                                                       *)
LEMMA MarkFields ==
  ASSUME NEW mark \in Marks
  PROVE  /\ mark.row \in Nat /\ mark.row + 1 \in Nat
         /\ mark.status \in {"NONE", "ABSENT", "PRESENT"}
         /\ mark.notified \in BOOLEAN
<1>1. mark.row \in Nat
  BY DEF Marks
<1> QED  BY <1>1 DEF Marks

(* and of an invoice.                                                      *)
LEMMA Reminding ==
  ASSUME NEW i \in Invoices
  PROVE  /\ Reminded(i) \in Invoices /\ i.reminderCount \in Nat /\ i.age \in Nat
         /\ Reminded(i).reminderCount = i.reminderCount + 1
<1>1. i.reminderCount \in Nat /\ i.age \in Nat /\ i.status \in {"PENDING", "OVERDUE", "PAID"}
  BY DEF Invoices
<1>2. i.reminderCount + 1 \in Nat
  BY <1>1
<1> QED  BY <1>1, <1>2 DEF Reminded, Invoices

(* An email that is delivered is counted, and no other.                    *)
LEMMA InBox ==
  ASSUME RowsHold, NEW kind, NEW xs, Deliver(kind, xs)
  PROVE  /\ inbox' \in [Targets -> Nat]
         /\ \A t \in Targets : inbox'[t] = IF t[1] = kind /\ t[2] \in xs THEN inbox[t] + 1 ELSE inbox[t]
BY DEF RowsHold, Deliver

(* What is counted.                                                        *)
LEMMA Bookkeeping ==
  /\ \A s \in Students : <<"reminder", s>> \in Targets /\ <<"absence", s>> \in Targets
  /\ \A a \in Addresses : <<"message", a>> \in Targets
BY DEF Targets

(* Families have known addresses.                                          *)
LEMMA Emails ==
  ASSUME RowsHold
  PROVE  \A s \in Students : familyEmails(s) \subseteq Addresses
BY NoticesAssumption DEF RowsHold, familyEmails

(* A job moves alone.                                                      *)
LEMMA Doing ==
  ASSUME RowsHold, NEW w \in Workers, NEW j \in Jobs, Do(w, j), j.kind \in Kinds => \A s, u \in j.accepted : s = u
  PROVE  /\ job' \in [Workers -> Jobs] /\ job'[w] = j /\ \A v \in Workers \ {w} : job'[v] = job[v]
         /\ \A v \in Workers : Sending(v)' => \A s, u \in job'[v].accepted : s = u
BY DEF RowsHold, Do, Sending

(* What begins: a job of its kind, whose emails are all to do.             *)
LEMMA Beginnings ==
  ASSUME RowsHold, NEW w \in Workers
  PROVE  /\ sendOverdueReminders(w) => \E todo \in SUBSET Students :
              /\ Do(w, Job("reminder", todo)) /\ job[w] = NoJob /\ ~ ranToday /\ ranToday'
              /\ \A s \in todo : MayBeDue(s)
              /\ UNCHANGED <<desk, family, rows, classAge, mail, faults, pushes>>
         /\ (offerSpot(w) \/ sendGroup(w)) => \E kind \in {"offer", "report"}, todo \in SUBSET Students :
              /\ Do(w, Job(kind, todo)) /\ job[w] = NoJob
              /\ UNCHANGED <<desk, family, rows, ranToday, classAge, mail, faults>>
         /\ SendMessage(w) => \E todo \in SUBSET Addresses :
              /\ Do(w, Job("message", todo)) /\ job[w] = NoJob
              /\ UNCHANGED <<desk, family, rows, ranToday, classAge, mail, faults>>
         /\ notify(w) =>
              /\ job[w].kind = "saved" /\ UNCHANGED <<desk, family, rows, ranToday, classAge, mail, faults, pushes>>
              /\ \/ Do(w, NoJob)
                 \/ \E todo \in SUBSET Students, row \in [Students -> Nat] :
                      /\ Do(w, [kind |-> "absence", todo |-> todo, accepted |-> {}, row |-> row])
                      /\ \A s \in todo : attendance[s].status # "NONE" /\ ~ attendance[s].notified
                      /\ row = [s \in Students |-> attendance[s].row]
<1>1. ASSUME sendOverdueReminders(w)
      PROVE  \E todo \in SUBSET Students :
              /\ Do(w, Job("reminder", todo)) /\ job[w] = NoJob /\ ~ ranToday /\ ranToday'
              /\ \A s \in todo : MayBeDue(s)
              /\ UNCHANGED <<desk, family, rows, classAge, mail, faults, pushes>>
  BY <1>1 DEF sendOverdueReminders, Idle, Reachable
<1>2. ASSUME offerSpot(w)
      PROVE  \E todo \in SUBSET Students :
              /\ Do(w, Job("offer", todo)) /\ job[w] = NoJob
              /\ UNCHANGED <<desk, family, rows, ranToday, classAge, mail, faults>>
  <2> PICK s \in Students : Push(w, "offer", Job("offer", {s})) /\ UNCHANGED rows
    BY <1>2 DEF offerSpot, Reachable
  <2> QED  BY DEF Push, Idle
<1>3. ASSUME sendGroup(w)
      PROVE  \E todo \in SUBSET Students :
              /\ Do(w, Job("report", todo)) /\ job[w] = NoJob
              /\ UNCHANGED <<desk, family, rows, ranToday, classAge, mail, faults>>
  <2> PICK todo \in SUBSET Students : todo = Reachable(ActiveOnes)
    BY DEF Reachable, ActiveOnes
  <2> QED  BY <1>3 DEF sendGroup, Push, Idle
<1>4. ASSUME SendMessage(w)
      PROVE  \E todo \in SUBSET Addresses :
              /\ Do(w, Job("message", todo)) /\ job[w] = NoJob
              /\ UNCHANGED <<desk, family, rows, ranToday, classAge, mail, faults>>
  <2> PICK ss \in {ActiveOnes} \cup {{s} : s \in Students} : Push(w, "message", Job("message", resolve(ss))) /\ UNCHANGED rows
    BY <1>4 DEF SendMessage
  <2>1. ss \subseteq Students
    BY DEF ActiveOnes
  <2>2. resolve(ss) \subseteq Addresses
    BY <2>1, Emails DEF resolve
  <2> PICK todo \in SUBSET Addresses : todo = resolve(ss)
    BY <2>2
  <2> QED  BY DEF Push, Idle
<1>5. ASSUME notify(w)
      PROVE   /\ job[w].kind = "saved" /\ UNCHANGED <<desk, family, rows, ranToday, classAge, mail, faults, pushes>>
              /\ \/ Do(w, NoJob)
                 \/ \E todo \in SUBSET Students, row \in [Students -> Nat] :
                      /\ Do(w, [kind |-> "absence", todo |-> todo, accepted |-> {}, row |-> row])
                      /\ \A s \in todo : attendance[s].status # "NONE" /\ ~ attendance[s].notified
                      /\ row = [s \in Students |-> attendance[s].row]
  <2>1. job[w].kind = "saved" /\ UNCHANGED <<desk, family, rows, ranToday, classAge, mail, faults, pushes>>
    BY <1>5 DEF notify
  <2> PICK ss \in SUBSET Students : ss = job[w].students
    BY <2>1, JobFields DEF RowsHold, Saved
  <2> PICK todo : todo = Reachable(Pending(ss))
    OBVIOUS
  <2> PICK row : row = [s \in Students |-> attendance[s].row]
    OBVIOUS
  <2>2. todo \in SUBSET Students /\ \A s \in todo : attendance[s].status # "NONE" /\ ~ attendance[s].notified
    BY DEF Reachable, Pending
  <2>3. row \in [Students -> Nat]
    BY DEF RowsHold, Marks
  <2>4. Do(w, NoJob) \/ Do(w, [kind |-> "absence", todo |-> todo, accepted |-> {}, row |-> row])
    BY <1>5 DEF notify
  <2> QED  BY <2>1, <2>2, <2>3, <2>4
<1> QED  BY <1>1, <1>2, <1>3, <1>4, <1>5

(* A save starts a job, and changes marks.                                 *)
LEMMA Saves ==
  ASSUME RowsHold, NEW w \in Workers, Save(w)
  PROVE  /\ job[w] = NoJob /\ "absence" \in desk
         /\ UNCHANGED <<desk, family, invoice, place, messages, ranToday, classAge, mail, faults>>
         /\ \E j \in {NoJob} \cup Saved : Do(w, j)
         /\ attendance' \in [Students -> Marks]
         /\ \A s \in Students :
              \/ attendance'[s] = attendance[s]
              \/ attendance[s].status = "NONE" /\ attendance'[s].row = attendance[s].row + 1
              \/ /\ attendance[s].status # "NONE" /\ attendance'[s].row = attendance[s].row
                 /\ attendance'[s].notified = attendance[s].notified
<1> PICK marked \in SUBSET Students \ {{}}, absent \in SUBSET Students :
      /\ attendance' = [s \in Students |->
           IF s \notin marked THEN attendance[s]
           ELSE [attendance[s] EXCEPT !.status = IF s \in absent THEN "ABSENT" ELSE "PRESENT",
                                      !.row = IF attendance[s].status = "NONE" THEN @ + 1 ELSE @]]
      /\ Push(w, "absence", IF absent = {} THEN NoJob ELSE [kind |-> "saved", students |-> absent])
      /\ UNCHANGED <<invoice, place, messages>>
  BY DEF Save
<1>1. \E j \in {NoJob} \cup Saved : Do(w, j)
  <2>1. CASE absent = {}
    BY <2>1 DEF Push
  <2>2. CASE absent # {}
    BY <2>2 DEF Push, Saved
  <2> QED  BY <2>1, <2>2
<1>2. ASSUME NEW s \in Students
      PROVE  /\ attendance'[s] \in Marks
             /\ \/ attendance'[s] = attendance[s]
                \/ attendance[s].status = "NONE" /\ attendance'[s].row = attendance[s].row + 1
                \/ /\ attendance[s].status # "NONE" /\ attendance'[s].row = attendance[s].row
                   /\ attendance'[s].notified = attendance[s].notified
  <2> PICK mark \in Marks : mark = attendance[s]
    BY DEF RowsHold
  <2> PICK status \in {"ABSENT", "PRESENT"} : status = IF s \in absent THEN "ABSENT" ELSE "PRESENT"
    OBVIOUS
  <2>3. mark.row \in Nat /\ mark.row + 1 \in Nat
    BY MarkFields
  <2> PICK n \in Nat : n = IF mark.status = "NONE" THEN mark.row + 1 ELSE mark.row
    BY <2>3
  <2>1. attendance'[s] = IF s \notin marked THEN mark ELSE [mark EXCEPT !.status = status, !.row = n]
    OBVIOUS
  <2>2. /\ [mark EXCEPT !.status = status, !.row = n] \in Marks
        /\ [mark EXCEPT !.status = status, !.row = n].row = n
        /\ [mark EXCEPT !.status = status, !.row = n].notified = mark.notified
    BY DEF Marks
  <2> QED  BY <2>1, <2>2
<1>3. attendance' \in [Students -> Marks]
  BY <1>2
<1> QED  BY <1>1, <1>2, <1>3 DEF Push, Idle

(* An email that is handed over.                                           *)
LEMMA HandingOver ==
  ASSUME RowsHold, NEW w \in Workers, NEW s \in Students, Accept(w, s) \/ Refuse(w, s)
  PROVE  /\ UNCHANGED <<desk, family, rows, ranToday, classAge>>
         /\ Sending(w) /\ job[w].kind # "message" /\ s \in job[w].todo
         /\ job[w].todo \subseteq Students /\ job[w].accepted = {} /\ job[w] \in Plain \cup Absence
         /\ \E j \in Plain \cup Absence :
              /\ Do(w, j) /\ j.kind = job[w].kind /\ j.todo = job[w].todo \ {s}
              /\ j.kind = "absence" => j.row = job[w].row
              /\ \/ Deliver(job[w].kind, {s}) /\ j.accepted = {s} /\ UNCHANGED faults
                 \/ j.accepted = {} /\ UNCHANGED <<mail, faults>>
                 \/ Deliver(job[w].kind, {s}) /\ j.accepted = {} /\ faults' = faults + 1
<1>1. /\ Sending(w) /\ job[w].kind # "message" /\ s \in job[w].todo /\ job[w].accepted = {}
      /\ UNCHANGED <<desk, family, rows, ranToday, classAge>>
  BY DEF Accept, Refuse
<1> PICK was \in Plain \cup Absence : was = job[w]
  BY <1>1, JobFields DEF RowsHold, Sending, Kinds
<1>2. \E kept \in {{}, {s}} :
        /\ Do(w, [was EXCEPT !.todo = @ \ {s}, !.accepted = kept])
        /\ \/ Deliver(was.kind, {s}) /\ kept = {s} /\ UNCHANGED faults
           \/ kept = {} /\ UNCHANGED <<mail, faults>>
           \/ Deliver(was.kind, {s}) /\ kept = {} /\ faults' = faults + 1
  <2>1. [was EXCEPT !.todo = @ \ {s}] = [was EXCEPT !.todo = @ \ {s}, !.accepted = {}]
    BY <1>1 DEF Plain, Absence
  <2>2. CASE Accept(w, s)
    BY <2>2 DEF Accept
  <2>3. CASE Refuse(w, s)
    BY <2>1, <2>3 DEF Refuse
  <2> QED  BY <2>2, <2>3
<1> PICK kept \in {{}, {s}} :
        /\ Do(w, [was EXCEPT !.todo = @ \ {s}, !.accepted = kept])
        /\ \/ Deliver(was.kind, {s}) /\ kept = {s} /\ UNCHANGED faults
           \/ kept = {} /\ UNCHANGED <<mail, faults>>
           \/ Deliver(was.kind, {s}) /\ kept = {} /\ faults' = faults + 1
  BY <1>2
<1> PICK j : j = [was EXCEPT !.todo = @ \ {s}, !.accepted = kept]
  OBVIOUS
<1>3. /\ j \in Plain \cup Absence /\ j.kind = was.kind /\ j.todo = was.todo \ {s} /\ j.accepted = kept
      /\ was \in Absence => j.row = was.row
  BY DEF Plain, Absence
<1>4. was.todo \subseteq Students /\ (was.kind = "absence" => was \in Absence)
  BY DEF Plain, Absence
<1> QED  BY <1>1, <1>3, <1>4

(* Addresses that a message is sent to.                                    *)
LEMMA Chunks ==
  ASSUME RowsHold, NEW w \in Workers, SendChunk(w)
  PROVE  /\ UNCHANGED <<desk, family, rows, ranToday, classAge>> /\ job[w] \in Message
         /\ \E chunk \in SUBSET job[w].todo, reached \in SUBSET Addresses, j \in Message, n \in Nat :
              /\ reached \subseteq chunk
              /\ Do(w, j) /\ j.todo = job[w].todo \ chunk
              /\ Deliver("message", reached) /\ faults' = faults + n
<1> PICK was \in Message : was = job[w]
  BY JobFields DEF RowsHold, SendChunk
<1> PICK chunk \in SUBSET was.todo :
      /\ \E reached \in SUBSET chunk : \E answered \in SUBSET reached :
           /\ Deliver("message", reached)
           /\ faults' = faults + Cardinality(reached \ answered) /\ faults' <= MaxFaults
      /\ Do(w, [was EXCEPT !.todo = @ \ chunk])
      /\ UNCHANGED <<desk, family, rows, ranToday, classAge, pushes>>
  BY DEF SendChunk
<1> PICK reached \in SUBSET chunk, answered \in SUBSET chunk :
      Deliver("message", reached) /\ faults' = faults + Cardinality(reached \ answered)
  OBVIOUS
<1>1. chunk \subseteq Addresses /\ reached \in SUBSET Addresses
  BY DEF Message
<1>2. Cardinality(reached \ answered) \in Nat
  <2>1. IsFiniteSet(reached \ answered)
    BY <1>1, FS_Subset, NoticesAssumption
  <2> QED  BY <2>1, FS_CardinalityType
<1> PICK j : j = [was EXCEPT !.todo = @ \ chunk]
  OBVIOUS
<1>3. j \in Message /\ j.todo = was.todo \ chunk
  BY DEF Message
<1> QED  BY <1>1, <1>2, <1>3, ZenonT(60)

(* What is recorded.                                                       *)
LEMMA Recordings ==
  ASSUME RowsHold, NEW w \in Workers
  PROVE  /\ RecordReminder(w) => \E s \in Students, j \in Plain :
              /\ job[w].kind = "reminder" /\ s \in job[w].accepted
              /\ Do(w, j) /\ j.kind = "reminder" /\ j.todo = job[w].todo /\ j.accepted = {}
              /\ invoice' = [invoice EXCEPT ![s] = Reminded(@)]
              /\ UNCHANGED <<desk, family, attendance, place, messages, ranToday, classAge, mail, faults>>
         /\ RecordAbsence(w) => \E s \in Students :
              /\ job[w].kind = "absence" /\ s \in job[w].accepted
              /\ UNCHANGED <<desk, family, invoice, place, messages, ranToday, classAge, mail, faults>>
              /\ \/ /\ attendance' = [attendance EXCEPT ![s].notified = TRUE]
                    /\ \E j \in Absence : /\ Do(w, j) /\ j.todo = job[w].todo /\ j.accepted = {}
                                          /\ j.row = job[w].row
                 \/ /\ UNCHANGED attendance /\ Do(w, NoJob)
                    /\ attendance[s].status = "NONE" \/ attendance[s].row # job[w].row[s]
         /\ RecordOther(w) => \E j \in Plain :
              /\ job[w].kind \in {"offer", "report"} /\ j.kind = job[w].kind /\ Do(w, j) /\ j.accepted = {}
              /\ UNCHANGED <<desk, family, rows, ranToday, classAge, mail, faults>>
<1>1. ASSUME NEW was \in Plain \cup Absence, was = job[w]
      PROVE  \E j \in Plain \cup Absence :
               /\ j = [was EXCEPT !.accepted = {}] /\ j.kind = was.kind /\ j.todo = was.todo /\ j.accepted = {}
               /\ was \in Plain => j \in Plain
               /\ was \in Absence => j \in Absence /\ j.row = was.row
  <2> PICK j : j = [was EXCEPT !.accepted = {}]
    OBVIOUS
  <2>1. j.kind = was.kind /\ j.todo = was.todo /\ j.accepted = {}
    BY DEF Plain, Absence
  <2>2. /\ was \in Plain => j \in Plain
        /\ was \in Absence => j \in Absence /\ j.row = was.row
    BY DEF Plain, Absence
  <2> QED  BY <2>1, <2>2
<1>2. ASSUME RecordReminder(w)
      PROVE  \E s \in Students, j \in Plain :
              /\ job[w].kind = "reminder" /\ s \in job[w].accepted
              /\ Do(w, j) /\ j.kind = "reminder" /\ j.todo = job[w].todo /\ j.accepted = {}
              /\ invoice' = [invoice EXCEPT ![s] = Reminded(@)]
              /\ UNCHANGED <<desk, family, attendance, place, messages, ranToday, classAge, mail, faults>>
  <2> PICK was \in Plain : was = job[w] /\ was.kind = "reminder"
    BY <1>2, JobFields DEF RowsHold, RecordReminder
  <2> PICK j \in Plain : j = [was EXCEPT !.accepted = {}] /\ j.kind = was.kind /\ j.todo = was.todo /\ j.accepted = {}
    BY <1>1
  <2>1. was.accepted \subseteq Students
    BY DEF Plain
  <2> PICK s \in Students : s \in was.accepted /\ invoice' = [invoice EXCEPT ![s] = Reminded(@)] /\ Recorded(w)
                            /\ UNCHANGED <<attendance, place, messages>>
    BY <1>2, <2>1 DEF RecordReminder
  <2> QED  BY DEF Recorded
<1>3. ASSUME RecordAbsence(w)
      PROVE  \E s \in Students :
              /\ job[w].kind = "absence" /\ s \in job[w].accepted
              /\ UNCHANGED <<desk, family, invoice, place, messages, ranToday, classAge, mail, faults>>
              /\ \/ /\ attendance' = [attendance EXCEPT ![s].notified = TRUE]
                    /\ \E j \in Absence : /\ Do(w, j) /\ j.todo = job[w].todo /\ j.accepted = {}
                                          /\ j.row = job[w].row
                 \/ /\ UNCHANGED attendance /\ Do(w, NoJob)
                    /\ attendance[s].status = "NONE" \/ attendance[s].row # job[w].row[s]
  <2> PICK was \in Absence : was = job[w] /\ was.kind = "absence"
    BY <1>3, JobFields DEF RowsHold, RecordAbsence
  <2> PICK j \in Absence : j = [was EXCEPT !.accepted = {}] /\ j.todo = was.todo /\ j.accepted = {} /\ j.row = was.row
    BY <1>1
  <2>1. was.accepted \subseteq Students
    BY DEF Absence
  <2> PICK s \in Students :
        /\ s \in was.accepted /\ UNCHANGED <<invoice, place, messages>>
        /\ IF attendance[s].status # "NONE" /\ attendance[s].row = was.row[s]
           THEN attendance' = [attendance EXCEPT ![s].notified = TRUE] /\ Recorded(w)
           ELSE /\ Do(w, NoJob)
                /\ UNCHANGED <<attendance, desk, family, ranToday, classAge, mail, faults, pushes>>
    BY <1>3, <2>1 DEF RecordAbsence
  <2>2. CASE attendance[s].status # "NONE" /\ attendance[s].row = was.row[s]
    BY <2>2 DEF Recorded
  <2>3. CASE ~ (attendance[s].status # "NONE" /\ attendance[s].row = was.row[s])
    BY <2>3
  <2> QED  BY <2>2, <2>3
<1>4. ASSUME RecordOther(w)
      PROVE  \E j \in Plain :
              /\ job[w].kind \in {"offer", "report"} /\ j.kind = job[w].kind /\ Do(w, j) /\ j.accepted = {}
              /\ UNCHANGED <<desk, family, rows, ranToday, classAge, mail, faults>>
  <2> PICK was \in Plain : was = job[w]
    BY <1>4, JobFields DEF RowsHold, RecordOther
  <2> PICK j \in Plain : j = [was EXCEPT !.accepted = {}] /\ j.kind = was.kind /\ j.todo = was.todo /\ j.accepted = {}
    BY <1>1
  <2> QED  BY <1>4 DEF RecordOther, Recorded
<1> QED  BY <1>2, <1>3, <1>4

(* What ends a job.                                                        *)
LEMMA Endings ==
  ASSUME RowsHold, NEW w \in Workers
  PROVE  /\ Finish(w) => /\ job[w].kind \in Kinds /\ job[w].todo = {} /\ job[w].accepted = {} /\ Do(w, NoJob)
                         /\ messages' = IF job[w].kind = "message" THEN messages + 1 ELSE messages
                         /\ UNCHANGED <<desk, family, invoice, attendance, place, ranToday, classAge, mail, faults>>
         /\ Crash(w) => /\ job[w] # NoJob /\ Do(w, NoJob) /\ faults' = faults + 1
                        /\ UNCHANGED <<desk, family, rows, ranToday, classAge, mail>>
BY DEF Finish, Finished, Sending, Crash

(* What a job is when it begins.                                           *)
LEMMA JobsBegin ==
  /\ \A kind \in {"reminder", "offer", "report"}, todo \in SUBSET Students :
       /\ Job(kind, todo) \in Plain
       /\ Job(kind, todo).kind = kind /\ Job(kind, todo).todo = todo /\ Job(kind, todo).accepted = {}
  /\ \A todo \in SUBSET Addresses :
       /\ Job("message", todo) \in Message
       /\ Job("message", todo).kind = "message" /\ Job("message", todo).todo = todo /\ Job("message", todo).accepted = {}
  /\ \A todo \in SUBSET Students, row \in [Students -> Nat] :
       [kind |-> "absence", todo |-> todo, accepted |-> {}, row |-> row] \in Absence
  /\ NoJob.kind = "none" /\ NoJob \in Jobs /\ Plain \subseteq Jobs /\ Absence \subseteq Jobs
  /\ Message \subseteq Jobs /\ Saved \subseteq Jobs
  /\ \A j \in Message : j.kind = "message" /\ j.accepted = {}
  /\ \A j \in Saved : j.kind = "saved"
  /\ \A j \in Absence : j.kind = "absence"
  /\ \A j \in Plain : j.kind \in {"reminder", "offer", "report"}
BY DEF Job, Plain, Message, Absence, NoJob, Jobs, Saved

(* Every step keeps the types of the rows and jobs,                        *)
LEMMA RowsStay ==
  ASSUME RowsHold, [Next]_vars
  PROVE  RowsHold'
<1>1. ASSUME NEW w \in Workers, NEW j \in Jobs, Do(w, j),
             j.kind \in Kinds => \A s, u \in j.accepted : s = u,
             UNCHANGED <<desk, family>>, invoice' \in [Students -> Invoices], attendance' \in [Students -> Marks],
             inbox' \in [Targets -> Nat], messages' \in Nat, faults' \in Nat
      PROVE  RowsHold'
  BY <1>1, Doing DEF RowsHold
<1>2. ASSUME NEW w \in Workers, sendOverdueReminders(w) \/ offerSpot(w) \/ sendGroup(w)  PROVE RowsHold'
  <2> PICK kind \in {"reminder", "offer", "report"}, todo \in SUBSET Students :
        Do(w, Job(kind, todo)) /\ UNCHANGED <<desk, family, rows, mail, faults>>
    BY <1>2, Beginnings
  <2> PICK j \in Plain : j = Job(kind, todo) /\ j.accepted = {}
    BY JobsBegin
  <2> QED  BY <1>1, JobsBegin DEF RowsHold, rows
<1>3. ASSUME NEW w \in Workers, SendMessage(w)  PROVE RowsHold'
  <2> PICK todo \in SUBSET Addresses : Do(w, Job("message", todo)) /\ UNCHANGED <<desk, family, rows, mail, faults>>
    BY <1>3, Beginnings
  <2> PICK j \in Message : j = Job("message", todo) /\ j.accepted = {}
    BY JobsBegin
  <2> QED  BY <1>1, JobsBegin DEF RowsHold, rows
<1>4. ASSUME NEW w \in Workers, notify(w)  PROVE RowsHold'
  <2>1. UNCHANGED <<desk, family, rows, mail, faults>>
    BY <1>4, Beginnings
  <2>2. CASE Do(w, NoJob)
    BY <1>1, <2>1, <2>2, JobsBegin DEF RowsHold, rows, Kinds
  <2>3. CASE ~ Do(w, NoJob)
    <3> PICK todo \in SUBSET Students, row \in [Students -> Nat] :
          Do(w, [kind |-> "absence", todo |-> todo, accepted |-> {}, row |-> row])
      BY <1>4, <2>3, Beginnings
    <3> PICK j \in Absence : j = [kind |-> "absence", todo |-> todo, accepted |-> {}, row |-> row]
      BY JobsBegin
    <3>1. j.accepted = {} /\ Do(w, j)
      OBVIOUS
    <3> QED  BY <1>1, <2>1, <3>1, JobsBegin DEF RowsHold, rows
  <2> QED  BY <2>2, <2>3
<1>5. ASSUME NEW w \in Workers, Save(w)  PROVE RowsHold'
  <2> PICK j \in {NoJob} \cup Saved : Do(w, j)
    BY <1>5, Saves
  <2>1. j \in Jobs /\ j.kind \notin Kinds
    BY JobsBegin DEF Kinds
  <2>2. UNCHANGED <<desk, family, invoice, messages, mail, faults>> /\ attendance' \in [Students -> Marks]
    BY <1>5, Saves
  <2> QED  BY <1>1, <2>1, <2>2 DEF RowsHold
<1>6. ASSUME NEW w \in Workers, NEW s \in Students, Accept(w, s) \/ Refuse(w, s)  PROVE RowsHold'
  <2> PICK j \in Plain \cup Absence :
              /\ Do(w, j)
              /\ \/ Deliver(job[w].kind, {s}) /\ j.accepted = {s} /\ UNCHANGED faults
                 \/ j.accepted = {} /\ UNCHANGED <<mail, faults>>
                 \/ Deliver(job[w].kind, {s}) /\ j.accepted = {} /\ faults' = faults + 1
    BY <1>6, HandingOver
  <2>1. inbox' \in [Targets -> Nat] /\ faults' \in Nat
    BY InBox DEF RowsHold
  <2>2. UNCHANGED <<desk, family, rows>>
    BY <1>6, HandingOver
  <2> QED  BY <1>1, <2>1, <2>2, JobsBegin DEF RowsHold, rows
<1>7. ASSUME NEW w \in Workers, SendChunk(w)  PROVE RowsHold'
  <2> PICK reached \in SUBSET Addresses, j \in Message, n \in Nat :
        Do(w, j) /\ Deliver("message", reached) /\ faults' = faults + n
    BY <1>7, Chunks
  <2>1. inbox' \in [Targets -> Nat] /\ faults' \in Nat
    BY InBox DEF RowsHold
  <2>2. UNCHANGED <<desk, family, rows>>
    BY <1>7, Chunks
  <2> QED  BY <1>1, <2>1, <2>2, JobsBegin DEF RowsHold, rows
<1>8. ASSUME NEW w \in Workers, RecordReminder(w)  PROVE RowsHold'
  <2> PICK s \in Students, j \in Plain :
        /\ Do(w, j) /\ j.accepted = {} /\ invoice' = [invoice EXCEPT ![s] = Reminded(@)]
        /\ UNCHANGED <<desk, family, attendance, place, messages, ranToday, classAge, mail, faults>>
    BY <1>8, Recordings
  <2>1. Reminded(invoice[s]) \in Invoices
    BY Reminding DEF RowsHold
  <2>2. invoice' \in [Students -> Invoices]
    BY <2>1 DEF RowsHold
  <2> QED  BY <1>1, <2>2, JobsBegin DEF RowsHold
<1>9. ASSUME NEW w \in Workers, RecordAbsence(w)  PROVE RowsHold'
  <2> PICK s \in Students :
        /\ UNCHANGED <<desk, family, invoice, place, messages, ranToday, classAge, mail, faults>>
        /\ \/ /\ attendance' = [attendance EXCEPT ![s].notified = TRUE]
              /\ \E j \in Absence : Do(w, j) /\ j.accepted = {}
           \/ UNCHANGED attendance /\ Do(w, NoJob)
    BY <1>9, Recordings
  <2>1. [attendance[s] EXCEPT !.notified = TRUE] \in Marks
    BY DEF RowsHold, Marks
  <2>2. attendance' \in [Students -> Marks]
    BY <2>1 DEF RowsHold
  <2>3. \E j \in Jobs : Do(w, j) /\ (j.kind \in Kinds => j.accepted = {})
    BY JobsBegin DEF Kinds
  <2> QED  BY <1>1, <2>2, <2>3 DEF RowsHold
<1>10. ASSUME NEW w \in Workers, RecordOther(w)  PROVE RowsHold'
  <2> PICK j \in Plain : Do(w, j) /\ j.accepted = {} /\ UNCHANGED <<desk, family, rows, ranToday, classAge, mail, faults>>
    BY <1>10, Recordings
  <2> QED  BY <1>1, JobsBegin DEF RowsHold, rows
<1>11. ASSUME NEW w \in Workers, Finish(w) \/ Crash(w)  PROVE RowsHold'
  <2>1. /\ Do(w, NoJob) /\ NoJob.kind \notin Kinds /\ messages' \in Nat /\ faults' \in Nat
        /\ UNCHANGED <<desk, family, invoice, attendance, mail>>
    BY <1>11, Endings, JobsBegin DEF RowsHold, rows, Kinds
  <2> QED  BY <1>1, <2>1, JobsBegin DEF RowsHold
<1>12. ASSUME UNCHANGED <<desk, family, job, inbox, messages, faults>>, invoice' \in [Students -> Invoices],
              attendance' \in [Students -> Marks]
       PROVE  RowsHold'
  BY <1>12 DEF RowsHold, Sending
<1>13. CASE InvoiceMoves
  <2> PICK s \in Students, status \in {"OVERDUE", "PAID"} : invoice' = [invoice EXCEPT ![s].status = status]
    BY <1>13 DEF InvoiceMoves
  <2>1. invoice' \in [Students -> Invoices]
    BY DEF RowsHold, Invoices
  <2> QED  BY <1>12, <1>13, <2>1 DEF InvoiceMoves, RowsHold
<1>14. CASE RemoveAttendance
  <2> PICK s \in Students : attendance' = [attendance EXCEPT ![s].status = "NONE", ![s].notified = FALSE]
    BY <1>14 DEF RemoveAttendance
  <2>1. [attendance[s] EXCEPT !.status = "NONE", !.notified = FALSE] \in Marks
    BY DEF RowsHold, Marks
  <2>2. attendance' = [attendance EXCEPT ![s] = [attendance[s] EXCEPT !.status = "NONE", !.notified = FALSE]]
    BY DEF RowsHold, Marks
  <2> QED  BY <1>12, <1>14, <2>1, <2>2 DEF RemoveAttendance, RowsHold
<1>15. CASE Day
  <2>1. \A s \in Students : [invoice[s] EXCEPT !.age = IF @ < Never THEN @ + 1 ELSE @] \in Invoices
    BY DEF RowsHold, Invoices
  <2>2. invoice' \in [Students -> Invoices]
    BY <1>15, <2>1 DEF Day
  <2> QED  BY <1>12, <1>15, <2>2 DEF Day, RowsHold
<1>16. CASE UNCHANGED vars \/ PlaceMoves
  BY <1>12, <1>16 DEF vars, rows, PlaceMoves, RowsHold
<1> QED  BY <1>2, <1>3, <1>4, <1>5, <1>6, <1>7, <1>8, <1>9, <1>10, <1>11, <1>13, <1>14, <1>15, <1>16 DEF Next, Step

(* and so they begin.                                                      *)
LEMMA InitialRows == Init => RowsHold
<1> SUFFICES ASSUME Init  PROVE RowsHold
  OBVIOUS
<1>1. /\ desk \subseteq Kinds /\ family \in Families /\ messages = 0 /\ faults = 0
      /\ inbox = [t \in Targets |-> 0] /\ job = [w \in Workers |-> NoJob]
      /\ Never \in Nat
  BY NoticesAssumption DEF Init, Never
<1>2. invoice \in [Students -> Invoices] /\ attendance \in [Students -> Marks]
  BY <1>1 DEF Init, Invoices, Marks, NoMark
<1>3. \A w \in Workers : ~ Sending(w)
  BY <1>1, JobsBegin DEF Sending, Kinds
<1> QED  BY <1>1, <1>2, <1>3, JobsBegin DEF RowsHold
-----------------------------------------------------------------------------
(* Reminders, for any number of workers.                                   *)

Reminds(w) == job[w].kind = "reminder"

RemindersHold ==
  /\ \A w \in Workers : Reminds(w) => ranToday
  /\ \A v, w \in Workers : Reminds(v) /\ Reminds(w) => v = w
  /\ \A s \in Students : invoice[s].reminderCount <= MAX_REMINDERS
  /\ \A w \in Workers : Reminds(w) =>
       /\ \A s \in job[w].todo : s \notin job[w].accepted /\ invoice[s].age >= INTERVAL_DAYS
       /\ \A s \in job[w].todo \cup job[w].accepted : invoice[s].reminderCount < MAX_REMINDERS
  /\ \A s \in Students :
       \/ inbox[<<"reminder", s>>] <= invoice[s].reminderCount + faults
       \/ /\ inbox[<<"reminder", s>>] <= invoice[s].reminderCount + faults + 1
          /\ \E w \in Workers : Reminds(w) /\ s \in job[w].accepted


(* Steps that no reminder knows of.                                        *)
LEMMA RemindersElsewhere ==
  ASSUME RowsHold, RowsHold', RemindersHold,
         UNCHANGED ranToday, faults' >= faults,
         \A s \in Students : /\ invoice'[s].reminderCount = invoice[s].reminderCount
                             /\ invoice'[s].age = invoice[s].age
                             /\ inbox'[<<"reminder", s>>] = inbox[<<"reminder", s>>],
         \A w \in Workers : (Reminds(w) \/ Reminds(w)') => job'[w] = job[w]
  PROVE  RemindersHold'
<1>1. \A w \in Workers : (Reminds(w) <=> Reminds(w)') /\ (Reminds(w) => job'[w] = job[w])
  BY DEF Reminds
<1>2. ASSUME NEW s \in Students
      PROVE  \/ inbox'[<<"reminder", s>>] <= invoice'[s].reminderCount + faults'
             \/ /\ inbox'[<<"reminder", s>>] <= invoice'[s].reminderCount + faults' + 1
                /\ \E w \in Workers : Reminds(w)' /\ s \in job'[w].accepted
  <2> PICK n \in Nat : n = inbox[<<"reminder", s>>]
    BY Bookkeeping DEF RowsHold
  <2> PICK k \in Nat : k = invoice[s].reminderCount
    BY Reminding DEF RowsHold
  <2>1. faults \in Nat /\ faults' \in Nat /\ faults' >= faults
    BY DEF RowsHold
  <2>2. \/ n <= k + faults
        \/ n <= k + faults + 1 /\ \E w \in Workers : Reminds(w) /\ s \in job[w].accepted
    BY DEF RemindersHold
  <2>3. /\ n <= k + faults => n <= k + faults'
        /\ n <= k + faults + 1 => n <= k + faults' + 1
    BY <2>1
  <2> QED  BY <1>1, <2>2, <2>3
<1>3. \A w \in Workers : Reminds(w)' =>
       /\ \A s \in job'[w].todo : s \notin job'[w].accepted /\ invoice'[s].age >= INTERVAL_DAYS
       /\ \A s \in job'[w].todo \cup job'[w].accepted : invoice'[s].reminderCount < MAX_REMINDERS
  <2> SUFFICES ASSUME NEW w \in Workers, Reminds(w), job'[w] = job[w]
               PROVE  /\ \A s \in job[w].todo : s \notin job[w].accepted /\ invoice'[s].age >= INTERVAL_DAYS
                      /\ \A s \in job[w].todo \cup job[w].accepted : invoice'[s].reminderCount < MAX_REMINDERS
    BY <1>1
  <2>1. job[w].todo \subseteq Students /\ job[w].accepted \subseteq Students
    BY JobFields DEF RowsHold, Reminds, Plain
  <2> QED  BY <2>1 DEF RemindersHold
<1> QED  BY <1>1, <1>2, <1>3 DEF RemindersHold

(* A worker whose job is about something else.                             *)
LEMMA OtherJobs ==
  ASSUME RowsHold, RowsHold', RemindersHold, NEW w \in Workers, NEW j \in Jobs, Do(w, j),
         job[w].kind # "reminder", j.kind # "reminder",
         UNCHANGED <<invoice, ranToday>>, faults' >= faults,
         UNCHANGED inbox \/ \E kind, xs : kind # "reminder" /\ Deliver(kind, xs)
  PROVE  RemindersHold'
<1>1. job'[w] = j /\ \A v \in Workers \ {w} : job'[v] = job[v]
  BY DEF RowsHold, Do
<1>2. \A v \in Workers : (Reminds(v) \/ Reminds(v)') => job'[v] = job[v]
  BY <1>1 DEF Reminds
<1>3. \A s \in Students : inbox'[<<"reminder", s>>] = inbox[<<"reminder", s>>]
  BY InBox, Bookkeeping
<1> QED  BY <1>2, <1>3, RemindersElsewhere

(* What the job of the day does.                                           *)
LEMMA RemindingSteps ==
  ASSUME RowsHold, RowsHold', RemindersHold, NEW w \in Workers,
         \/ sendOverdueReminders(w)
         \/ Reminds(w) /\ \E s \in Students : Accept(w, s) \/ Refuse(w, s)
         \/ RecordReminder(w)
         \/ Reminds(w) /\ (Finish(w) \/ Crash(w))
  PROVE  RemindersHold'
<1>1. CASE sendOverdueReminders(w)
  <2> PICK todo \in SUBSET Students :
              /\ Do(w, Job("reminder", todo)) /\ ~ ranToday /\ ranToday'
              /\ \A s \in todo : MayBeDue(s)
              /\ UNCHANGED <<desk, family, rows, classAge, mail, faults, pushes>>
    BY <1>1, Beginnings
  <2> PICK j \in Plain : j = Job("reminder", todo) /\ j.kind = "reminder" /\ j.todo = todo /\ j.accepted = {}
    BY JobsBegin
  <2>1. job'[w] = j /\ \A v \in Workers \ {w} : job'[v] = job[v] /\ ~ Reminds(v)
    BY DEF RowsHold, Do, RemindersHold
  <2>2. \A v \in Workers : ~ Reminds(v)
    BY DEF RemindersHold
  <2>3. \A v \in Workers : Reminds(v)' => v = w
    BY <2>1 DEF Reminds
  <2>4. \A s \in todo : invoice'[s].age >= INTERVAL_DAYS /\ invoice'[s].reminderCount < MAX_REMINDERS
    BY DEF MayBeDue, rows
  <2>5. UNCHANGED <<invoice, mail, faults>>
    BY DEF rows
  <2>6. \A s \in Students : inbox[<<"reminder", s>>] <= invoice[s].reminderCount + faults
    BY <2>2 DEF RemindersHold
  <2> QED  BY <2>1, <2>3, <2>4, <2>5, <2>6 DEF RemindersHold
<1> SUFFICES ASSUME Reminds(w), ~ sendOverdueReminders(w)  PROVE RemindersHold'
  BY <1>1, Recordings DEF Reminds
<1> PICK was \in Plain : was = job[w] /\ was.kind = "reminder"
  BY JobFields DEF RowsHold, Reminds
<1>2. was.todo \subseteq Students /\ was.accepted \subseteq Students
  BY DEF Plain
<1>3. ASSUME NEW j \in Jobs, Do(w, j), UNCHANGED ranToday, j = NoJob \/ j.kind = "reminder",
             \A s \in Students : invoice'[s].reminderCount <= MAX_REMINDERS,
             j.kind = "reminder" =>
               /\ \A s \in j.todo : s \notin j.accepted /\ invoice'[s].age >= INTERVAL_DAYS
               /\ \A s \in j.todo \cup j.accepted : invoice'[s].reminderCount < MAX_REMINDERS,
             \A s \in Students :
               \/ inbox'[<<"reminder", s>>] <= invoice'[s].reminderCount + faults'
               \/ /\ inbox'[<<"reminder", s>>] <= invoice'[s].reminderCount + faults' + 1
                  /\ j.kind = "reminder" /\ s \in j.accepted
      PROVE  RemindersHold'
  <2>1. job'[w] = j /\ \A v \in Workers \ {w} : job'[v] = job[v] /\ ~ Reminds(v)
    BY <1>3 DEF RowsHold, Do, RemindersHold
  <2>2. \A v \in Workers : Reminds(v)' => v = w /\ j.kind = "reminder"
    BY <2>1 DEF Reminds
  <2>3. ranToday'
    BY <1>3 DEF RemindersHold
  <2>4. \A s \in Students :
               \/ inbox'[<<"reminder", s>>] <= invoice'[s].reminderCount + faults'
               \/ /\ inbox'[<<"reminder", s>>] <= invoice'[s].reminderCount + faults' + 1
                  /\ \E v \in Workers : Reminds(v)' /\ s \in job'[v].accepted
    BY <1>3, <2>1 DEF Reminds
  <2> QED  BY <1>3, <2>1, <2>2, <2>3, <2>4 DEF RemindersHold
<1>4. /\ \A s \in was.todo : s \notin was.accepted /\ invoice[s].age >= INTERVAL_DAYS
      /\ \A s \in was.todo \cup was.accepted : invoice[s].reminderCount < MAX_REMINDERS
      /\ \A s \in Students : invoice[s].reminderCount <= MAX_REMINDERS
      /\ \A s, u \in was.accepted : s = u
      /\ \A v \in Workers : Reminds(v) => v = w
  BY DEF RemindersHold, RowsHold, Sending, Kinds, Reminds
<1>5. ASSUME NEW s \in Students
      PROVE  /\ inbox[<<"reminder", s>>] \in Nat /\ invoice[s].reminderCount \in Nat /\ faults \in Nat
             /\ \/ inbox[<<"reminder", s>>] <= invoice[s].reminderCount + faults
                \/ /\ inbox[<<"reminder", s>>] <= invoice[s].reminderCount + faults + 1
                   /\ s \in was.accepted
  BY <1>4, Bookkeeping, Reminding DEF RowsHold, RemindersHold
<1>6. CASE \E s \in Students : Accept(w, s) \/ Refuse(w, s)
  <2> PICK s \in Students : Accept(w, s) \/ Refuse(w, s)
    BY <1>6
  <2> PICK j \in Plain \cup Absence :
              /\ Do(w, j) /\ j.kind = was.kind /\ j.todo = was.todo \ {s}
              /\ \/ Deliver(was.kind, {s}) /\ j.accepted = {s} /\ UNCHANGED faults
                 \/ j.accepted = {} /\ UNCHANGED <<mail, faults>>
                 \/ Deliver(was.kind, {s}) /\ j.accepted = {} /\ faults' = faults + 1
    BY HandingOver, ZenonT(60)
  <2>1. UNCHANGED <<rows, ranToday>> /\ s \in was.todo /\ was.accepted = {}
    BY HandingOver
  <2>2. UNCHANGED invoice
    BY <2>1 DEF rows
  <2>3. ASSUME NEW u \in Students
        PROVE  \/ inbox'[<<"reminder", u>>] <= invoice'[u].reminderCount + faults'
               \/ /\ inbox'[<<"reminder", u>>] <= invoice'[u].reminderCount + faults' + 1
                  /\ j.kind = "reminder" /\ u \in j.accepted
    <3>1. /\ inbox[<<"reminder", u>>] \in Nat /\ invoice[u].reminderCount \in Nat /\ faults \in Nat
          /\ inbox[<<"reminder", u>>] <= invoice[u].reminderCount + faults
      BY <1>5, <2>1
    <3>2. Deliver(was.kind, {s}) =>
            inbox'[<<"reminder", u>>] = IF u = s THEN inbox[<<"reminder", u>>] + 1 ELSE inbox[<<"reminder", u>>]
      BY InBox, Bookkeeping, ZenonT(60)
    <3>3. \/ inbox'[<<"reminder", u>>] = inbox[<<"reminder", u>>] /\ faults' = faults
          \/ /\ inbox'[<<"reminder", u>>] \in {inbox[<<"reminder", u>>], inbox[<<"reminder", u>>] + 1}
             /\ faults' = faults + 1
          \/ inbox'[<<"reminder", u>>] = inbox[<<"reminder", u>>] + 1 /\ faults' = faults /\ u \in j.accepted
      BY <3>2
    <3> QED  BY ONLY <2>2, <3>1, <3>3, j.kind = was.kind, was.kind = "reminder"
  <2>4. j \in Jobs
    BY JobsBegin
  <2>5. /\ \A u \in j.todo : u \notin j.accepted /\ invoice'[u].age >= INTERVAL_DAYS
        /\ \A u \in j.todo \cup j.accepted : invoice'[u].reminderCount < MAX_REMINDERS
    BY <1>4, <2>1, <2>2
  <2> QED  BY <1>3, <1>4, <2>1, <2>2, <2>3, <2>4, <2>5
<1>7. CASE RecordReminder(w)
  <2> PICK s \in Students, j \in Plain :
              /\ s \in was.accepted
              /\ Do(w, j) /\ j.kind = "reminder" /\ j.todo = was.todo /\ j.accepted = {}
              /\ invoice' = [invoice EXCEPT ![s] = Reminded(@)]
              /\ UNCHANGED <<desk, family, attendance, place, messages, ranToday, classAge, mail, faults>>
    BY <1>7, Recordings
  <2>1. invoice'[s].reminderCount = invoice[s].reminderCount + 1 /\ \A u \in Students \ {s} : invoice'[u] = invoice[u]
    BY Reminding DEF RowsHold
  <2>2. ASSUME NEW u \in Students  PROVE inbox'[<<"reminder", u>>] <= invoice'[u].reminderCount + faults'
    <3>1. CASE u = s
      BY <1>5, <2>1, <3>1
    <3>2. CASE u # s
      BY <1>4, <1>5, <2>1, <3>2
    <3> QED  BY <3>1, <3>2
  <2>3. MAX_REMINDERS \in Nat /\ invoice[s].reminderCount \in Nat /\ invoice[s].reminderCount < MAX_REMINDERS
    BY <1>4, <1>5, NoticesAssumption
  <2>4. \A u \in Students : invoice'[u].reminderCount <= MAX_REMINDERS
    BY <1>4, <2>1, <2>3
  <2>5. \A u \in j.todo : u # s /\ u \in Students
    BY <1>2, <1>4
  <2>6. /\ \A u \in j.todo : u \notin j.accepted /\ invoice'[u].age >= INTERVAL_DAYS
        /\ \A u \in j.todo \cup j.accepted : invoice'[u].reminderCount < MAX_REMINDERS
    BY <1>4, <2>1, <2>5
  <2> QED  BY <1>3, <2>2, <2>4, <2>6, JobsBegin
<1>8. CASE Finish(w) \/ Crash(w)
  <2>1. Do(w, NoJob) /\ UNCHANGED <<invoice, mail, ranToday>>
    BY <1>8, Endings DEF rows
  <2>2. \/ faults' = faults /\ was.accepted = {}
        \/ faults' = faults + 1
    BY <1>8, Endings
  <2>3. ASSUME NEW u \in Students  PROVE inbox'[<<"reminder", u>>] <= invoice'[u].reminderCount + faults'
    <3>1. \/ inbox[<<"reminder", u>>] <= invoice[u].reminderCount + faults
          \/ /\ inbox[<<"reminder", u>>] <= invoice[u].reminderCount + faults + 1
             /\ faults' = faults + 1
      BY <1>5, <2>2
    <3> QED  BY <1>5, <2>1, <2>2, <3>1
  <2> QED  BY <1>3, <1>4, <2>1, <2>3, JobsBegin
<1> QED  BY <1>6, <1>7, <1>8

(* Every step keeps the count of the reminders.                            *)
LEMMA RemindersStay ==
  ASSUME RowsHold, RowsHold', RemindersHold, [Next]_vars
  PROVE  RemindersHold'
<1> USE NoticesAssumption DEF rows
<1>1. CASE UNCHANGED vars \/ PlaceMoves \/ RemoveAttendance
  <2>1. UNCHANGED <<invoice, ranToday, mail, faults, job>>
    BY <1>1 DEF vars, PlaceMoves, RemoveAttendance
  <2>2. faults' >= faults
    BY <2>1 DEF RowsHold
  <2> QED  BY <2>1, <2>2, RemindersElsewhere
<1>2. CASE InvoiceMoves
  <2> PICK s \in Students, status \in {"OVERDUE", "PAID"} :
        invoice' = [invoice EXCEPT ![s].status = status] /\ UNCHANGED <<ranToday, mail, faults, job>>
    BY <1>2 DEF InvoiceMoves
  <2>1. \A u \in Students : /\ invoice'[u].reminderCount = invoice[u].reminderCount
                            /\ invoice'[u].age = invoice[u].age
    BY DEF RowsHold, Invoices
  <2>2. faults' >= faults
    BY DEF RowsHold
  <2> QED  BY <2>1, <2>2, RemindersElsewhere
<1>3. CASE Day
  <2>1. /\ \A w \in Workers : ~ Reminds(w) /\ ~ Reminds(w)'
        /\ UNCHANGED <<inbox, faults, job>>
    BY <1>3 DEF Day, Reminds
  <2>2. \A s \in Students : invoice'[s].reminderCount = invoice[s].reminderCount
    BY <1>3 DEF Day, RowsHold, Invoices
  <2> QED  BY <2>1, <2>2 DEF RemindersHold
<1>4. ASSUME NEW w \in Workers,
             \/ sendOverdueReminders(w) \/ Save(w) \/ offerSpot(w) \/ sendGroup(w) \/ SendMessage(w)
             \/ Step(w) \/ Crash(w)
      PROVE  RemindersHold'
  <2> USE DEF RowsHold
  <2>0. faults \in Nat /\ faults + 1 >= faults /\ faults >= faults
    OBVIOUS
  <2>1. CASE offerSpot(w) \/ sendGroup(w)
    <3> PICK kind \in {"offer", "report"}, todo \in SUBSET Students :
              /\ Do(w, Job(kind, todo)) /\ job[w] = NoJob /\ UNCHANGED <<rows, ranToday, mail, faults>>
      BY <2>1, Beginnings
    <3> PICK j \in Plain : j = Job(kind, todo) /\ j.kind = kind
      BY JobsBegin
    <3> QED  BY ONLY RowsHold, RowsHold', RemindersHold, Do(w, j), j.kind \in {"offer", "report"}, job[w] = NoJob, <2>0,
                     UNCHANGED <<rows, ranToday, mail, faults>>, JobsBegin, OtherJobs DEF rows
  <2>2. CASE SendMessage(w)
    <3> PICK todo \in SUBSET Addresses :
              /\ Do(w, Job("message", todo)) /\ job[w] = NoJob /\ UNCHANGED <<rows, ranToday, mail, faults>>
      BY <2>2, Beginnings
    <3> PICK j \in Message : j = Job("message", todo) /\ j.kind = "message"
      BY JobsBegin
    <3> QED  BY <2>0, JobsBegin, OtherJobs
  <2>3. CASE notify(w)
    <3> PICK j \in {NoJob} \cup Absence : Do(w, j)
      BY <2>3, Beginnings, JobsBegin
    <3>1. job[w].kind = "saved" /\ UNCHANGED <<rows, ranToday, mail, faults>>
      BY <2>3, Beginnings
    <3> QED  BY <2>0, <3>1, JobsBegin, OtherJobs
  <2>4. CASE Save(w)
    <3> PICK j \in {NoJob} \cup Saved : Do(w, j)
      BY <2>4, Saves
    <3>1. job[w] = NoJob /\ UNCHANGED <<invoice, ranToday, mail, faults>>
      BY <2>4, Saves
    <3> QED  BY <2>0, <3>1, JobsBegin, OtherJobs
  <2>5. ASSUME ~ Reminds(w), NEW s \in Students, Accept(w, s) \/ Refuse(w, s)  PROVE RemindersHold'
    <3> PICK j \in Plain \cup Absence :
              /\ Do(w, j) /\ j.kind = job[w].kind
              /\ \/ Deliver(job[w].kind, {s}) /\ UNCHANGED faults
                 \/ UNCHANGED <<mail, faults>>
                 \/ Deliver(job[w].kind, {s}) /\ faults' = faults + 1
      BY <2>5, HandingOver
    <3>1. UNCHANGED <<rows, ranToday>>
      BY <2>5, HandingOver
    <3> QED  BY <2>0, <2>5, <3>1, JobsBegin, OtherJobs DEF Reminds
  <2>6. CASE SendChunk(w)
    <3> PICK reached \in SUBSET Addresses, j \in Message, n \in Nat :
          Do(w, j) /\ Deliver("message", reached) /\ faults' = faults + n
      BY <2>6, Chunks
    <3>1. UNCHANGED <<rows, ranToday>> /\ job[w] \in Message /\ faults' >= faults
      BY <2>6, Chunks
    <3> QED  BY <3>1, JobsBegin, OtherJobs
  <2>7. CASE RecordAbsence(w)
    <3> PICK j \in {NoJob} \cup Absence : Do(w, j)
      BY <2>7, Recordings
    <3>1. job[w].kind = "absence" /\ UNCHANGED <<invoice, ranToday, mail, faults>>
      BY <2>7, Recordings
    <3> QED  BY <2>0, <3>1, JobsBegin, OtherJobs
  <2>8. CASE RecordOther(w)
    <3> PICK j \in Plain : /\ job[w].kind \in {"offer", "report"} /\ j.kind = job[w].kind /\ Do(w, j)
                           /\ UNCHANGED <<rows, ranToday, mail, faults>>
      BY <2>8, Recordings
    <3> QED  BY <2>0, JobsBegin, OtherJobs
  <2>9. CASE ~ Reminds(w) /\ (Finish(w) \/ Crash(w))
    <3>1. Do(w, NoJob) /\ UNCHANGED <<invoice, ranToday, mail>> /\ faults' >= faults
      BY <2>0, <2>9, Endings
    <3> QED  BY <2>9, <3>1, JobsBegin, OtherJobs DEF Reminds
  <2> QED  BY <1>4, <2>1, <2>2, <2>3, <2>4, <2>5, <2>6, <2>7, <2>8, <2>9, RemindingSteps DEF Step
<1> QED  BY <1>1, <1>2, <1>3, <1>4 DEF Next

(* Nobody was reminded at first.                                           *)
LEMMA InitialReminders == Init => RemindersHold
<1> SUFFICES ASSUME Init  PROVE RemindersHold
  OBVIOUS
<1>1. \A w \in Workers : ~ Reminds(w)
  BY JobsBegin DEF Init, Reminds
<1>2. \A s \in Students : invoice[s].reminderCount = 0 /\ inbox[<<"reminder", s>>] = 0 /\ faults = 0
  BY Bookkeeping DEF Init
<1>3. 0 <= MAX_REMINDERS /\ 0 <= 0 + 0
  BY NoticesAssumption
<1>4. \A s \in Students : /\ invoice[s].reminderCount <= MAX_REMINDERS
                         /\ inbox[<<"reminder", s>>] <= invoice[s].reminderCount + faults
  BY <1>2, <1>3
<1> QED  BY <1>1, <1>4 DEF RemindersHold

(* The inductive invariant of the rows and of what is being sent.          *)
THEOREM RemindersCounted == Spec => [](RowsHold /\ RemindersHold)
<1>1. Init => RowsHold /\ RemindersHold
  BY InitialRows, InitialReminders
<1>2. RowsHold /\ RemindersHold /\ [Next]_vars => (RowsHold /\ RemindersHold)'
  BY RowsStay, RemindersStay
<1> QED  BY <1>1, <1>2, PTL DEF Spec

-----------------------------------------------------------------------------
(* The days between reminders, for any number of workers.                  *)

Told(w, s) == Reminds(w) /\ s \in job[w].accepted
Forgets(s) == /\ heard[s] < INTERVAL_DAYS /\ heard[s] < invoice[s].age
              /\ \A w \in Workers : ~ Told(w, s)
Forgotten == {s \in Students : Forgets(s)}

(* A family that received a reminder of which the invoice's row knows      *)
(* nothing took a fault, and so did a reminder that came too early: of the *)
(* two a family is the one before the other.                               *)
SpacedHold == /\ heard \in [Students -> Nat]
              /\ IsFiniteSet(early) /\ IsFiniteSet(Forgotten)
              /\ Cardinality(early) + Cardinality(Forgotten) <= faults

(* A set with fewer elements,                                              *)
LEMMA Fewer ==
  ASSUME NEW S, NEW T, IsFiniteSet(S), T \subseteq S
  PROVE  /\ IsFiniteSet(T) /\ Cardinality(T) \in Nat /\ Cardinality(S) \in Nat
         /\ Cardinality(T) <= Cardinality(S)
         /\ \A x \in S : x \notin T => Cardinality(T) + 1 <= Cardinality(S)
<1>1. /\ IsFiniteSet(T) /\ Cardinality(T) <= Cardinality(S)
      /\ Cardinality(T) \in Nat /\ Cardinality(S) \in Nat
  BY FS_Subset, FS_CardinalityType
<1>2. ASSUME NEW x \in S, x \notin T  PROVE Cardinality(T) + 1 <= Cardinality(S)
  <2>1. IsFiniteSet(S \ {x}) /\ Cardinality(S \ {x}) = Cardinality(S) - 1
    BY FS_RemoveElement
  <2>2. T \in SUBSET (S \ {x})
    BY <1>2
  <2>3. Cardinality(T) <= Cardinality(S \ {x})
    BY <2>1, <2>2, FS_Subset
  <2> QED  BY <1>1, <2>1, <2>3
<1> QED  BY <1>1, <1>2

(* and one with an element more.                                           *)
LEMMA OneMore ==
  ASSUME NEW S, NEW T, NEW x, IsFiniteSet(S), T \subseteq S \cup {x}
  PROVE  IsFiniteSet(T) /\ Cardinality(T) \in Nat /\ Cardinality(T) <= Cardinality(S) + 1
<1>1. /\ IsFiniteSet(S \cup {x}) /\ Cardinality(S) \in Nat
      /\ Cardinality(S \cup {x}) \in {Cardinality(S), Cardinality(S) + 1}
  BY FS_AddElement, FS_CardinalityType
<1>2. IsFiniteSet(T) /\ Cardinality(T) \in Nat /\ Cardinality(T) <= Cardinality(S \cup {x})
  BY <1>1, Fewer
<1> QED  BY <1>1, <1>2

(* What a family hears of the emails that are delivered.                   *)
LEMMA Hearing ==
  ASSUME SpacedHold, NEW kind, NEW xs, Deliver(kind, xs)
  PROVE  /\ kind # "reminder" => UNCHANGED <<heard, early>>
         /\ \A s \in Students : kind = "reminder" /\ xs = {s} =>
              /\ heard' \in [Students -> Nat] /\ heard'[s] = 0
              /\ \A u \in Students \ {s} : heard'[u] = heard[u]
              /\ early' \subseteq early \cup {<<s, inbox'[<<"reminder", s>>]>>}
              /\ heard[s] >= INTERVAL_DAYS => early' = early
<1> PICK far \in SUBSET Students : far = {s \in Hears(kind, xs) : heard[s] < INTERVAL_DAYS}
  BY DEF Hears
<1>1. /\ heard' = [s \in Students |-> IF s \in Hears(kind, xs) THEN 0 ELSE heard[s]]
      /\ early' = early \cup {<<s, inbox'[<<"reminder", s>>]>> : s \in far}
  BY DEF Deliver
<1>2. ASSUME kind # "reminder"  PROVE UNCHANGED <<heard, early>>
  <2>1. Hears(kind, xs) = {} /\ far = {}
    BY <1>2 DEF Hears
  <2> QED  BY <1>1, <2>1 DEF SpacedHold
<1>3. ASSUME NEW s \in Students, kind = "reminder", xs = {s}
      PROVE  /\ heard' \in [Students -> Nat] /\ heard'[s] = 0
             /\ \A u \in Students \ {s} : heard'[u] = heard[u]
             /\ early' \subseteq early \cup {<<s, inbox'[<<"reminder", s>>]>>}
             /\ heard[s] >= INTERVAL_DAYS => early' = early
  <2>1. Hears(kind, xs) = {s} /\ far \subseteq {s}
    BY <1>3 DEF Hears
  <2>2. heard[s] >= INTERVAL_DAYS => far = {}
    BY <2>1, NoticesAssumption DEF SpacedHold
  <2> QED  BY <1>1, <2>1, <2>2 DEF SpacedHold
<1> QED  BY <1>2, <1>3

(* Steps that make no invoice older, nor forget a family that was told     *)
(* unless its invoice says so.                                             *)
LEMMA SpacedElsewhere ==
  ASSUME RowsHold, RowsHold', SpacedHold,
         UNCHANGED <<heard, early>>, faults' >= faults,
         \A s \in Students : /\ invoice'[s].age <= invoice[s].age
                             /\ invoice'[s].age = 0 \/ \A w \in Workers : Told(w, s) => Told(w, s)'
  PROVE  SpacedHold'
<1> PICK F : F = Forgotten
  OBVIOUS
<1> PICK G : G = Forgotten'
  OBVIOUS
<1>1. ASSUME NEW s \in Students, Forgets(s)'  PROVE Forgets(s)
  <2> PICK days \in Nat : days = heard[s] /\ days = heard'[s]
    BY DEF SpacedHold
  <2>1. invoice[s].age \in Nat /\ invoice'[s].age \in Nat
    BY Reminding DEF RowsHold
  <2>2. days < INTERVAL_DAYS /\ days < invoice'[s].age /\ \A w \in Workers : ~ Told(w, s)'
    BY <1>1 DEF Forgets
  <2> QED  BY <2>1, <2>2 DEF Forgets
<1>2. G \subseteq F
  BY <1>1 DEF Forgotten
<1>3. IsFiniteSet(F) /\ IsFiniteSet(early) /\ Cardinality(early) + Cardinality(F) <= faults
  BY DEF SpacedHold
<1>4. IsFiniteSet(G) /\ Cardinality(G) \in Nat /\ Cardinality(F) \in Nat /\ Cardinality(G) <= Cardinality(F)
  BY <1>2, <1>3, Fewer
<1>5. Cardinality(early) \in Nat /\ faults \in Nat /\ faults' \in Nat
  BY <1>3, FS_CardinalityType DEF RowsHold
<1>6. Cardinality(early) + Cardinality(G) <= faults'
  BY <1>3, <1>4, <1>5
<1> QED  BY <1>4, <1>6 DEF SpacedHold

(* A worker that had nothing to record.                                    *)
LEMMA SpacedJobs ==
  ASSUME RowsHold, RowsHold', SpacedHold, NEW w \in Workers, NEW j, Do(w, j),
         ~ Reminds(w) \/ job[w].accepted = {},
         UNCHANGED invoice, faults' >= faults,
         UNCHANGED <<heard, early>> \/ \E kind, xs : kind # "reminder" /\ Deliver(kind, xs)
  PROVE  SpacedHold'
<1>1. \A v \in Workers \ {w} : job'[v] = job[v]
  BY DEF RowsHold, Do
<1>2. \A s \in Students, v \in Workers : Told(v, s) => Told(v, s)'
  BY <1>1 DEF Told, Reminds
<1>3. \A s \in Students : invoice'[s].age <= invoice[s].age
  BY Reminding DEF RowsHold
<1>4. UNCHANGED <<heard, early>>
  BY Hearing
<1> QED  BY <1>2, <1>3, <1>4, SpacedElsewhere

(* A reminder that is accepted, whether the answer comes or not.           *)
LEMMA SpacedAccepts ==
  ASSUME RowsHold, RowsHold', RemindersHold, SpacedHold,
         NEW w \in Workers, NEW s \in Students, Reminds(w), s \in job[w].todo, job[w].accepted = {},
         NEW j, Do(w, j), Deliver("reminder", {s}), UNCHANGED invoice,
         \/ j.kind = "reminder" /\ j.accepted = {s} /\ faults' = faults
         \/ faults' = faults + 1
  PROVE  SpacedHold'
<1> PICK F : F = Forgotten
  OBVIOUS
<1> PICK G : G = Forgotten'
  OBVIOUS
<1> PICK x : x = <<s, inbox'[<<"reminder", s>>]>>
  OBVIOUS
<1>1. /\ heard' \in [Students -> Nat] /\ heard'[s] = 0
      /\ \A u \in Students \ {s} : heard'[u] = heard[u]
      /\ early' \subseteq early \cup {x}
      /\ heard[s] >= INTERVAL_DAYS => early' = early
  BY Hearing
<1>2. job'[w] = j /\ \A v \in Workers \ {w} : job'[v] = job[v]
  BY DEF RowsHold, Do
<1>3. \A v \in Workers, u \in Students : ~ Told(v, u)
  BY DEF Told, RemindersHold
<1>4. ASSUME NEW u \in Students \ {s}, Forgets(u)'  PROVE Forgets(u)
  BY <1>1, <1>3, <1>4 DEF Forgets
<1>5. G \subseteq F \cup {s}
  BY <1>4 DEF Forgotten
<1>6. j.kind = "reminder" /\ j.accepted = {s} => s \notin G
  BY <1>2 DEF Forgotten, Forgets, Told, Reminds
<1>7. heard[s] < INTERVAL_DAYS => s \in F
  <2>1. invoice[s].age >= INTERVAL_DAYS
    BY DEF RemindersHold
  <2>2. heard[s] \in Nat /\ invoice[s].age \in Nat /\ INTERVAL_DAYS \in Nat
    BY Reminding, NoticesAssumption DEF SpacedHold, RowsHold
  <2>3. heard[s] < INTERVAL_DAYS => heard[s] < invoice[s].age
    BY <2>1, <2>2
  <2> QED  BY <1>3, <2>3 DEF Forgotten, Forgets
<1>8. heard[s] \in Nat /\ INTERVAL_DAYS \in Nat /\ faults \in Nat
  BY NoticesAssumption DEF SpacedHold, RowsHold
<1>9. /\ IsFiniteSet(F) /\ IsFiniteSet(early)
      /\ Cardinality(early) + Cardinality(F) <= faults
      /\ Cardinality(early) \in Nat /\ Cardinality(F) \in Nat
  BY FS_CardinalityType DEF SpacedHold
<1>10. IsFiniteSet(early') /\ Cardinality(early') \in Nat /\ Cardinality(early') <= Cardinality(early) + 1
  BY <1>1, <1>9, OneMore
<1>11. IsFiniteSet(G) /\ Cardinality(G) \in Nat /\ Cardinality(G) <= Cardinality(F) + 1
  BY <1>5, <1>9, OneMore
<1>12. s \in F => Cardinality(G) <= Cardinality(F)
  <2>1. s \in F => G \subseteq F
    BY <1>5
  <2> QED  BY <1>9, <2>1, Fewer
<1>13. Cardinality(early') + Cardinality(G) <= faults'
  <2>1. CASE heard[s] >= INTERVAL_DAYS /\ s \notin G
    <3>1. early' = early /\ G \subseteq F
      BY <1>1, <1>5, <2>1
    <3>2. Cardinality(G) <= Cardinality(F)
      BY <1>9, <3>1, Fewer
    <3> QED  BY <1>8, <1>9, <1>11, <3>1, <3>2
  <2>2. CASE heard[s] >= INTERVAL_DAYS /\ s \in G
    <3>1. early' = early /\ faults' = faults + 1
      BY <1>1, <1>6, <2>2
    <3> QED  BY <1>8, <1>9, <1>11, <3>1
  <2>3. CASE heard[s] < INTERVAL_DAYS /\ s \notin G
    <3>1. G \subseteq F /\ s \in F
      BY <1>5, <1>7, <2>3
    <3>2. Cardinality(G) + 1 <= Cardinality(F)
      BY <1>9, <2>3, <3>1, Fewer
    <3> QED  BY <1>8, <1>9, <1>10, <1>11, <3>2
  <2>4. CASE heard[s] < INTERVAL_DAYS /\ s \in G
    <3>1. faults' = faults + 1 /\ Cardinality(G) <= Cardinality(F)
      BY <1>6, <1>7, <1>12, <2>4
    <3> QED  BY <1>8, <1>9, <1>10, <1>11, <3>1
  <2> QED  BY <1>8, <2>1, <2>2, <2>3, <2>4
<1> QED  BY <1>1, <1>10, <1>11, <1>13 DEF SpacedHold

(* The job dies before it records a reminder.                              *)
LEMMA SpacedCrash ==
  ASSUME RowsHold, RowsHold', SpacedHold, NEW w \in Workers, Reminds(w),
         Do(w, NoJob), UNCHANGED <<invoice, heard, early>>, faults' = faults + 1
  PROVE  SpacedHold'
<1> PICK F : F = Forgotten
  OBVIOUS
<1> PICK G : G = Forgotten'
  OBVIOUS
<1>1. \A v \in Workers \ {w} : job'[v] = job[v]
  BY DEF RowsHold, Do
<1>2. \A s, u \in job[w].accepted : s = u
  BY DEF RowsHold, Sending, Kinds, Reminds
<1>3. \E x : job[w].accepted \subseteq {x}
  BY <1>2
<1> PICK x : job[w].accepted \subseteq {x}
  BY <1>3
<1>4. ASSUME NEW s \in Students, Forgets(s)', s # x  PROVE Forgets(s)
  <2>1. \A v \in Workers : ~ Told(v, s)
    BY <1>1, <1>4 DEF Forgets, Told, Reminds
  <2> QED  BY <1>4, <2>1 DEF Forgets
<1>5. G \subseteq F \cup {x}
  BY <1>4 DEF Forgotten
<1>6. /\ IsFiniteSet(F) /\ IsFiniteSet(early)
      /\ Cardinality(early) + Cardinality(F) <= faults
      /\ Cardinality(early) \in Nat /\ Cardinality(F) \in Nat /\ faults \in Nat
  BY FS_CardinalityType DEF SpacedHold, RowsHold
<1>7. IsFiniteSet(G) /\ Cardinality(G) \in Nat /\ Cardinality(G) <= Cardinality(F) + 1
  BY <1>5, <1>6, OneMore
<1>8. Cardinality(early) + Cardinality(G) <= faults'
  BY <1>6, <1>7
<1> QED  BY <1>6, <1>7, <1>8 DEF SpacedHold

(* A day passes, for the invoice and for the family.                       *)
LEMMA SpacedDays ==
  ASSUME RowsHold, RowsHold', SpacedHold, Day
  PROVE  SpacedHold'
<1> PICK F : F = Forgotten
  OBVIOUS
<1> PICK G : G = Forgotten'
  OBVIOUS
<1>1. /\ INTERVAL_DAYS \in Nat /\ Never \in Nat /\ INTERVAL_DAYS < Never
  BY NoticesAssumption DEF Never
<1>2. ASSUME NEW s \in Students
      PROVE  heard'[s] = IF heard[s] < Never THEN heard[s] + 1 ELSE heard[s]
  BY DEF Day
<1>3. heard' \in [Students -> Nat]
  BY DEF Day, SpacedHold
<1>4. ASSUME NEW s \in Students, Forgets(s)'  PROVE Forgets(s)
  <2>1. invoice[s].age \in Nat /\ heard[s] \in Nat /\ heard'[s] \in Nat
    BY <1>3, Reminding DEF RowsHold, SpacedHold
  <2>2. invoice'[s].age = IF invoice[s].age < Never THEN invoice[s].age + 1 ELSE invoice[s].age
    BY DEF Day, RowsHold, Invoices
  <2>3. heard'[s] < INTERVAL_DAYS /\ heard'[s] < invoice'[s].age
    BY <1>4 DEF Forgets
  <2>4. heard[s] < INTERVAL_DAYS /\ heard[s] < invoice[s].age
    BY <1>1, <1>2, <2>1, <2>2, <2>3
  <2>5. \A w \in Workers : ~ Told(w, s)
    BY DEF Day, Told, Reminds
  <2> QED  BY <2>4, <2>5 DEF Forgets
<1>5. G \subseteq F
  BY <1>4 DEF Forgotten
<1>6. /\ IsFiniteSet(F) /\ IsFiniteSet(early)
      /\ Cardinality(early) + Cardinality(F) <= faults
      /\ Cardinality(early) \in Nat /\ faults \in Nat
  BY FS_CardinalityType DEF SpacedHold, RowsHold
<1>7. IsFiniteSet(G) /\ Cardinality(G) \in Nat /\ Cardinality(F) \in Nat /\ Cardinality(G) <= Cardinality(F)
  BY <1>5, <1>6, Fewer
<1>8. Cardinality(early) + Cardinality(G) <= faults
  BY <1>6, <1>7
<1>9. UNCHANGED <<early, faults>>
  BY DEF Day
<1> QED  BY <1>3, <1>6, <1>7, <1>8, <1>9 DEF SpacedHold

(* Every step keeps the count.                                             *)
LEMMA SpacedStay ==
  ASSUME RowsHold, RowsHold', RemindersHold, SpacedHold, [Next]_vars
  PROVE  SpacedHold'
<1>0. faults \in Nat /\ faults + 1 >= faults /\ faults >= faults
  BY DEF RowsHold
<1>1. CASE UNCHANGED vars \/ PlaceMoves \/ RemoveAttendance \/ InvoiceMoves
  <2>1. UNCHANGED <<heard, early, faults, job>>
    BY <1>1 DEF vars, PlaceMoves, RemoveAttendance, InvoiceMoves
  <2>2. \A w \in Workers, s \in Students : Told(w, s) => Told(w, s)'
    BY <2>1 DEF Told, Reminds
  <2>3. \A s \in Students : invoice[s].age \in Nat /\ invoice'[s].age = invoice[s].age
    <3>1. \A s \in Students : invoice[s].age \in Nat
      BY Reminding DEF RowsHold
    <3>2. CASE InvoiceMoves
      <4> PICK u \in Students, status \in {"OVERDUE", "PAID"} : invoice' = [invoice EXCEPT ![u].status = status]
        BY <3>2 DEF InvoiceMoves
      <4> QED  BY <3>1 DEF RowsHold, Invoices
    <3>3. CASE UNCHANGED vars \/ PlaceMoves \/ RemoveAttendance
      BY <3>1, <3>3 DEF vars, rows, PlaceMoves, RemoveAttendance
    <3> QED  BY <1>1, <3>2, <3>3
  <2>4. \A s \in Students : invoice'[s].age <= invoice[s].age
    BY <2>3
  <2> QED  BY <1>0, <2>1, <2>2, <2>4, SpacedElsewhere
<1>2. ASSUME NEW w \in Workers,
             sendOverdueReminders(w) \/ offerSpot(w) \/ sendGroup(w) \/ SendMessage(w) \/ notify(w) \/ Save(w)
      PROVE  SpacedHold'
  <2>0. NoJob.kind # "reminder" /\ "saved" # "reminder"
    BY JobsBegin
  <2>1. /\ \E j : Do(w, j)
        /\ ~ Reminds(w) /\ UNCHANGED <<invoice, mail, faults>>
    <3>1. CASE sendOverdueReminders(w)
      BY <2>0, <3>1, Beginnings DEF Reminds, rows
    <3>2. CASE offerSpot(w) \/ sendGroup(w)
      BY <2>0, <3>2, Beginnings DEF Reminds, rows
    <3>3. CASE SendMessage(w)
      BY <2>0, <3>3, Beginnings DEF Reminds, rows
    <3>4. CASE notify(w)
      BY <2>0, <3>4, Beginnings DEF Reminds, rows
    <3>5. CASE Save(w)
      BY <2>0, <3>5, Saves DEF Reminds
    <3> QED  BY <1>2, <3>1, <3>2, <3>3, <3>4, <3>5
  <2> QED  BY <1>0, <2>1, SpacedJobs
<1>3. ASSUME NEW w \in Workers, NEW s \in Students, Accept(w, s) \/ Refuse(w, s)  PROVE SpacedHold'
  <2> PICK j : /\ Do(w, j) /\ j.kind = job[w].kind
               /\ \/ Deliver(job[w].kind, {s}) /\ j.accepted = {s} /\ UNCHANGED faults
                  \/ j.accepted = {} /\ UNCHANGED <<mail, faults>>
                  \/ Deliver(job[w].kind, {s}) /\ j.accepted = {} /\ faults' = faults + 1
    BY <1>3, HandingOver, ZenonT(60)
  <2>1. UNCHANGED invoice /\ s \in job[w].todo /\ job[w].accepted = {}
    BY <1>3, HandingOver DEF rows
  <2>2. CASE Reminds(w) /\ Deliver(job[w].kind, {s})
    <3>1. \/ j.kind = "reminder" /\ j.accepted = {s} /\ faults' = faults
          \/ faults' = faults + 1
          \/ UNCHANGED <<mail, faults>> /\ j.accepted = {}
      BY <2>2 DEF Reminds
    <3>2. CASE UNCHANGED <<mail, faults>> /\ j.accepted = {}
      BY <1>0, <2>1, <3>2, SpacedJobs
    <3> QED  BY <2>1, <2>2, <3>1, <3>2, SpacedAccepts DEF Reminds
  <2>3. CASE ~ Reminds(w) /\ Deliver(job[w].kind, {s})
    BY <1>0, <2>1, <2>3, SpacedJobs DEF Reminds
  <2>4. CASE UNCHANGED <<mail, faults>>
    BY <1>0, <2>1, <2>4, SpacedJobs
  <2> QED  BY <2>2, <2>3, <2>4
<1>4. ASSUME NEW w \in Workers, SendChunk(w)  PROVE SpacedHold'
  <2> PICK reached \in SUBSET Addresses, j \in Message, n \in Nat :
        Do(w, j) /\ Deliver("message", reached) /\ faults' = faults + n
    BY <1>4, Chunks
  <2>1. UNCHANGED invoice /\ ~ Reminds(w) /\ faults' >= faults
    BY <1>0, <1>4, Chunks, JobsBegin DEF rows, Reminds
  <2> QED  BY <2>1, SpacedJobs
<1>5. ASSUME NEW w \in Workers, RecordAbsence(w) \/ RecordOther(w)  PROVE SpacedHold'
  <2>1. /\ \E j : Do(w, j)
        /\ ~ Reminds(w) /\ UNCHANGED <<invoice, mail, faults>>
    BY <1>5, Recordings DEF Reminds, rows
  <2> QED  BY <1>0, <2>1, SpacedJobs
<1>6. ASSUME NEW w \in Workers, RecordReminder(w)  PROVE SpacedHold'
  <2> PICK s \in Students, j \in Plain :
        /\ s \in job[w].accepted /\ Do(w, j) /\ invoice' = [invoice EXCEPT ![s] = Reminded(@)]
        /\ UNCHANGED <<mail, faults>>
    BY <1>6, Recordings
  <2>1. Reminds(w)
    BY <1>6, Recordings DEF Reminds
  <2>2. \A v \in Workers \ {w} : job'[v] = job[v]
    BY DEF RowsHold, Do
  <2>3. \A u \in job[w].accepted : u = s
    BY <2>1 DEF RowsHold, Sending, Kinds, Reminds
  <2>4. invoice'[s].age = 0 /\ \A u \in Students \ {s} : invoice'[u] = invoice[u]
    BY DEF RowsHold, Invoices, Reminded
  <2>5. \A u \in Students \ {s}, v \in Workers : Told(v, u) => Told(v, u)'
    BY <2>2, <2>3 DEF Told, Reminds
  <2>6. \A u \in Students : invoice'[u].age <= invoice[u].age
    BY <2>4, Reminding DEF RowsHold
  <2> QED  BY <1>0, <2>4, <2>5, <2>6, SpacedElsewhere
<1>7. ASSUME NEW w \in Workers, Finish(w) \/ Crash(w)  PROVE SpacedHold'
  <2>1. Do(w, NoJob) /\ UNCHANGED <<invoice, mail>>
    BY <1>7, Endings DEF rows
  <2>2. \/ faults' = faults /\ job[w].accepted = {}
        \/ faults' = faults + 1
    BY <1>7, Endings
  <2>3. CASE Reminds(w) /\ faults' = faults + 1
    BY <2>1, <2>3, SpacedCrash
  <2>4. CASE ~ Reminds(w) \/ job[w].accepted = {}
    BY <1>0, <2>1, <2>2, <2>4, SpacedJobs
  <2> QED  BY <2>2, <2>3, <2>4
<1> QED  BY <1>1, <1>2, <1>3, <1>4, <1>5, <1>6, <1>7, SpacedDays DEF Next, Step

(* No family heard of its invoice at first.                                *)
LEMMA InitialSpaced == Init => SpacedHold
<1> SUFFICES ASSUME Init  PROVE SpacedHold
  OBVIOUS
<1>1. Never \in Nat /\ INTERVAL_DAYS \in Nat /\ ~ (Never < INTERVAL_DAYS) /\ 0 + 0 <= 0
  BY NoticesAssumption DEF Never
<1>2. heard = [s \in Students |-> Never] /\ early = {} /\ faults = 0
  BY DEF Init
<1>3. Forgotten = {}
  BY <1>1, <1>2 DEF Forgotten, Forgets
<1>4. IsFiniteSet({}) /\ Cardinality({}) = 0
  BY FS_EmptySet
<1> QED  BY <1>1, <1>2, <1>3, <1>4 DEF SpacedHold

(* A family receives a reminder less than INTERVAL_DAYS after the last one *)
(* it received at most once for each email that the job sent and did not   *)
(* get to record (RemindersService.sendOverdueReminders), for any number   *)
(* of days, families, workers and faults.                                  *)
THEOREM RemindersAreSpaced == Spec => []RemindersSpaced
<1>1. Init => SpacedHold
  BY InitialSpaced
<1>2. RowsHold /\ RowsHold' /\ RemindersHold /\ SpacedHold /\ [Next]_vars => SpacedHold'
  BY SpacedStay
<1>3. RowsHold /\ SpacedHold => RemindersSpaced
  <2> SUFFICES ASSUME RowsHold, SpacedHold  PROVE RemindersSpaced
    OBVIOUS
  <2>1. /\ Cardinality(early) \in Nat /\ Cardinality(Forgotten) \in Nat /\ faults \in Nat
        /\ Cardinality(early) + Cardinality(Forgotten) <= faults
    BY FS_CardinalityType DEF SpacedHold, RowsHold
  <2> QED  BY <2>1 DEF RemindersSpaced
<1> QED  BY <1>1, <1>2, <1>3, RemindersCounted, PTL DEF Spec

-----------------------------------------------------------------------------
(* Messages, for any number of workers.                                    *)

SentOn(a) == {w \in Workers : job[w].kind = "message" /\ a \notin job[w].todo}

MessagesHold == \A a \in Addresses : inbox[<<"message", a>>] <= messages + faults + Cardinality(SentOn(a))

(* A worker more, or less, counts one.                                     *)
LEMMA SentOnGrows ==
  ASSUME NEW S, NEW T, S \subseteq T, T \subseteq Workers
  PROVE  /\ Cardinality(S) \in Nat /\ Cardinality(T) \in Nat /\ Cardinality(S) <= Cardinality(T)
         /\ \A w \in T : w \notin S => Cardinality(S) + 1 <= Cardinality(T)
         /\ \A w \in T : T = S \cup {w} => Cardinality(T) <= Cardinality(S) + 1
<1>1. IsFiniteSet(S) /\ IsFiniteSet(T)
  BY FS_Subset, NoticesAssumption
<1>2. Cardinality(S) \in Nat /\ Cardinality(T) \in Nat /\ Cardinality(S) <= Cardinality(T)
  BY <1>1, FS_CardinalityType, FS_Subset
<1>3. ASSUME NEW w, w \notin S
      PROVE  IsFiniteSet(S \cup {w}) /\ Cardinality(S \cup {w}) = Cardinality(S) + 1
  BY <1>1, <1>3, FS_AddElement
<1>4. ASSUME NEW w \in T, w \notin S  PROVE Cardinality(S) + 1 <= Cardinality(T)
  <2> PICK U : U = S \cup {w}
    OBVIOUS
  <2>1. Cardinality(U) = Cardinality(S) + 1
    BY <1>3, <1>4
  <2>2. U \in SUBSET T
    BY <1>4
  <2>3. Cardinality(U) <= Cardinality(T)
    BY <1>1, <2>2, FS_Subset
  <2> QED  BY <2>1, <2>3
<1>5. ASSUME NEW w \in T, T = S \cup {w}  PROVE Cardinality(T) <= Cardinality(S) + 1
  <2>1. CASE w \in S
    <3>1. T = S
      BY <1>5, <2>1
    <3> QED  BY <1>2, <3>1
  <2>2. CASE w \notin S
    BY <1>2, <1>3, <1>5, <2>2
  <2> QED  BY <2>1, <2>2
<1> QED  BY <1>2, <1>4, <1>5

(* Steps by which no address is written to and no message leaves a worker. *)
LEMMA MessagesElsewhere ==
  ASSUME RowsHold, RowsHold', MessagesHold,
         \A a \in Addresses : inbox'[<<"message", a>>] = inbox[<<"message", a>>],
         messages' >= messages, faults' >= faults,
         \A a \in Addresses : SentOn(a) \subseteq SentOn(a)'
  PROVE  MessagesHold'
<1> SUFFICES ASSUME NEW a \in Addresses
             PROVE  inbox'[<<"message", a>>] <= messages' + faults' + Cardinality(SentOn(a)')
  BY DEF MessagesHold
<1>1. SentOn(a) \subseteq SentOn(a)' /\ SentOn(a)' \subseteq Workers
  BY DEF SentOn
<1> PICK S, T : S = SentOn(a) /\ T = SentOn(a)'
  OBVIOUS
<1>2. Cardinality(S) \in Nat /\ Cardinality(T) \in Nat /\ Cardinality(S) <= Cardinality(T)
  BY <1>1, SentOnGrows
<1> PICK n \in Nat : n = inbox[<<"message", a>>]
  BY Bookkeeping DEF RowsHold
<1>3. n <= messages + faults + Cardinality(S)
  BY DEF MessagesHold
<1>4. /\ messages \in Nat /\ faults \in Nat /\ messages' \in Nat /\ faults' \in Nat
      /\ messages' >= messages /\ faults' >= faults
  BY DEF RowsHold
<1>5. n <= messages' + faults' + Cardinality(T)
  BY ONLY n \in Nat, <1>2, <1>3, <1>4
<1> QED  BY <1>5

(* A worker's job that begins, or is about something else.                 *)
LEMMA NoAddress ==
  ASSUME RowsHold, RowsHold', MessagesHold, NEW w \in Workers, NEW j \in Jobs, Do(w, j),
         job[w].kind # "message", messages' >= messages, faults' >= faults,
         UNCHANGED inbox \/ \E kind, xs : kind # "message" /\ Deliver(kind, xs)
  PROVE  MessagesHold'
<1>1. \A v \in Workers \ {w} : job'[v] = job[v]
  BY DEF RowsHold, Do
<1>2. \A a \in Addresses : SentOn(a) \subseteq SentOn(a)'
  BY <1>1 DEF SentOn
<1>3. \A a \in Addresses : inbox'[<<"message", a>>] = inbox[<<"message", a>>]
  BY InBox, Bookkeeping
<1> QED  BY <1>2, <1>3, MessagesElsewhere

(* Addresses that are written to are no longer to do,                      *)
LEMMA ChunksAreSent ==
  ASSUME RowsHold, RowsHold', MessagesHold, NEW w \in Workers, SendChunk(w)
  PROVE  MessagesHold'
<1> SUFFICES ASSUME NEW a \in Addresses
             PROVE  inbox'[<<"message", a>>] <= messages' + faults' + Cardinality(SentOn(a)')
  BY DEF MessagesHold
<1> PICK was \in Message : was = job[w]
  BY Chunks
<1> PICK chunk \in SUBSET was.todo, reached \in SUBSET Addresses, j \in Message, n \in Nat :
              /\ reached \subseteq chunk
              /\ Do(w, j) /\ j.todo = was.todo \ chunk
              /\ Deliver("message", reached) /\ faults' = faults + n
  BY Chunks
<1> PICK S, T : S = SentOn(a) /\ T = SentOn(a)'
  OBVIOUS
<1>1. job'[w] = j /\ \A v \in Workers \ {w} : job'[v] = job[v]
  BY DEF RowsHold, Do
<1>2. S \subseteq T /\ T \subseteq Workers /\ (a \in reached => w \in T /\ w \notin S)
  BY <1>1, JobsBegin DEF SentOn
<1>3. /\ Cardinality(S) \in Nat /\ Cardinality(T) \in Nat /\ Cardinality(S) <= Cardinality(T)
      /\ a \in reached => Cardinality(S) + 1 <= Cardinality(T)
  BY <1>2, SentOnGrows
<1> PICK k \in Nat : k = inbox[<<"message", a>>]
  BY Bookkeeping DEF RowsHold
<1>4. inbox'[<<"message", a>>] = IF a \in reached THEN k + 1 ELSE k
  BY InBox, Bookkeeping
<1>5. k <= messages + faults + Cardinality(S)
  BY DEF MessagesHold
<1>6. messages \in Nat /\ faults \in Nat /\ messages' = messages /\ faults' = faults + n /\ n \in Nat
  BY Chunks DEF rows, RowsHold
<1>7. inbox'[<<"message", a>>] <= messages' + faults' + Cardinality(T)
  BY ONLY k \in Nat, <1>3, <1>4, <1>5, <1>6
<1> QED  BY <1>7

(* and a message that is over is recorded, or a fault.                     *)
LEMMA MessagesEnd ==
  ASSUME RowsHold, RowsHold', MessagesHold, NEW w \in Workers, job[w].kind = "message", Finish(w) \/ Crash(w)
  PROVE  MessagesHold'
<1> SUFFICES ASSUME NEW a \in Addresses
             PROVE  inbox'[<<"message", a>>] <= messages' + faults' + Cardinality(SentOn(a)')
  BY DEF MessagesHold
<1> PICK S, T : T = SentOn(a) /\ S = SentOn(a)'
  OBVIOUS
<1>1. /\ Do(w, NoJob) /\ UNCHANGED inbox
      /\ \/ messages' = messages + 1 /\ faults' = faults
         \/ messages' = messages /\ faults' = faults + 1
  BY Endings DEF rows
<1>2. job'[w] = NoJob /\ \A v \in Workers \ {w} : job'[v] = job[v]
  BY <1>1 DEF RowsHold, Do
<1>3. S \subseteq T /\ T \subseteq Workers /\ (T = S \/ (w \in T /\ T = S \cup {w}))
  BY <1>2, JobsBegin DEF SentOn
<1>4. Cardinality(S) \in Nat /\ Cardinality(T) \in Nat /\ Cardinality(T) <= Cardinality(S) + 1
  <2>1. Cardinality(S) \in Nat /\ Cardinality(T) \in Nat
    BY <1>3, SentOnGrows
  <2>2. CASE T = S
    BY <2>1, <2>2
  <2>3. CASE w \in T /\ T = S \cup {w}
    BY <1>3, <2>3, SentOnGrows
  <2> QED  BY <1>3, <2>1, <2>2, <2>3
<1> PICK k \in Nat : k = inbox[<<"message", a>>]
  BY Bookkeeping DEF RowsHold
<1>5. k <= messages + faults + Cardinality(T)
  BY DEF MessagesHold
<1>6. messages \in Nat /\ faults \in Nat
  BY DEF RowsHold
<1>7. k <= messages' + faults' + Cardinality(S)
  BY ONLY k \in Nat, <1>1, <1>4, <1>5, <1>6
<1> QED  BY <1>1, <1>7

(* Every step keeps the count of the messages.                             *)
LEMMA MessagesStay ==
  ASSUME RowsHold, RowsHold', MessagesHold, [Next]_vars
  PROVE  MessagesHold'
<1> USE DEF rows
<1>1. CASE UNCHANGED vars \/ PlaceMoves \/ RemoveAttendance \/ InvoiceMoves \/ Day
  <2>1. UNCHANGED <<messages, inbox, faults, job>>
    BY <1>1 DEF vars, PlaceMoves, RemoveAttendance, InvoiceMoves, Day
  <2>2. messages' >= messages /\ faults' >= faults
    BY <2>1 DEF RowsHold
  <2>3. \A a \in Addresses : SentOn(a) \subseteq SentOn(a)'
    BY <2>1 DEF SentOn
  <2> QED  BY <2>1, <2>2, <2>3, MessagesElsewhere
<1>2. ASSUME NEW w \in Workers,
             \/ sendOverdueReminders(w) \/ Save(w) \/ offerSpot(w) \/ sendGroup(w) \/ SendMessage(w)
             \/ Step(w) \/ Crash(w)
      PROVE  MessagesHold'
  <2>0. /\ faults \in Nat /\ faults + 1 >= faults /\ faults >= faults /\ messages \in Nat /\ messages >= messages
        /\ messages + 1 >= messages
    BY DEF RowsHold
  <2>1. CASE sendOverdueReminders(w) \/ offerSpot(w) \/ sendGroup(w) \/ SendMessage(w)
    <3> PICK j \in Jobs : Do(w, j)
      BY <2>1, Beginnings, JobsBegin
    <3>1. job[w] = NoJob /\ UNCHANGED <<messages, mail, faults>>
      BY <2>1, Beginnings
    <3> QED  BY <2>0, <3>1, JobsBegin, NoAddress
  <2>3. CASE notify(w)
    <3> PICK j \in {NoJob} \cup Absence : Do(w, j)
      BY <2>3, Beginnings, JobsBegin
    <3>1. job[w].kind = "saved" /\ UNCHANGED <<messages, mail, faults>>
      BY <2>3, Beginnings
    <3> QED  BY <2>0, <3>1, JobsBegin, NoAddress
  <2>4. CASE Save(w)
    <3> PICK j \in {NoJob} \cup Saved : Do(w, j)
      BY <2>4, Saves
    <3>1. job[w] = NoJob /\ UNCHANGED <<messages, mail, faults>>
      BY <2>4, Saves
    <3> QED  BY <2>0, <3>1, JobsBegin, NoAddress
  <2>5. ASSUME NEW s \in Students, Accept(w, s) \/ Refuse(w, s)  PROVE MessagesHold'
    <3> PICK j \in Plain \cup Absence :
              /\ Do(w, j) /\ j.kind = job[w].kind
              /\ \/ Deliver(job[w].kind, {s}) /\ UNCHANGED faults
                 \/ UNCHANGED <<mail, faults>>
                 \/ Deliver(job[w].kind, {s}) /\ faults' = faults + 1
      BY <2>5, HandingOver
    <3>1. UNCHANGED rows /\ job[w].kind # "message"
      BY <2>5, HandingOver
    <3> QED  BY <2>0, <2>5, <3>1, JobsBegin, NoAddress
  <2>6. CASE RecordReminder(w) \/ RecordAbsence(w) \/ RecordOther(w)
    <3> PICK j \in Jobs : Do(w, j)
      BY <2>6, Recordings, JobsBegin
    <3>1. job[w].kind # "message" /\ UNCHANGED <<messages, mail, faults>>
      BY <2>6, Recordings
    <3> QED  BY <2>0, <3>1, JobsBegin, NoAddress
  <2>7. CASE job[w].kind # "message" /\ (Finish(w) \/ Crash(w))
    <3>1. Do(w, NoJob) /\ UNCHANGED inbox /\ messages' >= messages /\ faults' >= faults
      BY <2>0, <2>7, Endings
    <3> QED  BY <2>7, <3>1, JobsBegin, NoAddress
  <2> QED  BY <1>2, <2>1, <2>3, <2>4, <2>5, <2>6, <2>7, ChunksAreSent, MessagesEnd DEF Step
<1> QED  BY <1>1, <1>2 DEF Next
-----------------------------------------------------------------------------
(* Absences, when one save is dealt with at a time.                        *)

Tells(w) == job[w].kind = "absence"
Owed(s) == /\ attendance[s].status # "NONE" /\ ~ attendance[s].notified
           /\ \A w \in Workers : ~ (Tells(w) /\ s \in job[w].accepted)

AbsencesHold ==
  /\ \A s \in Students : inbox[<<"absence", s>>] <= attendance[s].row + faults
  /\ \A s \in Students : Owed(s) => inbox[<<"absence", s>>] + 1 <= attendance[s].row + faults
  /\ \A w \in Workers : Tells(w) =>
       /\ \A s \in job[w].todo : s \notin job[w].accepted
       /\ \A s \in job[w].todo : inbox[<<"absence", s>>] + 1 <= attendance[s].row + faults
       /\ \A s \in job[w].todo \cup job[w].accepted : job[w].row[s] = attendance[s].row


Alone == \A v, w \in Workers : v = w

(* What a worker who works alone leaves.                                   *)
LEMMA AbsenceSteps ==
  ASSUME RowsHold', Alone, NEW w \in Workers, NEW j \in Jobs, job'[w] = j,
         \A s \in Students : inbox'[<<"absence", s>>] <= attendance'[s].row + faults',
         \A s \in Students :
           (attendance'[s].status # "NONE" /\ ~ attendance'[s].notified /\ (j.kind = "absence" => s \notin j.accepted))
             => inbox'[<<"absence", s>>] + 1 <= attendance'[s].row + faults',
         j.kind = "absence" =>
           /\ \A s \in j.todo : s \notin j.accepted
           /\ \A s \in j.todo : inbox'[<<"absence", s>>] + 1 <= attendance'[s].row + faults'
           /\ \A s \in j.todo \cup j.accepted : j.row[s] = attendance'[s].row
  PROVE  AbsencesHold'
<1>1. \A v \in Workers : v = w
  BY DEF Alone
<1> QED  BY <1>1 DEF AbsencesHold, Owed, Tells

(* Numbers of a student's absences.                                        *)
LEMMA AbsenceNumbers ==
  ASSUME RowsHold, NEW s \in Students
  PROVE  inbox[<<"absence", s>>] \in Nat /\ attendance[s].row \in Nat /\ faults \in Nat
BY Bookkeeping, MarkFields DEF RowsHold

(* Steps of a job that has no email to absent students in hand, nor had    *)
(* one.                                                                    *)
LEMMA NoAbsence ==
  ASSUME RowsHold, RowsHold', AbsencesHold, Alone, NEW w \in Workers, NEW j \in Jobs, Do(w, j),
         job[w].kind # "absence", j.kind # "absence", UNCHANGED attendance, faults' >= faults,
         UNCHANGED inbox \/ \E kind, xs : kind # "absence" /\ Deliver(kind, xs)
  PROVE  AbsencesHold'
<1>1. job'[w] = j /\ \A v \in Workers : ~ Tells(v)
  BY DEF RowsHold, Do, Alone, Tells
<1>2. \A s \in Students : inbox'[<<"absence", s>>] = inbox[<<"absence", s>>]
  BY InBox, Bookkeeping
<1>3. ASSUME NEW s \in Students
      PROVE  /\ inbox'[<<"absence", s>>] <= attendance'[s].row + faults'
             /\ (attendance'[s].status # "NONE" /\ ~ attendance'[s].notified)
                  => inbox'[<<"absence", s>>] + 1 <= attendance'[s].row + faults'
  <2>1. inbox[<<"absence", s>>] \in Nat /\ attendance[s].row \in Nat /\ faults \in Nat /\ faults' \in Nat
    BY AbsenceNumbers DEF RowsHold
  <2>2. /\ inbox[<<"absence", s>>] <= attendance[s].row + faults
        /\ (attendance[s].status # "NONE" /\ ~ attendance[s].notified)
             => inbox[<<"absence", s>>] + 1 <= attendance[s].row + faults
    BY <1>1 DEF AbsencesHold, Owed
  <2>3. /\ inbox[<<"absence", s>>] <= attendance[s].row + faults
          => inbox[<<"absence", s>>] <= attendance[s].row + faults'
        /\ inbox[<<"absence", s>>] + 1 <= attendance[s].row + faults
          => inbox[<<"absence", s>>] + 1 <= attendance[s].row + faults'
    BY <2>1
  <2> QED  BY <1>2, <2>2, <2>3
<1> QED  BY <1>1, <1>3, AbsenceSteps

(* A save: marks of a class, and what there is to be told.                 *)
LEMMA SavesHold ==
  ASSUME RowsHold, RowsHold', AbsencesHold, Alone, NEW w \in Workers, Save(w) \/ notify(w)
  PROVE  AbsencesHold'
<1>1. \A v \in Workers : ~ Tells(v)
  BY Saves, Beginnings, JobsBegin DEF Alone, Tells
<1>2. ASSUME NEW s \in Students
      PROVE  /\ inbox[<<"absence", s>>] \in Nat /\ attendance[s].row \in Nat /\ faults \in Nat
             /\ inbox[<<"absence", s>>] <= attendance[s].row + faults
             /\ (attendance[s].status # "NONE" /\ ~ attendance[s].notified)
                  => inbox[<<"absence", s>>] + 1 <= attendance[s].row + faults
  BY <1>1, AbsenceNumbers DEF AbsencesHold, Owed
<1>3. CASE Save(w)
  <2> PICK j \in {NoJob} \cup Saved : Do(w, j)
    BY <1>3, Saves
  <2>1. job'[w] = j /\ j.kind # "absence" /\ j \in Jobs /\ UNCHANGED <<mail, faults>>
    BY <1>3, Saves, JobsBegin DEF RowsHold, Do
  <2>2. ASSUME NEW s \in Students
        PROVE  /\ inbox'[<<"absence", s>>] <= attendance'[s].row + faults'
               /\ (attendance'[s].status # "NONE" /\ ~ attendance'[s].notified)
                    => inbox'[<<"absence", s>>] + 1 <= attendance'[s].row + faults'
    <3>1. \/ attendance'[s] = attendance[s]
          \/ attendance[s].status = "NONE" /\ attendance'[s].row = attendance[s].row + 1
          \/ /\ attendance[s].status # "NONE" /\ attendance'[s].row = attendance[s].row
             /\ attendance'[s].notified = attendance[s].notified
      BY <1>3, Saves
    <3>2. CASE attendance'[s] = attendance[s]
      BY <1>2, <2>1, <3>2
    <3>3. CASE attendance[s].status = "NONE" /\ attendance'[s].row = attendance[s].row + 1
      BY <1>2, <2>1, <3>3
    <3>4. CASE /\ attendance[s].status # "NONE" /\ attendance'[s].row = attendance[s].row
               /\ attendance'[s].notified = attendance[s].notified
      BY <1>2, <2>1, <3>4
    <3> QED  BY <3>1, <3>2, <3>3, <3>4
  <2> QED  BY <2>1, <2>2, AbsenceSteps
<1>4. CASE notify(w)
  <2>1. UNCHANGED <<attendance, mail, faults>> /\ job[w].kind = "saved"
    BY <1>4, Beginnings DEF rows
  <2>2. CASE Do(w, NoJob)
    <3>1. faults' >= faults
      BY <2>1 DEF RowsHold
    <3> QED  BY <2>1, <2>2, <3>1, JobsBegin, NoAbsence
  <2>3. CASE ~ Do(w, NoJob)
    <3> PICK todo \in SUBSET Students, row \in [Students -> Nat] :
                      /\ Do(w, [kind |-> "absence", todo |-> todo, accepted |-> {}, row |-> row])
                      /\ \A s \in todo : attendance[s].status # "NONE" /\ ~ attendance[s].notified
                      /\ row = [s \in Students |-> attendance[s].row]
      BY <1>4, <2>3, Beginnings
    <3> PICK j \in Absence : j = [kind |-> "absence", todo |-> todo, accepted |-> {}, row |-> row]
      BY JobsBegin
    <3>1. job'[w] = j /\ j \in Jobs
      BY JobsBegin DEF RowsHold, Do
    <3>2. \A s \in j.todo : s \in Students /\ j.row[s] = attendance[s].row
      OBVIOUS
    <3>3. \A s \in j.todo : inbox[<<"absence", s>>] + 1 <= attendance[s].row + faults
      BY <1>2, <3>2
    <3> QED  BY <1>2, <2>1, <3>1, <3>2, <3>3, AbsenceSteps
  <2> QED  BY <2>2, <2>3
<1> QED  BY <1>3, <1>4

(* What a job that tells of absences does.                                 *)
LEMMA TellingSteps ==
  ASSUME RowsHold, RowsHold', AbsencesHold, Alone, NEW w \in Workers, Tells(w),
         \/ \E s \in Students : Accept(w, s) \/ Refuse(w, s)
         \/ RecordAbsence(w) \/ Finish(w) \/ Crash(w)
  PROVE  AbsencesHold'
<1> PICK was \in Absence : was = job[w] /\ was.kind = "absence"
  BY JobFields DEF RowsHold, Tells
<1>1. was.todo \subseteq Students /\ was.accepted \subseteq Students /\ \A s, u \in was.accepted : s = u
  BY DEF Absence, RowsHold, Sending, Kinds
<1>2. /\ \A s \in was.todo : s \notin was.accepted
      /\ \A s \in was.todo : inbox[<<"absence", s>>] + 1 <= attendance[s].row + faults
      /\ \A s \in was.todo \cup was.accepted : was.row[s] = attendance[s].row
  BY DEF AbsencesHold, Tells
<1>3. \A v \in Workers : v = w
  BY DEF Alone
<1>4. ASSUME NEW s \in Students
      PROVE  /\ inbox[<<"absence", s>>] \in Nat /\ attendance[s].row \in Nat /\ faults \in Nat
             /\ inbox[<<"absence", s>>] <= attendance[s].row + faults
             /\ (attendance[s].status # "NONE" /\ ~ attendance[s].notified /\ s \notin was.accepted)
                  => inbox[<<"absence", s>>] + 1 <= attendance[s].row + faults
  BY <1>3, AbsenceNumbers DEF AbsencesHold, Owed
<1>5. CASE \E s \in Students : Accept(w, s) \/ Refuse(w, s)
  <2> PICK s \in Students : Accept(w, s) \/ Refuse(w, s)
    BY <1>5
  <2> PICK j \in Plain \cup Absence :
              /\ Do(w, j) /\ j.kind = job[w].kind /\ j.todo = job[w].todo \ {s}
              /\ j.kind = "absence" => j.row = job[w].row
              /\ \/ Deliver(job[w].kind, {s}) /\ j.accepted = {s} /\ UNCHANGED faults
                 \/ j.accepted = {} /\ UNCHANGED <<mail, faults>>
                 \/ Deliver(job[w].kind, {s}) /\ j.accepted = {} /\ faults' = faults + 1
    BY HandingOver
  <2>1. UNCHANGED attendance /\ s \in was.todo /\ was.accepted = {} /\ job'[w] = j
    BY HandingOver DEF rows, RowsHold, Do
  <2>2. ASSUME NEW u \in Students
        PROVE  \/ inbox'[<<"absence", u>>] = inbox[<<"absence", u>>] /\ faults' = faults /\ u \notin j.accepted
               \/ /\ inbox'[<<"absence", u>>] \in {inbox[<<"absence", u>>], inbox[<<"absence", u>>] + 1}
                  /\ faults' = faults + 1
               \/ inbox'[<<"absence", u>>] = inbox[<<"absence", u>>] + 1 /\ faults' = faults /\ u = s /\ u \in j.accepted
    <3> PICK t \in Targets : t = <<"absence", u>>
      BY Bookkeeping
    <3>1. Deliver(job[w].kind, {s}) => inbox'[t] = IF t[1] = "absence" /\ t[2] \in {s} THEN inbox[t] + 1 ELSE inbox[t]
      BY InBox
    <3> QED  BY <3>1
  <2>3. ASSUME NEW u \in Students
        PROVE  /\ inbox'[<<"absence", u>>] <= attendance[u].row + faults'
               /\ (attendance[u].status # "NONE" /\ ~ attendance[u].notified /\ u \notin j.accepted)
                    => inbox'[<<"absence", u>>] + 1 <= attendance[u].row + faults'
               /\ u \in j.todo => inbox'[<<"absence", u>>] + 1 <= attendance[u].row + faults'
    <3>1. /\ inbox[<<"absence", u>>] \in Nat /\ attendance[u].row \in Nat /\ faults \in Nat
          /\ inbox[<<"absence", u>>] <= attendance[u].row + faults
          /\ (attendance[u].status # "NONE" /\ ~ attendance[u].notified)
               => inbox[<<"absence", u>>] + 1 <= attendance[u].row + faults
          /\ u \in was.todo => inbox[<<"absence", u>>] + 1 <= attendance[u].row + faults
      BY <1>2, <1>4, <2>1
    <3>2. u \in j.todo => u # s /\ u \in was.todo
      OBVIOUS
    <3> HIDE DEF rows
    <3>3. s \in was.todo
      BY <2>1
    <3>4. CASE inbox'[<<"absence", u>>] = inbox[<<"absence", u>>] /\ faults' = faults
      BY ONLY <3>1, <3>2, <3>4
    <3>5. CASE /\ inbox'[<<"absence", u>>] \in {inbox[<<"absence", u>>], inbox[<<"absence", u>>] + 1}
               /\ faults' = faults + 1
      BY ONLY <3>1, <3>2, <3>5
    <3>6. CASE inbox'[<<"absence", u>>] = inbox[<<"absence", u>>] + 1 /\ faults' = faults /\ u = s /\ u \in j.accepted
      BY ONLY <3>1, <3>2, <3>3, <3>6
    <3> QED  BY <2>2, <3>4, <3>5, <3>6
  <2>4. /\ \A u \in j.todo : u \notin j.accepted /\ u \in Students
        /\ \A u \in j.todo \cup j.accepted : j.row[u] = attendance[u].row
    BY <1>1, <1>2, <2>1
  <2>5. j \in Jobs
    BY JobsBegin
  <2> QED  BY <2>1, <2>3, <2>4, <2>5, AbsenceSteps
<1>6. CASE RecordAbsence(w)
  <2> PICK s \in Students :
              /\ s \in was.accepted /\ UNCHANGED <<mail, faults>>
              /\ \/ /\ attendance' = [attendance EXCEPT ![s].notified = TRUE]
                    /\ \E j \in Absence : /\ Do(w, j) /\ j.todo = was.todo /\ j.accepted = {}
                                          /\ j.row = was.row
                 \/ /\ UNCHANGED attendance /\ Do(w, NoJob)
                    /\ attendance[s].status = "NONE" \/ attendance[s].row # was.row[s]
    BY <1>6, Recordings
  <2>1. CASE /\ attendance' = [attendance EXCEPT ![s].notified = TRUE]
             /\ \E j \in Absence : Do(w, j) /\ j.todo = was.todo /\ j.accepted = {} /\ j.row = was.row
    <3> PICK j \in Absence : /\ Do(w, j) /\ j.todo = was.todo /\ j.accepted = {} /\ j.row = was.row
      BY <2>1
    <3>1. job'[w] = j /\ j \in Jobs
      BY JobsBegin DEF RowsHold, Do
    <3>2. /\ attendance'[s].notified /\ attendance'[s].row = attendance[s].row
          /\ \A u \in Students \ {s} : attendance'[u] = attendance[u]
      BY <2>1 DEF RowsHold, Marks
    <3>3. \A u \in Students : u # s => u \notin was.accepted
      BY <1>1
    <3>4. ASSUME NEW u \in Students
          PROVE  /\ inbox'[<<"absence", u>>] <= attendance'[u].row + faults'
                 /\ (attendance'[u].status # "NONE" /\ ~ attendance'[u].notified)
                      => inbox'[<<"absence", u>>] + 1 <= attendance'[u].row + faults'
      BY <1>4, <3>2, <3>3
    <3>5. \A u \in j.todo : u \in Students /\ u # s
      BY <1>1, <1>2
    <3>6. \A u \in j.todo : /\ inbox'[<<"absence", u>>] + 1 <= attendance'[u].row + faults'
                            /\ j.row[u] = attendance'[u].row
      BY <1>2, <3>2, <3>5
    <3> QED  BY <3>1, <3>4, <3>6, AbsenceSteps
  <2>2. CASE /\ UNCHANGED attendance /\ Do(w, NoJob)
             /\ attendance[s].status = "NONE" \/ attendance[s].row # was.row[s]
    <3>1. job'[w] = NoJob /\ NoJob \in Jobs /\ NoJob.kind # "absence"
      BY <2>2, JobsBegin DEF RowsHold, Do
    <3>2. attendance[s].status = "NONE" /\ \A u \in Students : u # s => u \notin was.accepted
      BY <1>1, <1>2, <2>2
    <3>3. \A u \in Students :
                 /\ inbox'[<<"absence", u>>] <= attendance'[u].row + faults'
                 /\ (attendance'[u].status # "NONE" /\ ~ attendance'[u].notified)
                      => inbox'[<<"absence", u>>] + 1 <= attendance'[u].row + faults'
      BY <1>4, <2>2, <3>2
    <3> QED  BY <3>1, <3>3, AbsenceSteps
  <2> QED  BY <2>1, <2>2
<1>7. CASE Finish(w) \/ Crash(w)
  <2>1. /\ job'[w] = NoJob /\ NoJob \in Jobs /\ NoJob.kind # "absence"
        /\ UNCHANGED <<mail, attendance>>
        /\ (faults' = faults /\ was.accepted = {}) \/ faults' = faults + 1
    BY <1>7, Endings, JobsBegin DEF RowsHold, Do, rows
  <2>2. ASSUME NEW u \in Students
        PROVE  /\ inbox'[<<"absence", u>>] <= attendance'[u].row + faults'
               /\ (attendance'[u].status # "NONE" /\ ~ attendance'[u].notified)
                    => inbox'[<<"absence", u>>] + 1 <= attendance'[u].row + faults'
    BY <1>4, <2>1
  <2> QED  BY <2>1, <2>2, AbsenceSteps
<1> QED  BY <1>5, <1>6, <1>7

(* Every step of one worker keeps the count of the absences.               *)
LEMMA AbsencesStay ==
  ASSUME RowsHold, RowsHold', AbsencesHold, Alone, [Next]_vars
  PROVE  AbsencesHold'
<1> USE DEF rows
<1>1. CASE UNCHANGED vars \/ PlaceMoves \/ InvoiceMoves \/ Day
  <2>1. UNCHANGED <<attendance, inbox, faults, job>>
    BY <1>1 DEF vars, PlaceMoves, InvoiceMoves, Day
  <2> QED  BY <2>1 DEF AbsencesHold, Owed, Tells
<1>2. CASE RemoveAttendance
  <2> PICK s \in Students : /\ attendance' = [attendance EXCEPT ![s].status = "NONE", ![s].notified = FALSE]
                            /\ UNCHANGED <<job, mail, faults>>
    BY <1>2 DEF RemoveAttendance
  <2>1. attendance' = [attendance EXCEPT ![s] = [attendance[s] EXCEPT !.status = "NONE", !.notified = FALSE]]
    BY DEF RowsHold, Marks
  <2>2. /\ attendance'[s].status = "NONE" /\ attendance'[s].row = attendance[s].row
        /\ \A u \in Students \ {s} : attendance'[u] = attendance[u]
    BY <2>1 DEF RowsHold, Marks
  <2>3. \A u \in Students : attendance'[u].row = attendance[u].row /\ (Owed(u)' => Owed(u))
    BY <2>2 DEF Owed, Tells
  <2>4. \A w \in Workers : Tells(w) => job[w].todo \subseteq Students /\ job[w].accepted \subseteq Students
    BY JobFields DEF RowsHold, Tells, Absence
  <2> QED  BY <2>3, <2>4 DEF AbsencesHold, Tells
<1>3. ASSUME NEW w \in Workers,
             \/ sendOverdueReminders(w) \/ Save(w) \/ offerSpot(w) \/ sendGroup(w) \/ SendMessage(w)
             \/ Step(w) \/ Crash(w)
      PROVE  AbsencesHold'
  <2>0. faults \in Nat /\ faults + 1 >= faults /\ faults >= faults
    BY DEF RowsHold
  <2>1. CASE sendOverdueReminders(w) \/ offerSpot(w) \/ sendGroup(w) \/ SendMessage(w)
    <3> PICK j \in Plain \cup Message : Do(w, j) /\ j.kind # "absence"
      BY <2>1, Beginnings, JobsBegin
    <3>1. job[w] = NoJob /\ UNCHANGED <<attendance, mail, faults>>
      BY <2>1, Beginnings
    <3> QED  BY <2>0, <3>1, JobsBegin, NoAbsence
  <2>2. ASSUME ~ Tells(w), NEW s \in Students, Accept(w, s) \/ Refuse(w, s)  PROVE AbsencesHold'
    <3> PICK j \in Plain \cup Absence :
              /\ Do(w, j) /\ j.kind = job[w].kind
              /\ \/ Deliver(job[w].kind, {s}) /\ UNCHANGED faults
                 \/ UNCHANGED <<mail, faults>>
                 \/ Deliver(job[w].kind, {s}) /\ faults' = faults + 1
      BY <2>2, HandingOver
    <3>1. UNCHANGED attendance
      BY <2>2, HandingOver
    <3> QED  BY <2>0, <2>2, <3>1, JobsBegin, NoAbsence DEF Tells
  <2>3. CASE SendChunk(w)
    <3> PICK reached \in SUBSET Addresses, j \in Message, n \in Nat :
          Do(w, j) /\ Deliver("message", reached) /\ faults' = faults + n
      BY <2>3, Chunks
    <3>1. UNCHANGED attendance /\ job[w] \in Message /\ faults' >= faults
      BY <2>0, <2>3, Chunks
    <3> QED  BY <3>1, JobsBegin, NoAbsence
  <2>4. CASE RecordReminder(w) \/ RecordOther(w)
    <3> PICK j \in Plain : Do(w, j)
      BY <2>4, Recordings
    <3>1. job[w].kind # "absence" /\ UNCHANGED <<attendance, mail, faults>>
      BY <2>4, Recordings
    <3> QED  BY <2>0, <3>1, JobsBegin, NoAbsence
  <2>5. CASE ~ Tells(w) /\ (Finish(w) \/ Crash(w))
    <3>1. Do(w, NoJob) /\ UNCHANGED <<attendance, mail>> /\ faults' >= faults
      BY <2>0, <2>5, Endings
    <3> QED  BY <2>5, <3>1, JobsBegin, NoAbsence DEF Tells
  <2>6. RecordAbsence(w) => Tells(w)
    BY Recordings DEF Tells
  <2> QED  BY <1>3, <2>1, <2>2, <2>3, <2>4, <2>5, <2>6, SavesHold, TellingSteps DEF Step
<1> QED  BY <1>1, <1>2, <1>3 DEF Next
-----------------------------------------------------------------------------
(* No family gets more than MAX_REMINDERS reminders of an invoice, nor two *)
(* notices of an absence, nor a message that is not in the list of sent    *)
(* ones, but for one with each fault (RemindersService,                    *)
(* AbsenceNoticesService.send, MessagesService.send).  Reminders and       *)
(* messages hold for any number of workers; where attendance is marked     *)
(* there is one, for two saves that overlap both tell the family.          *)
THEOREM NothingIsRepeated ==
  ASSUME \A d \in Desks : "absence" \in d => \A v, w \in Workers : v = w
  PROVE  Spec => []OnlyFaultsRepeat
<1> DEFINE Quiet == \A s \in Students : inbox[<<"absence", s>>] = 0
<1> DEFINE QuietJobs == \A w \in Workers : job[w].kind \notin {"absence", "saved"}
<1> DEFINE IInv == /\ MessagesHold
                   /\ "absence" \notin desk => Quiet /\ QuietJobs
                   /\ Alone => AbsencesHold
                   /\ desk \in Desks
<1>1. Init => IInv
  <2> SUFFICES ASSUME Init  PROVE IInv
    OBVIOUS
  <2>1. /\ \A s \in Students : inbox[<<"absence", s>>] = 0 /\ attendance[s].row = 0 /\ attendance[s].status = "NONE"
        /\ \A a \in Addresses : inbox[<<"message", a>>] = 0
        /\ faults = 0 /\ messages = 0 /\ \A w \in Workers : job[w].kind = "none"
    BY Bookkeeping, JobsBegin DEF Init, NoMark
  <2>2. AbsencesHold
    <3>1. ASSUME NEW s \in Students  PROVE inbox[<<"absence", s>>] <= attendance[s].row + faults
      <4>1. inbox[<<"absence", s>>] = 0 /\ attendance[s].row = 0 /\ faults = 0
        BY <2>1
      <4> QED  BY ONLY <4>1
    <3> QED  BY <2>1, <3>1 DEF AbsencesHold, Owed, Tells
  <2>3. MessagesHold
    <3> SUFFICES ASSUME NEW a \in Addresses
                 PROVE  inbox[<<"message", a>>] <= messages + faults + Cardinality(SentOn(a))
      BY DEF MessagesHold
    <3>1. Cardinality(SentOn(a)) \in Nat
      BY SentOnGrows DEF SentOn
    <3> QED  BY <2>1, <3>1
  <2> QED  BY <2>1, <2>2, <2>3 DEF Init
<1>2. RowsHold /\ RowsHold' /\ IInv /\ [Next]_vars => IInv'
  <2> SUFFICES ASSUME RowsHold, RowsHold', IInv, [Next]_vars  PROVE IInv'
    OBVIOUS
  <2>1. UNCHANGED desk
    BY DEF Next, vars, Step, sendOverdueReminders, Save, Push, offerSpot, sendGroup, SendMessage, notify, Accept, Refuse,
       SendChunk, RecordReminder, RecordAbsence, RecordOther, Recorded, Finish, Crash, InvoiceMoves, RemoveAttendance,
       PlaceMoves, Day
  <2>2. ASSUME "absence" \notin desk  PROVE Quiet' /\ QuietJobs'
    <3>1. Quiet /\ QuietJobs
      BY <2>2
    <3>2. ASSUME NEW w \in Workers, NEW j \in Jobs, Do(w, j), j.kind \notin {"absence", "saved"}  PROVE QuietJobs'
      BY <3>1, <3>2 DEF RowsHold, Do
    <3>3. ASSUME NEW kind, NEW xs, Deliver(kind, xs), kind # "absence"  PROVE Quiet'
      <4> SUFFICES ASSUME NEW s \in Students  PROVE inbox'[<<"absence", s>>] = 0
        OBVIOUS
      <4> PICK t \in Targets : t = <<"absence", s>>
        BY Bookkeeping
      <4>1. inbox'[t] = IF t[1] = kind /\ t[2] \in xs THEN inbox[t] + 1 ELSE inbox[t]
        BY <3>3, InBox
      <4> QED  BY <3>1, <3>3, <4>1
    <3>4. ASSUME NEW w \in Workers
          PROVE  ~ Save(w) /\ ~ notify(w) /\ ~ RecordAbsence(w)
      BY <2>2, <3>1, Saves, Beginnings, Recordings
    <3>5. ASSUME NEW w \in Workers, sendOverdueReminders(w) \/ offerSpot(w) \/ sendGroup(w) \/ SendMessage(w)
          PROVE  Quiet' /\ QuietJobs'
      <4> PICK j \in Plain \cup Message : Do(w, j) /\ UNCHANGED inbox
        BY <3>5, Beginnings, JobsBegin
      <4> QED  BY <3>1, <3>2, JobsBegin
    <3>6. ASSUME NEW w \in Workers, NEW s \in Students, Accept(w, s) \/ Refuse(w, s)
          PROVE  Quiet' /\ QuietJobs'
      <4> PICK j \in Plain \cup Absence :
            /\ Do(w, j) /\ j.kind = job[w].kind /\ (Deliver(job[w].kind, {s}) \/ UNCHANGED inbox)
        BY <3>6, HandingOver
      <4> QED  BY <3>1, <3>2, <3>3, JobsBegin
    <3>7. ASSUME NEW w \in Workers, SendChunk(w)  PROVE Quiet' /\ QuietJobs'
      <4> PICK reached \in SUBSET Addresses, j \in Message : Do(w, j) /\ Deliver("message", reached)
        BY <3>7, Chunks
      <4> QED  BY <3>2, <3>3, JobsBegin
    <3>8. ASSUME NEW w \in Workers, RecordReminder(w) \/ RecordOther(w)  PROVE Quiet' /\ QuietJobs'
      <4> PICK j \in Plain : Do(w, j) /\ UNCHANGED inbox
        BY <3>8, Recordings
      <4> QED  BY <3>1, <3>2, JobsBegin
    <3>9. ASSUME NEW w \in Workers, Finish(w) \/ Crash(w)  PROVE Quiet' /\ QuietJobs'
      <4>1. Do(w, NoJob) /\ UNCHANGED inbox
        BY <3>9, Endings
      <4> QED  BY <3>1, <3>2, <4>1, JobsBegin
    <3>10. CASE UNCHANGED vars \/ InvoiceMoves \/ RemoveAttendance \/ PlaceMoves \/ Day
      BY <3>1, <3>10 DEF vars, InvoiceMoves, RemoveAttendance, PlaceMoves, Day
    <3> QED  BY <3>4, <3>5, <3>6, <3>7, <3>8, <3>9, <3>10 DEF Next, Step
  <2>3. Alone => AbsencesHold'
    BY AbsencesStay
  <2> HIDE DEF Quiet, QuietJobs
  <2> QED  BY <2>1, <2>2, <2>3, MessagesStay DEF Alone
<1>3. RowsHold /\ RemindersHold /\ IInv => OnlyFaultsRepeat
  <2> SUFFICES ASSUME RowsHold, RemindersHold, IInv  PROVE OnlyFaultsRepeat
    OBVIOUS
  <2>1. ASSUME NEW s \in Students  PROVE inbox[<<"reminder", s>>] <= MAX_REMINDERS + faults
    <3>1. /\ inbox[<<"reminder", s>>] \in Nat /\ invoice[s].reminderCount \in Nat /\ faults \in Nat
          /\ MAX_REMINDERS \in Nat
      BY Bookkeeping, Reminding, NoticesAssumption DEF RowsHold
    <3>2. CASE inbox[<<"reminder", s>>] <= invoice[s].reminderCount + faults
      BY <3>1, <3>2 DEF RemindersHold
    <3>3. CASE /\ inbox[<<"reminder", s>>] <= invoice[s].reminderCount + faults + 1
               /\ \E w \in Workers : Reminds(w) /\ s \in job[w].accepted
      <4>1. invoice[s].reminderCount < MAX_REMINDERS
        BY <3>3 DEF RemindersHold
      <4> QED  BY <3>1, <3>3, <4>1
    <3> QED  BY <3>2, <3>3 DEF RemindersHold
  <2>2. ASSUME NEW s \in Students  PROVE inbox[<<"absence", s>>] <= attendance[s].row + faults
    <3>1. CASE "absence" \in desk
      <4>1. Alone
        BY <3>1 DEF Alone
      <4> QED  BY <4>1 DEF AbsencesHold
    <3>2. CASE "absence" \notin desk
      <4>1. inbox[<<"absence", s>>] = 0 /\ attendance[s].row \in Nat /\ faults \in Nat
        BY <3>2, MarkFields DEF RowsHold
      <4> QED  BY <4>1
    <3> QED  BY <3>1, <3>2
  <2>3. ASSUME NEW a \in Addresses
        PROVE  inbox[<<"message", a>>] <= messages + faults + Cardinality({w \in Workers : job[w].kind = "message"})
    <3> PICK S, T : S = SentOn(a) /\ T = {w \in Workers : job[w].kind = "message"}
      OBVIOUS
    <3>1. Cardinality(S) \in Nat /\ Cardinality(T) \in Nat /\ Cardinality(S) <= Cardinality(T)
      BY SentOnGrows DEF SentOn
    <3>2. inbox[<<"message", a>>] \in Nat /\ messages \in Nat /\ faults \in Nat
      BY Bookkeeping DEF RowsHold
    <3>3. inbox[<<"message", a>>] <= messages + faults + Cardinality(S)
      BY DEF MessagesHold
    <3>4. inbox[<<"message", a>>] <= messages + faults + Cardinality(T)
      BY ONLY <3>1, <3>2, <3>3
    <3> QED  BY <3>4
  <2> QED  BY <2>1, <2>2, <2>3 DEF OnlyFaultsRepeat
<1> QED  BY <1>1, <1>2, <1>3, RemindersCounted, PTL DEF Spec
=============================================================================
