--------------------------- MODULE AccountsProofs ---------------------------
(***************************************************************************)
(* What holds of Accounts for every number of requests in progress, and    *)
(* for every set of emails, students and teachers.                         *)
(*                                                                         *)
(* A request decides from rows it read, so the invariants are not          *)
(* inductive as they stand: Understood says what a request in progress     *)
(* still knows when it writes.  That rests on one fact about every step    *)
(* (Onward): a login never changes its role, its id is never given to      *)
(* another one, and it is never handed from one profile to another.        *)
(*                                                                         *)
(* Two properties hold only while the requests of one kind wait for each   *)
(* other: ProfilesAlone and FamiliesAlone say what the one in progress     *)
(* then knows besides, that nobody has changed the rows it read.           *)
(***************************************************************************)
EXTENDS Accounts, TLAPS

Families == {"grantPortal", "revokePortal", "erase", "remove"}
Profiles == {"grantTeacher", "revokeTeacher", "removeTeacher"}

(* The login u, if it is still there, is of this kind; and its id is taken.*)
HasRole(u, role) ==
  /\ u \in 1..numbered.users
  /\ u \in DOMAIN users => users[u].role = role

(* Family links lead to logins of families, profiles to logins of          *)
(* teachers, one to each.                                                  *)
RolesHold ==
  /\ \A k \in DOMAIN links : links[k].user # NoUser => users[links[k].user].role = "guardian"
  /\ \A t \in DOMAIN teacher : teacher[t] # NoUser => users[teacher[t]].role = "teacher"
  /\ \A t, v \in DOMAIN teacher : teacher[t] = teacher[v] /\ teacher[t] # NoUser => t = v

Counted ==
  /\ numbered = [users |-> numbered.users, links |-> numbered.links]
  /\ numbered.users \in Nat \ {0} /\ numbered.links \in Nat
  /\ \A k \in DOMAIN links : links[k] = [student |-> links[k].student, user |-> links[k].user]

RowsHold == TypeOK /\ Counted /\ RolesHold /\ InvoicedIsKept

(* What a request in progress knows, whatever others do meanwhile.         *)
Imports == [op : {"import"}, left : Nat, created : Nat, failed : Nat]
Grants == [op : {"grantPortal"}, at : {"student", "login", "user", "link"}, student : Students, email : Emails, user : Nat]

UnderstoodByFamilies(r) ==
  /\ r.op = "grantPortal" =>
       /\ r \in Grants
       /\ r.at \in {"login", "link"} => HasRole(r.user, "guardian")
  /\ r.op = "revokePortal" /\ r.at = "read" => r.user = NoUser \/ HasRole(r.user, "guardian")
  /\ r.op = "erase" =>
       /\ r.at = "read" => \A u \in r.family : HasRole(u, "guardian")
       /\ r.student \in Students
  /\ r.op \in {"revokePortal", "erase"} /\ r.at = "tx" => \A u \in r.logins : HasRole(u, "guardian")

UnderstoodByOffice(r) ==
  /\ r.op = "import" => r \in Imports
  /\ r.op \in {"grantTeacher", "createStaff"} => r.email \in Emails
  /\ r.op = "revokeTeacher" => HasRole(r.user, "teacher")
  /\ r.op = "removeTeacher" /\ r.user # NoUser =>
       /\ HasRole(r.user, "teacher")
       /\ \A t \in DOMAIN teacher : teacher[t] = r.user => t = r.teacher
  /\ r.op = "removeStaff" => HasRole(r.user, "staff")

Understood(r) == UnderstoodByFamilies(r) /\ UnderstoodByOffice(r)

IInv == RowsHold /\ \A q \in Slots : Understood(request[q])

(* What no step does.                                                      *)
Onward ==
  /\ numbered'.users \in Nat /\ numbered.users <= numbered'.users
  /\ \A u \in DOMAIN users' :
       u \in 1..numbered.users => u \in DOMAIN users /\ users'[u].role = users[u].role
  /\ \A t \in DOMAIN teacher' :
       teacher'[t] \in 1..numbered.users => t \in DOMAIN teacher /\ teacher'[t] = teacher[t]

(* OfficeStays, of one step.                                               *)
OfficeKept == \A u \in DOMAIN users \ DOMAIN users' :
  users[u].role \in {"admin", "staff"} =>
    users[u].role = "staff" /\ \E q \in Slots : request[q].op = "removeStaff"

(* A request about a profile that is the only one finds it as it read it.  *)
KnowsProfile(r) ==
  /\ r.op = "grantTeacher" => r.teacher \in DOMAIN teacher /\ teacher[r.teacher] = NoUser
  /\ r.op = "removeTeacher" => r.teacher \in DOMAIN teacher /\ teacher[r.teacher] = r.user

ProfilesUntouched ==
  /\ \A t \in DOMAIN teacher : t \in DOMAIN teacher' /\ teacher'[t] = teacher[t]
  /\ \A u \in DOMAIN users' : users'[u].role = "teacher" => u \in DOMAIN users /\ users[u].role = "teacher"

ProfilesAlone ==
  /\ \A p, q \in Slots : request[p].op \in Profiles /\ request[q].op \in Profiles => p = q
  /\ \A q \in Slots : KnowsProfile(request[q])
  /\ TeacherHasProfile

(* A request about a family that is the only one finds the links it read,  *)
(* and has counted them right.                                             *)
Counts(r) ==
  /\ \A u \in r.logins : LinksTo(u) \subseteq r.links
  /\ \A k \in r.links :
       /\ k \in DOMAIN links
       /\ links[k].user \in r.logins \cup {NoUser} \/ ~(LinksTo(links[k].user) \subseteq r.links)

KnowsFamily(r) ==
  /\ r.op = "revokePortal" /\ r.at = "read" => r.link \in DOMAIN links /\ links[r.link].user = r.user
  /\ r.op = "erase" /\ r.at = "read" => r.family = {links[k].user : k \in LinksOf(r.student)} \ {NoUser}
  /\ r.op = "erase" /\ r.at = "tx" => r.links = LinksOf(r.student)
  /\ r.op \in {"revokePortal", "erase"} /\ r.at = "tx" => Counts(r)

LinksUntouched ==
  DOMAIN links' = DOMAIN links /\ \A k \in DOMAIN links : links'[k] = links[k]

FamiliesAlone ==
  /\ \A p, q \in Slots : request[p].op \in Families /\ request[q].op \in Families => p = q
  /\ \A q \in Slots : KnowsFamily(request[q])

(* What a step may put in a slot.                                          *)
Began(q, r) == request[q] = NoRequest /\ MayStart(r.op) /\ KnowsProfile(r) /\ KnowsFamily(r)
WentOn(q, r) == /\ r.op = request[q].op
                /\ r.op \in {"import", "grantPortal", "revokePortal", "erase"}
                /\ KnowsFamily(request[q]) => KnowsFamily(r)

(* LoginEndsWithItsChildren, of one step.                                  *)
EndsRight ==
  /\ \A k \in DOMAIN links \cap DOMAIN links' : links'[k] = links[k]
  /\ (\E q \in Slots : Counting(q) /\ request'[q] = NoRequest) => Childless' \subseteq Childless

-----------------------------------------------------------------------------
(* The operators.                                                          *)

(* onDelete SetNull touches no row but those of the logins that go.        *)
LEMMA NulledRows ==
  ASSUME NEW f, NEW gone, \A k \in DOMAIN f : f[k] = [student |-> f[k].student, user |-> f[k].user]
  PROVE  /\ DOMAIN SetNull(f, gone) = DOMAIN f
         /\ \A k \in DOMAIN f : SetNull(f, gone)[k] =
              [student |-> f[k].student, user |-> IF f[k].user \in gone THEN NoUser ELSE f[k].user]
<1> SUFFICES ASSUME NEW k \in DOMAIN f
             PROVE  SetNull(f, gone)[k] = [student |-> f[k].student,
                                           user |-> IF f[k].user \in gone THEN NoUser ELSE f[k].user]
  BY DEF SetNull
<1>1. PICK s, u : f[k] = [student |-> s, user |-> u]
  OBVIOUS
<1>2. SetNull(f, gone)[k] = IF u \in gone THEN [f[k] EXCEPT !.user = NoUser] ELSE f[k]
  BY <1>1 DEF SetNull
<1>3. [f[k] EXCEPT !.user = NoUser] = [student |-> s, user |-> NoUser]
  BY <1>1
<1> QED  BY <1>1, <1>2, <1>3

-----------------------------------------------------------------------------
(* Requests.                                                               *)

(* A request goes on understanding the rows while others write them.       *)
LEMMA UnderstandingOutlives ==
  ASSUME Counted, NEW r, Understood(r), Onward
  PROVE  Understood(r)'
<1>1. ASSUME NEW u, NEW role, HasRole(u, role) PROVE HasRole(u, role)'
  BY <1>1 DEF HasRole, Onward, Counted
<1>2. UnderstoodByFamilies(r)'
  BY <1>1 DEF Understood, UnderstoodByFamilies
<1>3. UnderstoodByOffice(r)'
  <2>1. ASSUME r.op = "removeTeacher", r.user # NoUser, NEW t \in DOMAIN teacher', teacher'[t] = r.user
        PROVE  t = r.teacher
    <3>1. teacher'[t] \in 1..numbered.users
      BY <2>1 DEF Understood, UnderstoodByOffice, HasRole
    <3> QED  BY <2>1, <3>1 DEF Understood, UnderstoodByOffice, Onward
  <2> QED  BY <1>1, <2>1 DEF Understood, UnderstoodByOffice
<1> QED  BY <1>2, <1>3 DEF Understood

(* A request that has ended knows nothing.                                 *)
LEMMA IdleUnderstands == Understood(NoRequest)'
BY DEF Understood, UnderstoodByFamilies, UnderstoodByOffice, NoRequest

(* What is left of a step once its rows are right: the other requests.     *)
LEMMA SlotsUnderstand ==
  ASSUME IInv, RowsHold', Onward, NEW q \in Slots, NEW r, Understood(r)',
         request' = [request EXCEPT ![q] = r]
  PROVE  IInv'
<1>1. \A p \in Slots : Understood(request[p])'
  <2> TAKE p \in Slots
  <2> PICK was : was = request[p]
    OBVIOUS
  <2>1. Understood(was)'
    <3>1. Understood(was) /\ Counted
      BY DEF IInv, RowsHold
    <3> QED  BY <3>1, UnderstandingOutlives
  <2>2. request'[p] = IF p = q THEN r ELSE was
    BY DEF IInv, RowsHold, TypeOK
  <2> QED  BY <2>1, <2>2
<1> QED  BY <1>1 DEF IInv

(* A step that writes no rows and leaves one slot with a request that      *)
(* understands them.                                                       *)
LEMMA RequestStep ==
  ASSUME IInv, NEW q \in Slots, NEW r, Understood(r),
         request' = [request EXCEPT ![q] = r],
         UNCHANGED <<users, student, invoiced, links, teacher, numbered>>
  PROVE  IInv' /\ OfficeKept
<1>1. RowsHold'
  BY DEF IInv, RowsHold, TypeOK, Counted, RolesHold, InvoicedIsKept, Rows
<1>2. Onward
  BY DEF IInv, RowsHold, TypeOK, Counted, Onward
<1>3. Understood(r)'
  BY <1>2, UnderstandingOutlives DEF IInv, RowsHold
<1> QED  BY <1>1, <1>2, <1>3, SlotsUnderstand DEF OfficeKept

-----------------------------------------------------------------------------
(* Logins.                                                                 *)

(* Deleting logins, whatever links and profiles go with them: what is left *)
(* refers to what is left.                                                 *)
LEMMA LoginsGo ==
  ASSUME IInv, NEW gone, gone \subseteq 1..numbered.users, NEW cut,
         DOMAIN users' = DOMAIN users \ gone,
         \A u \in DOMAIN users' : users'[u] = users[u],
         links' = SetNull(Without(links, cut), gone),
         DOMAIN teacher' \subseteq DOMAIN teacher,
         \A t \in DOMAIN teacher' : teacher'[t] = IF teacher[t] \in gone THEN NoUser ELSE teacher[t],
         student' \in [Students -> {"absent", "enrolled", "erased", "gone"}],
         \A k \in DOMAIN links \ cut : links[k].student \in Rows',
         invoiced \subseteq Rows', DOMAIN request' = Slots,
         UNCHANGED <<invoiced, numbered>>
  PROVE  RowsHold' /\ Onward
<1>1. 0 \notin gone
  OBVIOUS
<1>2. /\ DOMAIN links' = DOMAIN links \ cut
      /\ \A k \in DOMAIN links' : links'[k] =
           [student |-> links[k].student, user |-> IF links[k].user \in gone THEN NoUser ELSE links[k].user]
  <2> PICK rest : rest = Without(links, cut)
    OBVIOUS
  <2>1. DOMAIN rest = DOMAIN links \ cut /\ \A k \in DOMAIN rest : rest[k] = links[k]
    BY DEF Without
  <2>2. \A k \in DOMAIN rest : rest[k] = [student |-> rest[k].student, user |-> rest[k].user]
    BY <2>1 DEF IInv, RowsHold, Counted
  <2>3. links' = SetNull(rest, gone)
    OBVIOUS
  <2>4. /\ DOMAIN SetNull(rest, gone) = DOMAIN rest
        /\ \A k \in DOMAIN rest : SetNull(rest, gone)[k] =
             [student |-> rest[k].student, user |-> IF rest[k].user \in gone THEN NoUser ELSE rest[k].user]
    BY <2>2, NulledRows
  <2> QED  BY <2>1, <2>3, <2>4
<1>3. TypeOK'
  <2>1. \A k \in DOMAIN links' : links'[k].student \in Rows' /\ links'[k].user \in DOMAIN users' \cup {NoUser}
    BY <1>1, <1>2 DEF IInv, RowsHold, TypeOK
  <2>2. \A t \in DOMAIN teacher' : teacher'[t] \in DOMAIN users' \cup {NoUser}
    BY DEF IInv, RowsHold, TypeOK
  <2> QED  BY <1>2, <2>1, <2>2 DEF IInv, RowsHold, TypeOK
<1>4. Counted'
  BY <1>2 DEF IInv, RowsHold, Counted
<1>5. RolesHold'
  <2>1. \A k \in DOMAIN links' : links'[k].user # NoUser => users'[links'[k].user].role = "guardian"
    BY <1>2 DEF IInv, RowsHold, RolesHold, TypeOK
  <2>2. \A t \in DOMAIN teacher' : teacher'[t] # NoUser => users'[teacher'[t]].role = "teacher"
    BY DEF IInv, RowsHold, RolesHold, TypeOK
  <2> QED  BY <2>1, <2>2 DEF IInv, RowsHold, RolesHold
<1>6. InvoicedIsKept'
  BY DEF InvoicedIsKept
<1>7. Onward
  BY DEF IInv, RowsHold, Counted, TypeOK, Onward, NoUser
<1> QED  BY <1>3, <1>4, <1>5, <1>6, <1>7 DEF RowsHold

(* A login is created, with the profile it is for if it is a teacher's.    *)
LEMMA LoginComes ==
  ASSUME IInv, NEW email \in Emails, NEW role \in {"staff", "teacher", "guardian"},
         CanCreateUser(email),
         users' = With(users, NewUser, [email |-> email, role |-> role]),
         numbered' = [numbered EXCEPT !.users = NewUser],
         DOMAIN teacher' = DOMAIN teacher,
         \/ UNCHANGED teacher
         \/ /\ role = "teacher"
            /\ \E t \in DOMAIN teacher : teacher' = [teacher EXCEPT ![t] = NewUser],
         DOMAIN request' = Slots,
         UNCHANGED <<student, invoiced, links>>
  PROVE  RowsHold' /\ Onward /\ OfficeKept
<1>1. /\ numbered.users \in Nat \ {0} /\ NewUser \in Nat /\ NewUser \notin DOMAIN users /\ NewUser # NoUser
      /\ NewUser = numbered.users + 1
  BY DEF IInv, RowsHold, Counted, TypeOK, NewUser, NoUser
<1>2. numbered' = [users |-> NewUser, links |-> numbered.links]
  BY DEF IInv, RowsHold, Counted
<1>3. /\ DOMAIN users' = DOMAIN users \cup {NewUser}
      /\ users'[NewUser] = [email |-> email, role |-> role]
      /\ \A u \in DOMAIN users : users'[u] = users[u]
  BY <1>1 DEF With
<1>4. \A t \in DOMAIN teacher' : teacher'[t] = teacher[t] \/ (role = "teacher" /\ teacher'[t] = NewUser)
  OBVIOUS
<1>5. \A t, v \in DOMAIN teacher' : teacher'[t] = NewUser /\ teacher'[v] = NewUser => t = v
  BY <1>1, <1>4 DEF IInv, RowsHold, TypeOK
<1>6. TypeOK'
  <2>1. \A u \in DOMAIN users' : users'[u] \in [email : Emails, role : {"admin", "staff", "teacher", "guardian"}]
    BY <1>3 DEF IInv, RowsHold, TypeOK
  <2>2. DOMAIN users' \subseteq 1..numbered'.users
    BY <1>1, <1>2, <1>3 DEF IInv, RowsHold, TypeOK
  <2>3. \A u, v \in DOMAIN users' : users'[u].email = users'[v].email => u = v
    BY <1>3 DEF IInv, RowsHold, TypeOK, CanCreateUser, UsersWith
  <2>4. DOMAIN links' \subseteq 1..numbered'.links
    BY <1>2 DEF IInv, RowsHold, TypeOK
  <2>5. \A k \in DOMAIN links' : links'[k].student \in Rows' /\ links'[k].user \in DOMAIN users' \cup {NoUser}
    BY <1>3 DEF IInv, RowsHold, TypeOK, Rows
  <2>6. \A t \in DOMAIN teacher' : teacher'[t] \in DOMAIN users' \cup {NoUser}
    BY <1>3, <1>4 DEF IInv, RowsHold, TypeOK
  <2> QED  BY <2>1, <2>2, <2>3, <2>4, <2>5, <2>6 DEF IInv, RowsHold, TypeOK
<1>7. Counted'
  BY <1>1, <1>2 DEF IInv, RowsHold, Counted
<1>8. RolesHold'
  <2>1. \A k \in DOMAIN links' : links'[k].user # NoUser => users'[links'[k].user].role = "guardian"
    BY <1>3 DEF IInv, RowsHold, RolesHold, TypeOK
  <2>2. \A t \in DOMAIN teacher' : teacher'[t] # NoUser => users'[teacher'[t]].role = "teacher"
    BY <1>3, <1>4 DEF IInv, RowsHold, RolesHold, TypeOK
  <2>3. \A t, v \in DOMAIN teacher' : teacher'[t] = teacher'[v] /\ teacher'[t] # NoUser => t = v
    BY <1>1, <1>4, <1>5 DEF IInv, RowsHold, RolesHold, TypeOK
  <2> QED  BY <2>1, <2>2, <2>3 DEF RolesHold
<1>9. InvoicedIsKept'
  BY DEF IInv, RowsHold, InvoicedIsKept, Rows
<1>10. Onward
  BY <1>1, <1>2, <1>3, <1>4 DEF IInv, RowsHold, TypeOK, Onward
<1> QED  BY <1>3, <1>6, <1>7, <1>8, <1>9, <1>10 DEF RowsHold, OfficeKept

-----------------------------------------------------------------------------
(* Students.                                                               *)

(* The same for a step that is nobody's request.                           *)
LEMMA OthersUnderstand ==
  ASSUME IInv, RowsHold', Onward, UNCHANGED request
  PROVE  IInv'
<1>1. \A p \in Slots : Understood(request[p])'
  <2> TAKE p \in Slots
  <2> PICK was : was = request[p]
    OBVIOUS
  <2>1. Understood(was) /\ Counted
    BY DEF IInv, RowsHold
  <2>2. Understood(was)'
    BY <2>1, UnderstandingOutlives
  <2> QED  BY <2>2
<1> QED  BY <1>1 DEF IInv

(* A new student has neither invoices nor guardians.                       *)
LEMMA StudentComes ==
  ASSUME IInv, NEW s \in Students, student[s] = "absent",
         student' = [student EXCEPT ![s] = "enrolled"],
         DOMAIN request' = Slots, UNCHANGED <<users, invoiced, links, teacher, numbered>>
  PROVE  RowsHold' /\ Onward
<1>1. Rows \subseteq Rows'
  BY DEF IInv, RowsHold, TypeOK, Rows
<1>2. TypeOK'
  BY <1>1 DEF IInv, RowsHold, TypeOK
<1>3. Counted' /\ RolesHold' /\ InvoicedIsKept'
  BY <1>1 DEF IInv, RowsHold, Counted, RolesHold, InvoicedIsKept
<1>4. Onward
  BY DEF IInv, RowsHold, Counted, TypeOK, Onward
<1> QED  BY <1>2, <1>3, <1>4 DEF RowsHold

(* Enrolling, issuing and adding a teacher change no login.                *)
LEMMA createStep == IInv /\ create => IInv' /\ OfficeKept
<1> SUFFICES ASSUME IInv, create  PROVE IInv' /\ OfficeKept
  OBVIOUS
<1>1. DOMAIN request' = Slots
  BY DEF IInv, RowsHold, TypeOK, create
<1>2. RowsHold' /\ Onward
  BY <1>1, StudentComes DEF create
<1> QED  BY <1>2, OthersUnderstand DEF create, OfficeKept

(* Issuing an invoice only adds to the invoiced students.                  *)
LEMMA IssueStep == IInv /\ Issue => IInv' /\ OfficeKept
<1> SUFFICES ASSUME IInv, Issue  PROVE IInv' /\ OfficeKept
  OBVIOUS
<1>1. RowsHold' /\ Onward
  BY DEF Issue, IInv, RowsHold, TypeOK, Counted, RolesHold, InvoicedIsKept, Rows, Onward
<1> QED  BY <1>1, OthersUnderstand DEF Issue, OfficeKept

(* A teacher is created with the profile and the account at once.          *)
LEMMA CreateTeacherStep == IInv /\ CreateTeacher => IInv' /\ OfficeKept
<1> SUFFICES ASSUME IInv, CreateTeacher  PROVE IInv' /\ OfficeKept
  OBVIOUS
<1> PICK t \in Teachers \ DOMAIN teacher : teacher' = With(teacher, t, NoUser)
  BY DEF CreateTeacher
<1>1. /\ DOMAIN teacher' = DOMAIN teacher \cup {t} /\ teacher'[t] = NoUser
      /\ \A v \in DOMAIN teacher : teacher'[v] = teacher[v]
  BY DEF With
<1>2. TypeOK'
  BY <1>1 DEF CreateTeacher, IInv, RowsHold, TypeOK, Rows
<1>3. Counted' /\ RolesHold' /\ InvoicedIsKept'
  BY <1>1 DEF CreateTeacher, IInv, RowsHold, Counted, RolesHold, InvoicedIsKept, Rows
<1>4. Onward
  BY <1>1 DEF CreateTeacher, IInv, RowsHold, TypeOK, Counted, Onward, NoUser
<1> QED  BY <1>2, <1>3, <1>4, OthersUnderstand DEF CreateTeacher, OfficeKept, RowsHold

(* A bulk import or a deletion knows nothing it could be wrong about.      *)
LEMMA ImportUnderstands ==
  ASSUME NEW r, r \in Imports \/ \E s : r = [op |-> "remove", student |-> s]
  PROVE  Understood(r)
BY DEF Understood, UnderstoodByFamilies, UnderstoodByOffice, Imports

(* An import creates students and guardians row by row.                    *)
LEMMA ImportSteps ==
  ASSUME IInv, NEW q \in Slots, BeginImport(q) \/ ImportRow(q) \/ EndImport(q)
  PROVE  IInv' /\ OfficeKept
<1>1. CASE BeginImport(q)
  <2> PICK r : r = [op |-> "import", left |-> Bulk, created |-> 0, failed |-> 0]
    OBVIOUS
  <2>1. r \in Imports
    BY AccountsAssumption DEF Imports
  <2> QED  BY <1>1, <2>1, ImportUnderstands, RequestStep DEF BeginImport, Read
<1>2. CASE ImportRow(q)
  <2> PICK was : was = request[q]
    OBVIOUS
  <2>1. was \in Imports /\ was.left > 0
    BY <1>2 DEF ImportRow, IInv, Understood, UnderstoodByOffice
  <2>2. PICK r : request' = [request EXCEPT ![q] = r] /\ r \in Imports
    <3> was.left - 1 \in Nat /\ was.created + 1 \in Nat /\ was.failed + 1 \in Nat
      BY <2>1 DEF Imports
    <3>1. [was EXCEPT !.left = @ - 1, !.created = @ + 1] \in Imports
      BY <2>1 DEF Imports
    <3>2. [was EXCEPT !.left = @ - 1, !.failed = @ + 1] \in Imports
      BY <2>1 DEF Imports
    <3>3. \/ request' = [request EXCEPT ![q] = [was EXCEPT !.left = @ - 1, !.created = @ + 1]]
          \/ request' = [request EXCEPT ![q] = [was EXCEPT !.left = @ - 1, !.failed = @ + 1]]
      BY <1>2 DEF ImportRow
    <3> QED  BY <3>1, <3>2, <3>3
  <2> Understood(r)
    BY <2>2, ImportUnderstands
  <2>3. CASE UNCHANGED student
    BY <1>2, <2>2, <2>3, RequestStep DEF ImportRow
  <2>4. CASE \E s \in Students : /\ student[s] = "absent"
                                 /\ student' = [student EXCEPT ![s] = "enrolled"]
    <3>1. DOMAIN request' = Slots
      BY <2>2 DEF IInv, RowsHold, TypeOK
    <3>2. RowsHold' /\ Onward
      BY <1>2, <2>4, <3>1, StudentComes DEF ImportRow
    <3>3. Understood(r)'
      BY <3>2, UnderstandingOutlives DEF IInv, RowsHold
    <3> QED  BY <1>2, <2>2, <3>2, <3>3, SlotsUnderstand DEF ImportRow, OfficeKept
  <2> QED  BY <1>2, <2>3, <2>4 DEF ImportRow
<1>3. CASE EndImport(q)
  <2>1. Understood(NoRequest)
    BY DEF Understood, UnderstoodByFamilies, UnderstoodByOffice, NoRequest
  <2> QED  BY <1>3, <2>1, RequestStep DEF EndImport, End
<1> QED  BY <1>1, <1>2, <1>3

(* A request is given up.                                                  *)
LEMMA FailStep ==
  ASSUME IInv, NEW q \in Slots, Fail(q)
  PROVE  IInv' /\ OfficeKept
<1>1. Understood(NoRequest)
  BY DEF Understood, UnderstoodByFamilies, UnderstoodByOffice, NoRequest
<1> QED  BY <1>1, RequestStep DEF Fail, Proceed

(* A student without invoices goes with its guardians, and nobody else.    *)
LEMMA RemoveSteps ==
  ASSUME IInv, NEW q \in Slots, ReadRemove(q) \/ remove(q)
  PROVE  IInv' /\ OfficeKept
<1>1. CASE ReadRemove(q)
  <2> PICK s : Read(q, [op |-> "remove", student |-> s])
    BY <1>1 DEF ReadRemove
  <2> PICK r : r = [op |-> "remove", student |-> s]
    OBVIOUS
  <2> QED  BY ImportUnderstands, RequestStep DEF Read
<1>2. CASE remove(q)
  <2> PICK s : s = request[q].student
    OBVIOUS
  <2>1. /\ s \in Rows /\ s \notin invoiced
        /\ student' = [student EXCEPT ![s] = "gone"]
        /\ links' = Without(links, LinksOf(s))
        /\ request' = [request EXCEPT ![q] = NoRequest]
        /\ UNCHANGED <<users, invoiced, teacher, numbered>>
    BY <1>2 DEF remove, Deletable, Delete, End
  <2>2. Rows' = Rows \ {s} /\ student' \in [Students -> {"absent", "enrolled", "erased", "gone"}]
    BY <2>1 DEF Rows, IInv, RowsHold, TypeOK
  <2>3. TypeOK'
    BY <2>1, <2>2 DEF IInv, RowsHold, TypeOK, Without, LinksOf
  <2>4. Counted' /\ RolesHold' /\ InvoicedIsKept'
    BY <2>1, <2>2 DEF IInv, RowsHold, Counted, RolesHold, InvoicedIsKept, Without
  <2>5. Onward
    BY <2>1 DEF IInv, RowsHold, Counted, TypeOK, Onward
  <2> QED  BY <2>1, <2>3, <2>4, <2>5, IdleUnderstands, SlotsUnderstand DEF RowsHold, OfficeKept
<1> QED  BY <1>1, <1>2

-----------------------------------------------------------------------------
(* Portal access and erasure.                                              *)

(* An email of no login, or of a family's.                                 *)
LEMMA GrantSteps ==
  ASSUME IInv, NEW q \in Slots, ReadGrant(q) \/ FindUser(q) \/ NotYetLinked(q) \/ CreateGuardianUser(q)
                         \/ grantPortalAccess(q)
  PROVE  IInv' /\ OfficeKept
<1>1. CASE ReadGrant(q)
  <2>1. PICK s \in Rows, e \in Emails :
          Read(q, [op |-> "grantPortal", at |-> "student", student |-> s, email |-> e, user |-> NoUser])
    BY <1>1 DEF ReadGrant
  <2> PICK r : r = [op |-> "grantPortal", at |-> "student", student |-> s, email |-> e, user |-> NoUser]
    OBVIOUS
  <2>2. Understood(r)
    BY DEF Understood, UnderstoodByFamilies, UnderstoodByOffice, Grants, Rows, NoUser
  <2> QED  BY <2>1, <2>2, RequestStep DEF Read
<1>4. CASE FindUser(q)
  <2> PICK was : was = request[q]
    OBVIOUS
  <2>1. was \in Grants /\ was.op = "grantPortal" /\ was.at = "student"
    BY <1>4 DEF FindUser, IInv, Understood, UnderstoodByFamilies
  <2>2. CASE Proceed(q, [was EXCEPT !.at = "user"])
    <3> PICK r : r = [was EXCEPT !.at = "user"]
      OBVIOUS
    <3>1. r \in Grants /\ r.op = "grantPortal" /\ r.at = "user"
      BY <2>1 DEF Grants
    <3>2. Understood(r)
      BY <3>1 DEF Understood, UnderstoodByFamilies, UnderstoodByOffice
    <3> QED  BY <2>2, <3>2, RequestStep DEF Proceed
  <2>3. ASSUME NEW u \in UsersWith(was.email), Reusable(u),
               Proceed(q, [was EXCEPT !.at = "login", !.user = u])
        PROVE  IInv' /\ OfficeKept
    <3> PICK r : r = [was EXCEPT !.at = "login", !.user = u]
      OBVIOUS
    <3>1. HasRole(u, "guardian") /\ u \in Nat
      BY <2>3 DEF HasRole, Reusable, UsersWith, IInv, RowsHold, Counted, TypeOK
    <3>2. r \in Grants /\ r.op = "grantPortal" /\ r.at = "login" /\ r.user = u
      BY <2>1, <3>1 DEF Grants
    <3>3. Understood(r)
      BY <3>1, <3>2 DEF Understood, UnderstoodByFamilies, UnderstoodByOffice
    <3> QED  BY <2>3, <3>3, RequestStep DEF Proceed
  <2> QED  BY <1>4, <2>2, <2>3 DEF FindUser
<1>5. CASE NotYetLinked(q)
  <2> PICK was : was = request[q]
    OBVIOUS
  <2>1. was \in Grants /\ was.op = "grantPortal" /\ HasRole(was.user, "guardian")
    BY <1>5 DEF NotYetLinked, IInv, Understood, UnderstoodByFamilies
  <2> PICK r : r = [was EXCEPT !.at = "link"]
    OBVIOUS
  <2>2. r \in Grants /\ r.op = "grantPortal" /\ r.at = "link" /\ r.user = was.user
    BY <2>1 DEF Grants
  <2>3. Understood(r)
    BY <2>1, <2>2 DEF Understood, UnderstoodByFamilies, UnderstoodByOffice
  <2>4. Proceed(q, r)
    BY <1>5 DEF NotYetLinked
  <2> QED  BY <2>3, <2>4, RequestStep DEF Proceed
<1>2. CASE CreateGuardianUser(q)
  <2> PICK was : was = request[q]
    OBVIOUS
  <2>1. was \in Grants /\ was.email \in Emails
    BY <1>2 DEF CreateGuardianUser, IInv, Understood, UnderstoodByFamilies, Grants
  <2> PICK r : r = [was EXCEPT !.at = "link", !.user = NewUser]
    OBVIOUS
  <2>2. r \in Grants /\ r.op = "grantPortal" /\ r.user = NewUser
    <3>1. NewUser \in Nat
      BY DEF NewUser, IInv, RowsHold, Counted
    <3>2. r \in Grants
      BY <2>1, <3>1 DEF Grants
    <3> QED  BY <2>1, <3>2 DEF Grants
  <2>3. /\ CanCreateUser(was.email)
        /\ users' = With(users, NewUser, [email |-> was.email, role |-> "guardian"])
        /\ numbered' = [numbered EXCEPT !.users = NewUser]
        /\ request' = [request EXCEPT ![q] = r]
        /\ UNCHANGED <<student, invoiced, links, teacher>>
    BY <1>2 DEF CreateGuardianUser
  <2>4. DOMAIN request' = Slots
    BY <2>3 DEF IInv, RowsHold, TypeOK
  <2>5. RowsHold' /\ Onward /\ OfficeKept
    BY <2>1, <2>3, <2>4, LoginComes
  <2>6. HasRole(r.user, "guardian")'
    <3>1. users'[NewUser].role = "guardian" /\ NewUser \in DOMAIN users'
      BY <2>3 DEF With
    <3> QED  BY <2>2, <2>5, <3>1 DEF HasRole, RowsHold, TypeOK
  <2>7. Understood(r)'
    BY <2>2, <2>6 DEF Understood, UnderstoodByFamilies, UnderstoodByOffice
  <2> QED  BY <2>3, <2>5, <2>7, SlotsUnderstand
<1>3. CASE grantPortalAccess(q)
  <2> PICK r : r = request[q]
    OBVIOUS
  <2>1. /\ r.op = "grantPortal" /\ r.at = "link" /\ r.student \in Rows /\ r.user \in DOMAIN users
        /\ links' = With(links, numbered.links + 1, [student |-> r.student, user |-> r.user])
        /\ numbered' = [numbered EXCEPT !.links = @ + 1]
        /\ request' = [request EXCEPT ![q] = NoRequest]
        /\ UNCHANGED <<users, student, invoiced, teacher>>
    BY <1>3 DEF grantPortalAccess, End
  <2>2. users[r.user].role = "guardian"
    BY <2>1 DEF IInv, Understood, UnderstoodByFamilies, HasRole
  <2>3. numbered' = [users |-> numbered.users, links |-> numbered.links + 1]
    BY <2>1 DEF IInv, RowsHold, Counted
  <2>4. /\ DOMAIN links' = DOMAIN links \cup {numbered.links + 1}
        /\ \A k \in DOMAIN links : links'[k] = links[k]
        /\ links'[numbered.links + 1] = [student |-> r.student, user |-> r.user]
    BY <2>1 DEF With, IInv, RowsHold, Counted, TypeOK
  <2>5. TypeOK'
    BY <2>1, <2>3, <2>4 DEF IInv, RowsHold, Counted, TypeOK, Rows
  <2>6. Counted' /\ RolesHold' /\ InvoicedIsKept'
    BY <2>1, <2>2, <2>3, <2>4 DEF IInv, RowsHold, Counted, RolesHold, InvoicedIsKept, Rows
  <2>7. Onward
    BY <2>1, <2>3 DEF IInv, RowsHold, Counted, TypeOK, Onward
  <2> QED  BY <2>1, <2>5, <2>6, <2>7, IdleUnderstands, SlotsUnderstand DEF RowsHold, OfficeKept
<1> QED  BY <1>1, <1>2, <1>3, <1>4, <1>5

(* The logins that a transaction about a family takes are families', so    *)
(* nothing else refers to them.                                            *)
LEMMA FamilyLoginsGo ==
  ASSUME IInv, NEW gone, \A u \in gone : HasRole(u, "guardian"), NEW cut,
         links' = SetNull(Without(links, cut), gone), DeleteUsers(gone),
         student' \in [Students -> {"absent", "enrolled", "erased", "gone"}],
         \A k \in DOMAIN links \ cut : links[k].student \in Rows',
         invoiced \subseteq Rows', DOMAIN request' = Slots,
         UNCHANGED <<invoiced, numbered>>
  PROVE  RowsHold' /\ Onward /\ OfficeKept
<1>1. gone \subseteq 1..numbered.users
  BY DEF HasRole
<1>2. DOMAIN users' = DOMAIN users \ gone /\ \A u \in DOMAIN users' : users'[u] = users[u]
  BY DEF DeleteUsers, Without
<1>3. /\ DOMAIN teacher' = DOMAIN teacher
      /\ \A t \in DOMAIN teacher' : teacher'[t] = IF teacher[t] \in gone THEN NoUser ELSE teacher[t]
  BY DEF DeleteUsers
<1>4. OfficeKept
  BY <1>2 DEF OfficeKept, HasRole
<1>5. DOMAIN teacher' \subseteq DOMAIN teacher
  BY <1>3
<1> QED  BY <1>1, <1>2, <1>3, <1>4, <1>5, LoginsGo

(* The login of a link is a family's.                                      *)
LEMMA LinkedLogins ==
  ASSUME IInv, NEW k \in DOMAIN links
  PROVE  links[k].user = NoUser \/ HasRole(links[k].user, "guardian")
BY DEF IInv, RowsHold, TypeOK, RolesHold, HasRole

(* Revoking a portal access decides from what it read before.              *)
LEMMA RevokeSteps ==
  ASSUME IInv, NEW q \in Slots, ReadRevoke(q) \/ CountLinks(q) \/ revokePortalAccess(q)
  PROVE  IInv' /\ OfficeKept
<1>1. CASE ReadRevoke(q)
  <2> PICK k \in DOMAIN links :
        Read(q, [op |-> "revokePortal", at |-> "read", link |-> k, user |-> links[k].user])
    BY <1>1 DEF ReadRevoke
  <2> PICK r : r = [op |-> "revokePortal", at |-> "read", link |-> k, user |-> links[k].user]
    OBVIOUS
  <2>1. Understood(r)
    BY LinkedLogins DEF Understood, UnderstoodByFamilies, UnderstoodByOffice
  <2> QED  BY <2>1, RequestStep DEF Read
<1>2. CASE CountLinks(q)
  <2> PICK was : was = request[q]
    OBVIOUS
  <2> PICK r : r = [op |-> "revokePortal", at |-> "tx", links |-> {was.link},
                    logins |-> Orphans({was.user}, {was.link})]
    OBVIOUS
  <2>1. was.user = NoUser \/ HasRole(was.user, "guardian")
    BY <1>2 DEF CountLinks, IInv, Understood, UnderstoodByFamilies
  <2>2. \A u \in r.logins : HasRole(u, "guardian")
    BY <2>1 DEF Orphans
  <2>3. Understood(r)
    BY <2>2 DEF Understood, UnderstoodByFamilies, UnderstoodByOffice
  <2> QED  BY <1>2, <2>3, RequestStep DEF CountLinks, Proceed
<1>3. CASE revokePortalAccess(q)
  <2> PICK r : r = request[q]
    OBVIOUS
  <2>1. /\ r.op = "revokePortal" /\ r.at = "tx"
        /\ links' = SetNull(Without(links, r.links), r.logins)
        /\ DeleteUsers(r.logins)
        /\ request' = [request EXCEPT ![q] = NoRequest]
        /\ UNCHANGED <<student, invoiced, numbered>>
    BY <1>3 DEF revokePortalAccess, End
  <2>2. \A u \in r.logins : HasRole(u, "guardian")
    BY <2>1 DEF IInv, Understood, UnderstoodByFamilies
  <2>3. /\ DOMAIN request' = Slots
        /\ student' \in [Students -> {"absent", "enrolled", "erased", "gone"}]
        /\ \A k \in DOMAIN links \ r.links : links[k].student \in Rows'
        /\ invoiced \subseteq Rows'
    BY <2>1 DEF IInv, RowsHold, TypeOK, InvoicedIsKept, Rows
  <2>4. RowsHold' /\ Onward /\ OfficeKept
    BY <2>1, <2>2, <2>3, FamilyLoginsGo
  <2> QED  BY <2>1, <2>4, IdleUnderstands, SlotsUnderstand
<1> QED  BY <1>1, <1>2, <1>3

(* An erasure decides from what it read, and keeps invoiced students.      *)
LEMMA EraseSteps ==
  ASSUME IInv, NEW q \in Slots, ReadErase(q) \/ CountChildren(q) \/ erase(q)
  PROVE  IInv' /\ OfficeKept
<1>1. CASE ReadErase(q)
  <2> PICK s \in Rows :
        Read(q, [op |-> "erase", at |-> "read", student |-> s,
                 family |-> {links[k].user : k \in LinksOf(s)} \ {NoUser}, keeps |-> s \in invoiced])
    BY <1>1 DEF ReadErase
  <2> PICK r : r = [op |-> "erase", at |-> "read", student |-> s,
                    family |-> {links[k].user : k \in LinksOf(s)} \ {NoUser}, keeps |-> s \in invoiced]
    OBVIOUS
  <2>1. \A u \in r.family : HasRole(u, "guardian")
    BY LinkedLogins DEF LinksOf
  <2>2. Understood(r)
    BY <2>1 DEF Understood, UnderstoodByFamilies, UnderstoodByOffice, Rows
  <2> QED  BY <2>2, RequestStep DEF Read
<1>2. CASE CountChildren(q)
  <2> PICK was : was = request[q]
    OBVIOUS
  <2> PICK r : r = [op |-> "erase", at |-> "tx", student |-> was.student, keeps |-> was.keeps,
                    logins |-> Orphans(was.family, LinksOf(was.student)),
                    links |-> LinksOf(was.student)]
    OBVIOUS
  <2>1. was.student \in Students /\ \A u \in was.family : HasRole(u, "guardian")
    BY <1>2 DEF CountChildren, IInv, Understood, UnderstoodByFamilies
  <2>2. \A u \in r.logins : HasRole(u, "guardian")
    BY <2>1 DEF Orphans
  <2>3. Understood(r)
    BY <2>1, <2>2 DEF Understood, UnderstoodByFamilies, UnderstoodByOffice
  <2> QED  BY <1>2, <2>3, RequestStep DEF CountChildren, Proceed
<1>3. CASE erase(q)
  <2> PICK r : r = request[q]
    OBVIOUS
  <2> PICK cut : cut = IF r.keeps THEN r.links ELSE LinksOf(r.student)
    OBVIOUS
  <2>1. /\ r.op = "erase" /\ r.at = "tx" /\ r.student \in Rows
        /\ ~r.keeps => r.student \notin invoiced
        /\ student' = [student EXCEPT ![r.student] = IF r.keeps THEN "erased" ELSE "gone"]
        /\ links' = SetNull(Without(links, cut), r.logins)
        /\ DeleteUsers(r.logins)
        /\ request' = [request EXCEPT ![q] = NoRequest]
        /\ UNCHANGED <<invoiced, numbered>>
    BY <1>3 DEF erase, End, Deletable
  <2>2. \A u \in r.logins : HasRole(u, "guardian")
    BY <2>1 DEF IInv, Understood, UnderstoodByFamilies
  <2>3. /\ DOMAIN request' = Slots
        /\ student' \in [Students -> {"absent", "enrolled", "erased", "gone"}]
        /\ Rows' = IF r.keeps THEN Rows ELSE Rows \ {r.student}
    BY <2>1 DEF IInv, RowsHold, TypeOK, Rows
  <2>4. \A k \in DOMAIN links \ cut : links[k].student \in Rows'
    BY <2>3 DEF IInv, RowsHold, TypeOK, LinksOf
  <2>5. invoiced \subseteq Rows'
    BY <2>1, <2>3 DEF IInv, RowsHold, InvoicedIsKept
  <2>6. RowsHold' /\ Onward /\ OfficeKept
    BY <2>1, <2>2, <2>3, <2>4, <2>5, FamilyLoginsGo
  <2> QED  BY <2>1, <2>6, IdleUnderstands, SlotsUnderstand
<1> QED  BY <1>1, <1>2, <1>3

-----------------------------------------------------------------------------
(* Teachers and the office.                                                *)

(* Reading an email, a profile or a member of staff.                       *)
LEMMA OfficeReads ==
  ASSUME IInv, NEW q \in Slots,
         ReadTeacherGrant(q) \/ ReadTeacherRevoke(q) \/ ReadTeacherRemoval(q)
           \/ ReadStaff(q) \/ ReadStaffRemoval(q)
  PROVE  IInv' /\ OfficeKept
<1>1. CASE ReadTeacherGrant(q)
  <2> PICK t \in DOMAIN teacher, e \in Emails : Read(q, [op |-> "grantTeacher", teacher |-> t, email |-> e])
    BY <1>1 DEF ReadTeacherGrant
  <2> PICK r : r = [op |-> "grantTeacher", teacher |-> t, email |-> e]
    OBVIOUS
  <2>1. Understood(r)
    BY DEF Understood, UnderstoodByFamilies, UnderstoodByOffice
  <2> QED  BY <2>1, RequestStep DEF Read
<1>2. CASE ReadTeacherRevoke(q)
  <2> PICK t \in DOMAIN teacher : /\ teacher[t] # NoUser
                                  /\ Read(q, [op |-> "revokeTeacher", user |-> teacher[t]])
    BY <1>2 DEF ReadTeacherRevoke
  <2> PICK r : r = [op |-> "revokeTeacher", user |-> teacher[t]]
    OBVIOUS
  <2>1. HasRole(r.user, "teacher")
    BY DEF IInv, RowsHold, TypeOK, RolesHold, HasRole
  <2>2. Understood(r)
    BY <2>1 DEF Understood, UnderstoodByFamilies, UnderstoodByOffice
  <2> QED  BY <2>2, RequestStep DEF Read
<1>3. CASE ReadTeacherRemoval(q)
  <2> PICK t \in DOMAIN teacher : Read(q, [op |-> "removeTeacher", teacher |-> t, user |-> teacher[t]])
    BY <1>3 DEF ReadTeacherRemoval
  <2> PICK r : r = [op |-> "removeTeacher", teacher |-> t, user |-> teacher[t]]
    OBVIOUS
  <2>1. r.user # NoUser => /\ HasRole(r.user, "teacher")
                           /\ \A v \in DOMAIN teacher : teacher[v] = r.user => v = t
    BY DEF IInv, RowsHold, TypeOK, RolesHold, HasRole
  <2>2. Understood(r)
    BY <2>1 DEF Understood, UnderstoodByFamilies, UnderstoodByOffice
  <2> QED  BY <2>2, RequestStep DEF Read
<1>4. CASE ReadStaff(q)
  <2> PICK e \in Emails : Read(q, [op |-> "createStaff", email |-> e])
    BY <1>4 DEF ReadStaff
  <2> PICK r : r = [op |-> "createStaff", email |-> e]
    OBVIOUS
  <2>1. Understood(r)
    BY DEF Understood, UnderstoodByFamilies, UnderstoodByOffice
  <2> QED  BY <2>1, RequestStep DEF Read
<1>5. CASE ReadStaffRemoval(q)
  <2> PICK u \in DOMAIN users : users[u].role = "staff" /\ Read(q, [op |-> "removeStaff", user |-> u])
    BY <1>5 DEF ReadStaffRemoval
  <2> PICK r : r = [op |-> "removeStaff", user |-> u]
    OBVIOUS
  <2>1. HasRole(u, "staff")
    BY DEF IInv, RowsHold, TypeOK, HasRole
  <2>2. Understood(r)
    BY <2>1 DEF Understood, UnderstoodByFamilies, UnderstoodByOffice
  <2> QED  BY <2>2, RequestStep DEF Read
<1> QED  BY <1>1, <1>2, <1>3, <1>4, <1>5

(* A login comes: a teacher's with its profile, or one of the office.      *)
LEMMA OfficeLoginComes ==
  ASSUME IInv, NEW q \in Slots, grantAccess(q) \/ CreateStaff(q)
  PROVE  IInv' /\ OfficeKept
<1> PICK r : r = request[q]
  OBVIOUS
<1>1. r.op \in {"grantTeacher", "createStaff"} /\ CanCreateUser(r.email)
      /\ request' = [request EXCEPT ![q] = NoRequest]
      /\ numbered' = [numbered EXCEPT !.users = NewUser]
      /\ UNCHANGED <<student, invoiced, links>>
  BY DEF grantAccess, CreateStaff, End
<1>2. r.email \in Emails
  BY <1>1 DEF IInv, Understood, UnderstoodByOffice
<1>3. DOMAIN request' = Slots
  BY <1>1 DEF IInv, RowsHold, TypeOK
<1>4. RowsHold' /\ Onward /\ OfficeKept
  <2>1. CASE grantAccess(q)
    <3>1. /\ users' = With(users, NewUser, [email |-> r.email, role |-> "teacher"])
          /\ r.teacher \in DOMAIN teacher /\ teacher' = [teacher EXCEPT ![r.teacher] = NewUser]
      BY <2>1 DEF grantAccess
    <3>2. DOMAIN teacher' = DOMAIN teacher
      BY <3>1
    <3> QED  BY <1>1, <1>2, <1>3, <3>1, <3>2, LoginComes
  <2>2. CASE CreateStaff(q)
    BY <1>1, <1>2, <1>3, <2>2, LoginComes DEF CreateStaff
  <2> QED  BY <2>1, <2>2
<1> QED  BY <1>1, <1>4, IdleUnderstands, SlotsUnderstand

(* A login goes.  RemoveTeacher takes the profile too, and no other has it.*)
LEMMA OfficeLoginGoes ==
  ASSUME IInv, NEW q \in Slots, revokeAccess(q) \/ RemoveTeacher(q) \/ RemoveStaff(q)
  PROVE  IInv' /\ OfficeKept
<1> PICK r : r = request[q]
  OBVIOUS
<1> PICK gone : gone = LoginOf(r)
  OBVIOUS
<1>1. /\ r.op \in {"revokeTeacher", "removeTeacher", "removeStaff"}
      /\ r.op \in {"revokeTeacher", "removeStaff"} => r.user \in DOMAIN users
      /\ request' = [request EXCEPT ![q] = NoRequest]
      /\ UNCHANGED <<student, invoiced, numbered>>
  BY DEF revokeAccess, RemoveTeacher, RemoveStaff, End
<1>2. \A u \in gone : HasRole(u, IF r.op = "removeStaff" THEN "staff" ELSE "teacher")
  BY <1>1 DEF IInv, Understood, UnderstoodByOffice, LoginOf
<1>3. r.op \in {"revokeTeacher", "removeStaff"} => gone = {r.user}
  BY <1>1, 0 \notin 1..numbered.users DEF IInv, RowsHold, TypeOK, LoginOf, NoUser
<1>4. /\ DOMAIN users' = DOMAIN users \ gone
      /\ \A u \in DOMAIN users' : users'[u] = users[u]
      /\ links' = SetNull(links, gone)
  BY <1>1, <1>3 DEF revokeAccess, RemoveTeacher, RemoveStaff, DeleteUsers, Without
<1>5. /\ DOMAIN teacher' \subseteq DOMAIN teacher
      /\ \A t \in DOMAIN teacher' : teacher'[t] = IF teacher[t] \in gone THEN NoUser ELSE teacher[t]
  <2>1. CASE r.op = "removeTeacher"
    <3>1. teacher' = Without(teacher, {r.teacher})
      BY <2>1 DEF revokeAccess, RemoveTeacher, RemoveStaff
    <3>2. \A t \in DOMAIN teacher \ {r.teacher} : teacher[t] \notin gone
      BY <2>1 DEF IInv, Understood, UnderstoodByOffice, LoginOf
    <3> QED  BY <3>1, <3>2 DEF Without
  <2>2. CASE r.op \in {"revokeTeacher", "removeStaff"}
    BY <1>3, <2>2 DEF revokeAccess, RemoveTeacher, RemoveStaff, DeleteUsers
  <2> QED  BY <1>1, <2>1, <2>2
<1>6. gone \subseteq 1..numbered.users
  BY <1>2 DEF HasRole
<1>7. /\ DOMAIN request' = Slots /\ invoiced \subseteq Rows'
      /\ student' \in [Students -> {"absent", "enrolled", "erased", "gone"}]
      /\ \A k \in DOMAIN links : links[k].student \in Rows'
  BY <1>1 DEF IInv, RowsHold, TypeOK, InvoicedIsKept, Rows
<1>8. links' = SetNull(Without(links, {}), gone)
  BY <1>4 DEF SetNull, Without
<1>9. RowsHold' /\ Onward
  BY <1>1, <1>4, <1>5, <1>6, <1>7, <1>8, LoginsGo
<1>10. OfficeKept
  BY <1>1, <1>2, <1>4 DEF OfficeKept, HasRole
<1> QED  BY <1>1, <1>9, <1>10, IdleUnderstands, SlotsUnderstand

-----------------------------------------------------------------------------
(* Every step, and what holds however many requests overlap.               *)

(* Only the administrator has a login, and nothing refers to it.           *)
LEMMA InitialAccounts == Init => IInv
<1> SUFFICES ASSUME Init  PROVE IInv
  OBVIOUS
<1>1. PICK e \in Emails : users = [u \in {Admin} |-> [email |-> e, role |-> "admin"]]
  BY DEF Init
<1>2. TypeOK
  BY <1>1 DEF Init, TypeOK, Admin, Rows, NoUser
<1>3. Counted /\ RolesHold /\ InvoicedIsKept
  BY DEF Init, Counted, RolesHold, InvoicedIsKept, NoUser
<1>4. \A q \in Slots : Understood(request[q])
  BY DEF Init, Understood, UnderstoodByFamilies, UnderstoodByOffice, NoRequest
<1> QED  BY <1>2, <1>3, <1>4 DEF IInv, RowsHold

(* Every step of every request keeps it, and takes only removed staff from *)
(* the office.                                                             *)
LEMMA EveryStep == IInv /\ [Next]_vars => IInv' /\ (OfficeKept \/ UNCHANGED vars)
<1> SUFFICES ASSUME IInv, [Next]_vars  PROVE IInv' /\ (OfficeKept \/ UNCHANGED vars)
  OBVIOUS
<1>1. CASE create \/ Issue \/ CreateTeacher
  BY <1>1, createStep, IssueStep, CreateTeacherStep
<1>2. ASSUME NEW q \in Slots,
             \/ BeginImport(q) \/ ImportRow(q) \/ EndImport(q) \/ ReadRemove(q) \/ remove(q)
             \/ ReadGrant(q) \/ FindUser(q) \/ NotYetLinked(q)
             \/ CreateGuardianUser(q) \/ grantPortalAccess(q)
             \/ ReadRevoke(q) \/ CountLinks(q) \/ revokePortalAccess(q)
             \/ ReadErase(q) \/ CountChildren(q) \/ erase(q) \/ Fail(q)
      PROVE  IInv' /\ OfficeKept
  BY <1>2, ImportSteps, RemoveSteps, GrantSteps, RevokeSteps, EraseSteps, FailStep
<1>3. ASSUME NEW q \in Slots,
             \/ ReadTeacherGrant(q) \/ grantAccess(q) \/ ReadTeacherRevoke(q) \/ revokeAccess(q)
             \/ ReadTeacherRemoval(q) \/ RemoveTeacher(q)
             \/ ReadStaff(q) \/ CreateStaff(q) \/ ReadStaffRemoval(q) \/ RemoveStaff(q)
      PROVE  IInv' /\ OfficeKept
  BY <1>3, OfficeReads, OfficeLoginComes, OfficeLoginGoes
<1>4. CASE UNCHANGED vars
  <2>1. RowsHold' /\ Onward /\ UNCHANGED request
    BY <1>4 DEF vars, IInv, RowsHold, TypeOK, Counted, RolesHold, InvoicedIsKept, Rows, Onward
  <2> QED  BY <1>4, <2>1, OthersUnderstand
<1> QED  BY <1>1, <1>2, <1>3, <1>4 DEF Next

(* However many requests overlap, each goes on understanding what it read. *)
THEOREM UnderstandingHolds == Spec => []IInv
BY InitialAccounts, EveryStep, PTL DEF Spec

(* Every reference is to a row that exists and an email has one login,     *)
(* whatever is created, revoked and erased at the same time.               *)
THEOREM AccountTypes == Spec => []TypeOK
<1>1. IInv => TypeOK
  BY DEF IInv, RowsHold
<1> QED  BY <1>1, UnderstandingHolds, PTL

(* A student invoiced while an erasure that found no invoices is under way *)
(* is kept: the deletion fails.                                            *)
THEOREM InvoicedStudentsAreKept == Spec => []InvoicedIsKept
<1>1. IInv => InvoicedIsKept
  BY DEF IInv, RowsHold
<1> QED  BY <1>1, UnderstandingHolds, PTL

(* No revocation, erasure or removal ends a login of the office, except    *)
(* that of a member of staff when removed: with any number of requests.    *)
THEOREM OfficeIsNeverLockedOut == Spec => OfficeStays
<1>1. IInv /\ [Next]_vars => [OfficeKept]_vars
  BY EveryStep
<1>2. [][OfficeKept]_vars <=> OfficeStays
  BY DEF OfficeKept, OfficeStays
<1> QED  BY <1>1, <1>2, UnderstandingHolds, PTL DEF Spec

-----------------------------------------------------------------------------
(* One at a time.                                                          *)

(* A slot is filled, goes on with its request, or is idle again.           *)
LEMMA RequestMoves ==
  ASSUME IInv, Next
  PROVE  \/ UNCHANGED request
         \/ \E q \in Slots : \E r : /\ request' = [request EXCEPT ![q] = r]
                                    /\ r = NoRequest \/ Began(q, r) \/ WentOn(q, r)
<1>1. CASE create \/ Issue \/ CreateTeacher
  BY <1>1 DEF create, Issue, CreateTeacher
<1>2. ASSUME NEW q \in Slots, \E r : Read(q, r) /\ KnowsProfile(r) /\ KnowsFamily(r)
      PROVE  \E r : request' = [request EXCEPT ![q] = r] /\ Began(q, r)
  BY <1>2 DEF Read, Began
<1>3. ASSUME NEW q \in Slots,
             \/ BeginImport(q) \/ ReadRemove(q) \/ ReadGrant(q) \/ ReadRevoke(q) \/ ReadErase(q)
             \/ ReadTeacherGrant(q) \/ ReadTeacherRevoke(q) \/ ReadTeacherRemoval(q)
             \/ ReadStaff(q) \/ ReadStaffRemoval(q)
      PROVE  \E r : Read(q, r) /\ KnowsProfile(r) /\ KnowsFamily(r)
  <2>1. CASE ReadTeacherGrant(q)
    <3>1. \E r : Read(q, r) /\ r.op = "grantTeacher" /\ r.teacher \in DOMAIN teacher /\ teacher[r.teacher] = NoUser
      BY <2>1 DEF ReadTeacherGrant
    <3> QED  BY <3>1 DEF KnowsProfile, KnowsFamily
  <2>2. CASE ReadTeacherRemoval(q)
    <3>1. \E r : Read(q, r) /\ r.op = "removeTeacher" /\ r.teacher \in DOMAIN teacher /\ teacher[r.teacher] = r.user
      BY <2>2 DEF ReadTeacherRemoval
    <3> QED  BY <3>1 DEF KnowsProfile, KnowsFamily
  <2>3. CASE ReadRevoke(q)
    <3>1. \E r : Read(q, r) /\ r.op = "revokePortal" /\ r.at = "read" /\ r.link \in DOMAIN links
                   /\ links[r.link].user = r.user
      BY <2>3 DEF ReadRevoke
    <3> QED  BY <3>1 DEF KnowsProfile, KnowsFamily
  <2>4. CASE ReadErase(q)
    <3>1. \E r : Read(q, r) /\ r.op = "erase" /\ r.at = "read"
                   /\ r.family = {links[k].user : k \in LinksOf(r.student)} \ {NoUser}
      BY <2>4 DEF ReadErase
    <3> QED  BY <3>1 DEF KnowsProfile, KnowsFamily
  <2>5. ASSUME NEW r, r.op \in {"import", "remove", "grantPortal", "revokeTeacher", "createStaff", "removeStaff"},
               Read(q, r)
        PROVE  \E w : Read(q, w) /\ KnowsProfile(w) /\ KnowsFamily(w)
    BY <2>5 DEF KnowsProfile, KnowsFamily
  <2>6. CASE BeginImport(q)
    <3>1. \E r : Read(q, r) /\ r.op = "import"
      BY <2>6 DEF BeginImport
    <3> QED  BY <2>5, <3>1
  <2>7. CASE ReadRemove(q)
    <3>1. \E r : Read(q, r) /\ r.op = "remove"
      BY <2>7 DEF ReadRemove
    <3> QED  BY <2>5, <3>1
  <2>8. CASE ReadGrant(q)
    <3>1. \E r : Read(q, r) /\ r.op = "grantPortal"
      BY <2>8 DEF ReadGrant
    <3> QED  BY <2>5, <3>1
  <2>9. CASE ReadTeacherRevoke(q)
    <3>1. \E r : Read(q, r) /\ r.op = "revokeTeacher"
      BY <2>9 DEF ReadTeacherRevoke
    <3> QED  BY <2>5, <3>1
  <2>10. CASE ReadStaff(q)
    <3>1. \E r : Read(q, r) /\ r.op = "createStaff"
      BY <2>10 DEF ReadStaff
    <3> QED  BY <2>5, <3>1
  <2>11. CASE ReadStaffRemoval(q)
    <3>1. \E r : Read(q, r) /\ r.op = "removeStaff"
      BY <2>11 DEF ReadStaffRemoval
    <3> QED  BY <2>5, <3>1
  <2> QED  BY <1>3, <2>1, <2>2, <2>3, <2>4, <2>6, <2>7, <2>8, <2>9, <2>10, <2>11
<1>4. ASSUME NEW q \in Slots,
             \/ EndImport(q) \/ remove(q) \/ grantPortalAccess(q) \/ revokePortalAccess(q) \/ erase(q)
             \/ grantAccess(q) \/ revokeAccess(q) \/ RemoveTeacher(q) \/ CreateStaff(q) \/ RemoveStaff(q)
             \/ Fail(q)
      PROVE  request' = [request EXCEPT ![q] = NoRequest]
  BY <1>4 DEF EndImport, remove, grantPortalAccess, revokePortalAccess, erase, grantAccess,
              revokeAccess, RemoveTeacher, CreateStaff, RemoveStaff, Fail, Proceed, End
<1>5. ASSUME NEW q \in Slots, CountLinks(q) \/ CountChildren(q)
      PROVE  \E r : request' = [request EXCEPT ![q] = r] /\ WentOn(q, r)
  <2> PICK was : was = request[q]
    OBVIOUS
  <2>1. CASE CountLinks(q)
    <3> PICK r : r = [op |-> "revokePortal", at |-> "tx", links |-> {was.link},
                      logins |-> Orphans({was.user}, {was.link})]
      OBVIOUS
    <3>1. was.op = "revokePortal" /\ was.at = "read" /\ request' = [request EXCEPT ![q] = r]
      BY <2>1 DEF CountLinks, Proceed
    <3>2. KnowsFamily(was) => Counts(r)
      BY <3>1 DEF KnowsFamily, Counts, Orphans
    <3>3. WentOn(q, r)
      BY <3>1, <3>2 DEF WentOn, KnowsFamily
    <3> QED  BY <3>1, <3>3
  <2>2. CASE CountChildren(q)
    <3> PICK r : r = [op |-> "erase", at |-> "tx", student |-> was.student, keeps |-> was.keeps,
                      logins |-> Orphans(was.family, LinksOf(was.student)),
                      links |-> LinksOf(was.student)]
      OBVIOUS
    <3>1. was.op = "erase" /\ was.at = "read" /\ request' = [request EXCEPT ![q] = r]
      BY <2>2 DEF CountChildren, Proceed
    <3>2. KnowsFamily(was) => Counts(r)
      BY <3>1 DEF KnowsFamily, Counts, Orphans, LinksOf
    <3>3. WentOn(q, r)
      BY <3>1, <3>2 DEF WentOn, KnowsFamily
    <3> QED  BY <3>1, <3>3
  <2> QED  BY <1>5, <2>1, <2>2
<1>6. ASSUME NEW q \in Slots, ImportRow(q)
      PROVE  \E r : request' = [request EXCEPT ![q] = r] /\ WentOn(q, r)
  <2>1. request[q] \in Imports
    BY <1>6 DEF ImportRow, IInv, Understood, UnderstoodByOffice
  <2>2. \E r : request' = [request EXCEPT ![q] = r] /\ r.op = "import"
    BY <1>6, <2>1 DEF ImportRow, Imports
  <2>3. request[q].op = "import"
    BY <2>1 DEF Imports
  <2> QED  BY <2>2, <2>3 DEF WentOn, KnowsFamily
<1>7. ASSUME NEW q \in Slots, CreateGuardianUser(q)
      PROVE  \E r : request' = [request EXCEPT ![q] = r] /\ WentOn(q, r)
  <2> PICK was : was = request[q]
    OBVIOUS
  <2> PICK r : r = [was EXCEPT !.at = "link", !.user = NewUser]
    OBVIOUS
  <2>1. was \in Grants
    BY <1>7 DEF CreateGuardianUser, IInv, Understood, UnderstoodByFamilies
  <2>2. r.op = "grantPortal" /\ was.op = "grantPortal"
    BY <2>1 DEF Grants
  <2>3. request' = [request EXCEPT ![q] = r]
    BY <1>7 DEF CreateGuardianUser
  <2> QED  BY <2>2, <2>3 DEF WentOn, KnowsFamily
<1>8. ASSUME NEW q \in Slots, FindUser(q) \/ NotYetLinked(q)
      PROVE  \E r : request' = [request EXCEPT ![q] = r] /\ WentOn(q, r)
  <2> PICK was : was = request[q]
    OBVIOUS
  <2>1. was \in Grants
    BY <1>8 DEF FindUser, NotYetLinked, IInv, Understood, UnderstoodByFamilies
  <2>2. ASSUME NEW r \in Grants, request' = [request EXCEPT ![q] = r]
        PROVE  \E w : request' = [request EXCEPT ![q] = w] /\ WentOn(q, w)
    <3>1. r.op = "grantPortal" /\ was.op = "grantPortal"
      BY <2>1, <2>2 DEF Grants
    <3> QED  BY <2>2, <3>1 DEF WentOn, KnowsFamily
  <2>3. CASE Proceed(q, [was EXCEPT !.at = "user"])
    <3>1. [was EXCEPT !.at = "user"] \in Grants
      BY <2>1 DEF Grants
    <3> QED  BY <2>2, <2>3, <3>1 DEF Proceed
  <2>4. ASSUME NEW u \in UsersWith(was.email), Proceed(q, [was EXCEPT !.at = "login", !.user = u])
        PROVE  \E w : request' = [request EXCEPT ![q] = w] /\ WentOn(q, w)
    <3>1. u \in Nat
      BY DEF UsersWith, IInv, RowsHold, Counted, TypeOK
    <3>2. [was EXCEPT !.at = "login", !.user = u] \in Grants
      BY <2>1, <3>1 DEF Grants
    <3> QED  BY <2>2, <2>4, <3>2 DEF Proceed
  <2>5. CASE Proceed(q, [was EXCEPT !.at = "link"])
    <3>1. [was EXCEPT !.at = "link"] \in Grants
      BY <2>1 DEF Grants
    <3> QED  BY <2>2, <2>5, <3>1 DEF Proceed
  <2> QED  BY <1>8, <2>3, <2>4, <2>5 DEF FindUser, NotYetLinked
<1> QED  BY <1>1, <1>2, <1>3, <1>4, <1>5, <1>6, <1>7, <1>8 DEF Next

(* Requests of kinds that wait for each other are never in progress        *)
(* together.                                                               *)
LEMMA OneAtATime ==
  ASSUME NEW Kind \in SUBSET Ops, Overlapping \cap (Kind \X Kind) = {},
         IInv, \A p, q \in Slots : request[p].op \in Kind /\ request[q].op \in Kind => p = q, Next
  PROVE  \A p, q \in Slots : request'[p].op \in Kind /\ request'[q].op \in Kind => p = q
<1>1. NoRequest.op \notin Kind
  BY DEF NoRequest, Ops
<1>2. CASE UNCHANGED request
  BY <1>2
<1>3. ASSUME NEW q \in Slots, NEW r, request' = [request EXCEPT ![q] = r],
             r = NoRequest \/ Began(q, r) \/ WentOn(q, r)
      PROVE  \A p, v \in Slots : request'[p].op \in Kind /\ request'[v].op \in Kind => p = v
  <2>1. \A p \in Slots : request'[p] = IF p = q THEN r ELSE request[p]
    BY <1>3 DEF IInv, RowsHold, TypeOK
  <2>2. CASE r = NoRequest \/ WentOn(q, r)
    BY <1>1, <2>1, <2>2 DEF WentOn
  <2>3. CASE Began(q, r)
    <3>1. ASSUME r.op \in Kind, NEW p \in Slots, request[p].op \in Kind  PROVE FALSE
      <4>1. <<r.op, request[p].op>> \in Overlapping
        BY <1>1, <2>3, <3>1 DEF Began, MayStart
      <4>2. <<r.op, request[p].op>> \in Kind \X Kind
        BY <3>1
      <4> QED  BY <4>1, <4>2
    <3> QED  BY <2>1, <3>1
  <2> QED  BY <1>3, <2>2, <2>3
<1> QED  BY <1>2, <1>3, RequestMoves

-----------------------------------------------------------------------------
(* Profiles.                                                               *)

(* What is not about a profile leaves the profiles, and gives no teacher   *)
(* a login.                                                                *)
LEMMA OthersLeaveProfiles ==
  ASSUME IInv, Next, ~ \E q \in Slots : grantAccess(q) \/ revokeAccess(q) \/ RemoveTeacher(q)
  PROVE  ProfilesUntouched
<1>1. CASE create \/ Issue \/ CreateTeacher
  BY <1>1 DEF create, Issue, CreateTeacher, With, ProfilesUntouched
<1>2. CASE UNCHANGED <<users, teacher>>
  BY <1>2 DEF ProfilesUntouched
<1>3. ASSUME NEW email \in Emails, NEW role \in {"staff", "guardian"},
             users' = With(users, NewUser, [email |-> email, role |-> role]), UNCHANGED teacher
      PROVE  ProfilesUntouched
  BY <1>3 DEF With, ProfilesUntouched
<1>4. ASSUME NEW gone, NEW role \in {"staff", "guardian"}, \A u \in gone : HasRole(u, role),
             DeleteUsers(gone)
      PROVE  ProfilesUntouched
  <2>1. \A t \in DOMAIN teacher : teacher[t] \notin gone
    BY <1>4 DEF IInv, RowsHold, RolesHold, TypeOK, HasRole, NoUser
  <2> QED  BY <1>4, <2>1 DEF DeleteUsers, Without, ProfilesUntouched
<1>5. ASSUME NEW q \in Slots, CreateGuardianUser(q) \/ CreateStaff(q)
      PROVE  ProfilesUntouched
  <2> PICK e : e = request[q].email
    OBVIOUS
  <2>1. e \in Emails
    BY <1>5 DEF CreateGuardianUser, CreateStaff, IInv, Understood, UnderstoodByFamilies,
                UnderstoodByOffice, Grants
  <2> QED  BY <1>3, <1>5, <2>1 DEF CreateGuardianUser, CreateStaff
<1>6. ASSUME NEW q \in Slots, revokePortalAccess(q) \/ erase(q)
      PROVE  ProfilesUntouched
  <2> PICK gone : gone = request[q].logins
    OBVIOUS
  <2>1. \A u \in gone : HasRole(u, "guardian")
    BY <1>6 DEF revokePortalAccess, erase, IInv, Understood, UnderstoodByFamilies
  <2> QED  BY <1>4, <1>6, <2>1 DEF revokePortalAccess, erase
<1>7. ASSUME NEW q \in Slots, RemoveStaff(q)
      PROVE  ProfilesUntouched
  <2> PICK u : u = request[q].user
    OBVIOUS
  <2>1. HasRole(u, "staff") /\ DeleteUsers({u})
    BY <1>7 DEF RemoveStaff, IInv, Understood, UnderstoodByOffice
  <2> QED  BY <1>4, <2>1
<1>8. ASSUME NEW q \in Slots,
             \/ BeginImport(q) \/ ImportRow(q) \/ EndImport(q) \/ ReadRemove(q) \/ remove(q)
             \/ ReadGrant(q) \/ FindUser(q) \/ NotYetLinked(q) \/ grantPortalAccess(q)
             \/ ReadRevoke(q) \/ CountLinks(q)
             \/ ReadErase(q) \/ CountChildren(q) \/ Fail(q)
             \/ ReadTeacherGrant(q) \/ ReadTeacherRevoke(q) \/ ReadTeacherRemoval(q)
             \/ ReadStaff(q) \/ ReadStaffRemoval(q)
      PROVE  UNCHANGED <<users, teacher>>
  BY <1>8 DEF BeginImport, ImportRow, EndImport, ReadRemove, remove, ReadGrant, FindUser,
              NotYetLinked, grantPortalAccess,
              ReadRevoke, CountLinks, ReadErase, CountChildren, Fail, ReadTeacherGrant,
              ReadTeacherRevoke, ReadTeacherRemoval, ReadStaff, ReadStaffRemoval, Read, Proceed
<1> QED  BY <1>1, <1>2, <1>5, <1>6, <1>7, <1>8 DEF Next

(* Grants, revocations and removals of profiles that wait for each other   *)
(* find the profile they read, and leave no teacher's login without one.   *)
LEMMA ProfilesStep ==
  ASSUME Overlapping \cap (Profiles \X Profiles) = {}, IInv, ProfilesAlone, Next
  PROVE  ProfilesAlone'
<1>1. \A p, q \in Slots : request'[p].op \in Profiles /\ request'[q].op \in Profiles => p = q
  <2>1. Profiles \in SUBSET Ops
    BY DEF Profiles, Ops
  <2>2. \A p, q \in Slots : request[p].op \in Profiles /\ request[q].op \in Profiles => p = q
    BY DEF ProfilesAlone
  <2> HIDE DEF Profiles
  <2> QED  BY <2>1, <2>2, OneAtATime
<1>2. CASE ~ \E q \in Slots : grantAccess(q) \/ revokeAccess(q) \/ RemoveTeacher(q)
  <2>1. ProfilesUntouched
    BY <1>2, OthersLeaveProfiles
  <2>2. ASSUME NEW r, KnowsProfile(r)  PROVE KnowsProfile(r)'
    BY <2>1, <2>2 DEF KnowsProfile, ProfilesUntouched
  <2>3. ASSUME NEW p \in Slots  PROVE KnowsProfile(request[p])'
    <3> PICK was : was = request[p]
      OBVIOUS
    <3>1. KnowsProfile(was)'
      BY <2>2 DEF ProfilesAlone
    <3>2. CASE UNCHANGED request
      BY <3>1, <3>2
    <3>3. ASSUME NEW q \in Slots, NEW r, request' = [request EXCEPT ![q] = r],
                 r = NoRequest \/ Began(q, r) \/ WentOn(q, r)
          PROVE  KnowsProfile(request[p])'
      <4>1. request'[p] = IF p = q THEN r ELSE was
        BY <3>3 DEF IInv, RowsHold, TypeOK
      <4>2. KnowsProfile(r)
        BY <3>3 DEF Began, WentOn, KnowsProfile, NoRequest
      <4>3. KnowsProfile(r)'
        BY <2>2, <4>2
      <4> QED  BY <3>1, <4>1, <4>3
    <3> QED  BY <3>2, <3>3, RequestMoves
  <2>4. TeacherHasProfile'
    BY <2>1 DEF ProfilesAlone, ProfilesUntouched, TeacherHasProfile
  <2> QED  BY <1>1, <2>3, <2>4 DEF ProfilesAlone
<1>3. ASSUME NEW q \in Slots, grantAccess(q) \/ revokeAccess(q) \/ RemoveTeacher(q)
      PROVE  ProfilesAlone'
  <2> PICK r : r = request[q]
    OBVIOUS
  <2>1. r.op \in Profiles /\ request' = [request EXCEPT ![q] = NoRequest]
    BY <1>3 DEF grantAccess, revokeAccess, RemoveTeacher, End, Profiles
  <2>2. \A p \in Slots : request'[p].op \notin {"grantTeacher", "removeTeacher"}
    BY <2>1 DEF ProfilesAlone, Profiles, NoRequest, IInv, RowsHold, TypeOK
  <2>3. \A p \in Slots : KnowsProfile(request[p])'
    BY <2>2 DEF KnowsProfile
  <2>4. KnowsProfile(r)
    BY DEF ProfilesAlone
  <2>5. 0 \notin DOMAIN users
    BY DEF IInv, RowsHold, TypeOK
  <2>6. TeacherHasProfile'
    <3>1. CASE grantAccess(q)
      <4>1. /\ users' = With(users, NewUser, [email |-> r.email, role |-> "teacher"])
            /\ r.teacher \in DOMAIN teacher /\ teacher[r.teacher] = NoUser
            /\ teacher' = [teacher EXCEPT ![r.teacher] = NewUser]
        BY <2>4, <3>1 DEF grantAccess, KnowsProfile
      <4>2. \A u \in DOMAIN users' : u = NewUser \/ (u \in DOMAIN users /\ users'[u] = users[u])
        BY <4>1 DEF With
      <4> QED  BY <2>5, <4>1, <4>2 DEF ProfilesAlone, TeacherHasProfile, NoUser
    <3>2. CASE revokeAccess(q)
      <4>1. users' = Without(users, {r.user})
            /\ teacher' = [t \in DOMAIN teacher |-> IF teacher[t] \in {r.user} THEN NoUser ELSE teacher[t]]
        BY <3>2 DEF revokeAccess, DeleteUsers
      <4> QED  BY <4>1 DEF ProfilesAlone, TeacherHasProfile, Without
    <3>3. CASE RemoveTeacher(q)
      <4>1. /\ users' = Without(users, {r.user} \ {NoUser}) /\ teacher' = Without(teacher, {r.teacher})
            /\ teacher[r.teacher] = r.user
        BY <2>4, <3>3 DEF RemoveTeacher, LoginOf, KnowsProfile
      <4> QED  BY <2>5, <4>1 DEF ProfilesAlone, TeacherHasProfile, Without, NoUser
    <3> QED  BY <1>3, <3>1, <3>2, <3>3
  <2> QED  BY <1>1, <2>3, <2>6 DEF ProfilesAlone
<1> QED  BY <1>2, <1>3

-----------------------------------------------------------------------------
(* Families.                                                               *)

(* What is not about a family leaves every link to whom it led: the login  *)
(* of a teacher or of the office is nobody's guardian.                     *)
LEMMA OthersLeaveLinks ==
  ASSUME IInv, Next,
         ~ \E q \in Slots : remove(q) \/ grantPortalAccess(q) \/ revokePortalAccess(q) \/ erase(q)
  PROVE  LinksUntouched
<1>1. CASE UNCHANGED links
  BY <1>1 DEF LinksUntouched
<1>2. ASSUME NEW q \in Slots, revokeAccess(q) \/ RemoveTeacher(q) \/ RemoveStaff(q)
      PROVE  LinksUntouched
  <2> PICK r : r = request[q]
    OBVIOUS
  <2>1. r.op \in {"revokeTeacher", "removeTeacher", "removeStaff"}
    BY <1>2 DEF revokeAccess, RemoveTeacher, RemoveStaff
  <2>2. links' = SetNull(links, {r.user}) \/ links' = SetNull(links, LoginOf(r))
    BY <1>2 DEF revokeAccess, RemoveTeacher, RemoveStaff
  <2> PICK role \in {"teacher", "staff"} : role = IF r.op = "removeStaff" THEN "staff" ELSE "teacher"
    OBVIOUS
  <2>3. \A u \in LoginOf(r) : HasRole(u, role)
    BY <2>1 DEF IInv, Understood, UnderstoodByOffice, LoginOf
  <2>4. r.op # "removeTeacher" => HasRole(r.user, role)
    BY <2>1 DEF IInv, Understood, UnderstoodByOffice
  <2>5. r.op = "removeTeacher" => links' = SetNull(links, LoginOf(r))
    BY <1>2 DEF revokeAccess, RemoveTeacher, RemoveStaff
  <2> PICK gone : links' = SetNull(links, gone) /\ \A u \in gone : HasRole(u, role)
    BY <2>2, <2>3, <2>4, <2>5
  <2>6. \A k \in DOMAIN links : links[k].user \notin gone
    BY DEF IInv, RowsHold, RolesHold, TypeOK, HasRole, NoUser
  <2> QED  BY <2>6 DEF SetNull, LinksUntouched
<1>3. CASE create \/ Issue \/ CreateTeacher
  BY <1>1, <1>3 DEF create, Issue, CreateTeacher
<1>4. ASSUME NEW q \in Slots,
             \/ BeginImport(q) \/ ImportRow(q) \/ EndImport(q) \/ ReadRemove(q)
             \/ ReadGrant(q) \/ FindUser(q) \/ NotYetLinked(q) \/ CreateGuardianUser(q)
             \/ ReadRevoke(q) \/ CountLinks(q)
             \/ ReadErase(q) \/ CountChildren(q) \/ Fail(q)
             \/ ReadTeacherGrant(q) \/ grantAccess(q) \/ ReadTeacherRevoke(q) \/ ReadTeacherRemoval(q)
             \/ ReadStaff(q) \/ CreateStaff(q) \/ ReadStaffRemoval(q)
      PROVE  UNCHANGED links
  BY <1>4 DEF BeginImport, ImportRow, EndImport, ReadRemove, ReadGrant, FindUser,
              NotYetLinked, CreateGuardianUser,
              ReadRevoke, CountLinks, ReadErase, CountChildren, Fail, ReadTeacherGrant, grantAccess,
              ReadTeacherRevoke, ReadTeacherRemoval, ReadStaff, CreateStaff, ReadStaffRemoval,
              Read, Proceed
<1> QED  BY <1>1, <1>2, <1>3, <1>4 DEF Next

(* A login that goes had no link but those that go with it, and the login  *)
(* of a link that goes either goes too or has another link.                *)
LEMMA CountedRight ==
  ASSUME IInv, NEW gone, NEW cut, \A u \in gone : HasRole(u, "guardian"),
         \A u \in gone : LinksTo(u) \subseteq cut,
         \A k \in cut : /\ k \in DOMAIN links
                        /\ links[k].user \in gone \cup {NoUser} \/ ~(LinksTo(links[k].user) \subseteq cut),
         links' = SetNull(Without(links, cut), gone), DeleteUsers(gone)
  PROVE  /\ \A k \in DOMAIN links \cap DOMAIN links' : links'[k] = links[k]
         /\ Childless' \subseteq Childless
<1> PICK rest : rest = Without(links, cut)
  OBVIOUS
<1>1. DOMAIN rest = DOMAIN links \ cut /\ \A k \in DOMAIN rest : rest[k] = links[k]
  BY DEF Without
<1>2. \A k \in DOMAIN rest : rest[k].user \notin gone
  BY <1>1 DEF LinksTo
<1>3. DOMAIN links' = DOMAIN links \ cut /\ \A k \in DOMAIN links' : links'[k] = links[k]
  BY <1>1, <1>2 DEF SetNull
<1>4. ASSUME NEW u \in Childless'  PROVE u \in Childless
  <2>1. u \in DOMAIN users /\ u \notin gone /\ users[u].role = "guardian"
    BY <1>4 DEF Childless, DeleteUsers, Without
  <2>2. \A k \in DOMAIN links' : links'[k].user # u
    BY <1>4 DEF Childless, LinksTo
  <2>3. u # NoUser
    BY <2>1 DEF IInv, RowsHold, TypeOK, NoUser
  <2>4. ASSUME NEW k \in DOMAIN links, links[k].user = u  PROVE FALSE
    <3>1. k \in cut
      BY <1>3, <2>2, <2>4
    <3>2. PICK v \in LinksTo(u) : v \notin cut
      BY <2>1, <2>3, <2>4, <3>1
    <3> QED  BY <1>3, <2>2, <3>2 DEF LinksTo
  <2> QED  BY <2>1, <2>4 DEF Childless, LinksTo
<1> QED  BY <1>3, <1>4

(* A step that is not the end of a revocation or of an erasure.            *)
LEMMA NotCounting ==
  ASSUME IInv, NEW q \in Slots, NEW r, request' = [request EXCEPT ![q] = r],
         r # NoRequest \/ ~ Counting(q)
  PROVE  ~ \E p \in Slots : Counting(p) /\ request'[p] = NoRequest
<1>1. \A p \in Slots : request'[p] = IF p = q THEN r ELSE request[p]
  BY DEF IInv, RowsHold, TypeOK
<1>2. \A p \in Slots : Counting(p) => request[p] # NoRequest
  BY DEF Counting, NoRequest
<1> QED  BY <1>1, <1>2

(* Only what is about a family leaves one childless.                       *)
LEMMA OthersLeaveChildless ==
  ASSUME IInv, Next, LinksUntouched,
         ~ \E q \in Slots : remove(q) \/ grantPortalAccess(q) \/ revokePortalAccess(q) \/ erase(q)
  PROVE  EndsRight
<1>1. \A u : LinksTo(u)' = LinksTo(u)
  BY DEF LinksTo, LinksUntouched
<1>2. ASSUME \A u \in DOMAIN users' : users'[u].role = "guardian" =>
                u \in DOMAIN users /\ users[u].role = "guardian"
      PROVE  EndsRight
  BY <1>1, <1>2 DEF Childless, EndsRight, LinksUntouched
<1>3. CASE create \/ Issue \/ CreateTeacher
  BY <1>2, <1>3 DEF create, Issue, CreateTeacher
<1>4. ASSUME NEW q \in Slots, CreateGuardianUser(q)  PROVE EndsRight
  <2>1. request[q].op = "grantPortal" /\ request[q] \in Grants
    BY <1>4 DEF CreateGuardianUser, IInv, Understood, UnderstoodByFamilies
  <2>2. PICK r : request' = [request EXCEPT ![q] = r]
    BY <1>4 DEF CreateGuardianUser
  <2>3. ~ Counting(q)
    BY <2>1 DEF Counting
  <2> QED  BY <2>2, <2>3, NotCounting DEF EndsRight, LinksUntouched
<1>5. ASSUME NEW q \in Slots, grantAccess(q) \/ CreateStaff(q)  PROVE EndsRight
  <2>1. \A u \in DOMAIN users' : \/ users'[u].role \in {"teacher", "staff"}
                                 \/ u \in DOMAIN users /\ users'[u] = users[u]
    BY <1>5 DEF grantAccess, CreateStaff, With
  <2> QED  BY <1>2, <2>1
<1>6. ASSUME NEW q \in Slots, revokeAccess(q) \/ RemoveTeacher(q) \/ RemoveStaff(q)  PROVE EndsRight
  <2>1. \A u \in DOMAIN users' : u \in DOMAIN users /\ users'[u] = users[u]
    BY <1>6 DEF revokeAccess, RemoveTeacher, RemoveStaff, DeleteUsers, Without
  <2> QED  BY <1>2, <2>1
<1>7. ASSUME NEW q \in Slots,
             \/ BeginImport(q) \/ ImportRow(q) \/ EndImport(q) \/ ReadRemove(q) \/ ReadGrant(q)
             \/ FindUser(q) \/ NotYetLinked(q)
             \/ ReadRevoke(q) \/ CountLinks(q) \/ ReadErase(q) \/ CountChildren(q) \/ Fail(q)
             \/ ReadTeacherGrant(q) \/ ReadTeacherRevoke(q) \/ ReadTeacherRemoval(q)
             \/ ReadStaff(q) \/ ReadStaffRemoval(q)
      PROVE  UNCHANGED users
  BY <1>7 DEF BeginImport, ImportRow, EndImport, ReadRemove, ReadGrant, FindUser,
              NotYetLinked, ReadRevoke, CountLinks,
              ReadErase, CountChildren, Fail, ReadTeacherGrant, ReadTeacherRevoke,
              ReadTeacherRemoval, ReadStaff, ReadStaffRemoval, Read, Proceed
<1>8. UNCHANGED users => EndsRight
  BY <1>2
<1> QED  BY <1>3, <1>4, <1>5, <1>6, <1>7, <1>8 DEF Next

(* Requests about families that wait for each other count the links that   *)
(* are there when they delete them.                                        *)
LEMMA FamiliesStep ==
  ASSUME Overlapping \cap (Families \X Families) = {}, IInv, FamiliesAlone, Next
  PROVE  FamiliesAlone' /\ EndsRight
<1>1. \A p, q \in Slots : request'[p].op \in Families /\ request'[q].op \in Families => p = q
  <2>1. Families \in SUBSET Ops
    BY DEF Families, Ops
  <2>2. \A p, q \in Slots : request[p].op \in Families /\ request[q].op \in Families => p = q
    BY DEF FamiliesAlone
  <2> HIDE DEF Families
  <2> QED  BY <2>1, <2>2, OneAtATime
<1>2. CASE ~ \E q \in Slots : remove(q) \/ grantPortalAccess(q) \/ revokePortalAccess(q) \/ erase(q)
  <2>1. LinksUntouched
    BY <1>2, OthersLeaveLinks
  <2>2. ASSUME NEW r, KnowsFamily(r)  PROVE KnowsFamily(r)'
    <3>1. /\ \A s : LinksOf(s)' = LinksOf(s)
          /\ \A u : LinksTo(u)' = LinksTo(u)
      BY <2>1 DEF LinksOf, LinksTo, LinksUntouched
    <3>2. \A s : {links'[k].user : k \in LinksOf(s)} = {links[k].user : k \in LinksOf(s)}
      BY <2>1 DEF LinksOf, LinksUntouched
    <3>3. Counts(r) => Counts(r)'
      BY <2>1, <3>1 DEF Counts, LinksUntouched
    <3> QED  BY <2>1, <2>2, <3>1, <3>2, <3>3 DEF KnowsFamily, LinksUntouched
  <2>3. ASSUME NEW p \in Slots  PROVE KnowsFamily(request[p])'
    <3> PICK was : was = request[p]
      OBVIOUS
    <3>1. KnowsFamily(was)'
      BY <2>2 DEF FamiliesAlone
    <3>2. CASE UNCHANGED request
      BY <3>1, <3>2
    <3>3. ASSUME NEW q \in Slots, NEW r, request' = [request EXCEPT ![q] = r],
                 r = NoRequest \/ Began(q, r) \/ WentOn(q, r)
          PROVE  KnowsFamily(request[p])'
      <4>1. request'[p] = IF p = q THEN r ELSE was
        BY <3>3 DEF IInv, RowsHold, TypeOK
      <4>2. KnowsFamily(r)
        <5>1. KnowsFamily(NoRequest)
          BY DEF KnowsFamily, NoRequest
        <5> QED  BY <3>3, <5>1 DEF Began, WentOn, FamiliesAlone
      <4>3. KnowsFamily(r)'
        BY <2>2, <4>2
      <4> QED  BY <3>1, <4>1, <4>3
    <3> QED  BY <3>2, <3>3, RequestMoves
  <2>4. EndsRight
    BY <1>2, <2>1, OthersLeaveChildless
  <2> QED  BY <1>1, <2>3, <2>4 DEF FamiliesAlone
<1>3. ASSUME NEW q \in Slots, remove(q) \/ grantPortalAccess(q) \/ revokePortalAccess(q) \/ erase(q)
      PROVE  FamiliesAlone' /\ EndsRight
  <2> PICK r : r = request[q]
    OBVIOUS
  <2>1. r.op \in Families /\ request' = [request EXCEPT ![q] = NoRequest]
    BY <1>3 DEF remove, grantPortalAccess, revokePortalAccess, erase, End, Families
  <2>2. \A p \in Slots : request'[p].op \notin {"revokePortal", "erase"}
    BY <2>1 DEF FamiliesAlone, Families, NoRequest, IInv, RowsHold, TypeOK
  <2>3. \A p \in Slots : KnowsFamily(request[p])'
    BY <2>2 DEF KnowsFamily
  <2>4. KnowsFamily(r)
    BY DEF FamiliesAlone
  <2>5. EndsRight
    <3>1. CASE remove(q)
      <4>1. ~ Counting(q) /\ links' = Without(links, LinksOf(r.student))
        BY <3>1 DEF remove, Delete, Counting
      <4> QED  BY <2>1, <4>1, NotCounting DEF EndsRight, Without
    <3>2. CASE grantPortalAccess(q)
      <4>1. ~ Counting(q)
        BY <3>2 DEF grantPortalAccess, Counting
      <4>2. \A k \in DOMAIN links : links'[k] = links[k]
        BY <3>2 DEF grantPortalAccess, With, IInv, RowsHold, Counted, TypeOK
      <4> QED  BY <2>1, <4>1, <4>2, NotCounting DEF EndsRight
    <3>3. CASE revokePortalAccess(q) \/ erase(q)
      <4> PICK gone, cut : gone = r.logins /\ cut = r.links
        OBVIOUS
      <4>1. r.op \in {"revokePortal", "erase"} /\ r.at = "tx" /\ DeleteUsers(gone)
        BY <3>3 DEF revokePortalAccess, erase
      <4>2. r.op = "erase" => r.links = LinksOf(r.student)
        BY <2>4, <4>1 DEF KnowsFamily
      <4>3. links' = SetNull(Without(links, cut), gone)
        BY <3>3, <4>2 DEF revokePortalAccess, erase
      <4>4. Counts(r)
        BY <2>4, <4>1 DEF KnowsFamily
      <4>5. \A u \in gone : HasRole(u, "guardian")
        BY <4>1 DEF IInv, Understood, UnderstoodByFamilies
      <4>6. /\ \A u \in gone : LinksTo(u) \subseteq cut
            /\ \A k \in cut :
                 /\ k \in DOMAIN links
                 /\ links[k].user \in gone \cup {NoUser} \/ ~(LinksTo(links[k].user) \subseteq cut)
        BY <4>4 DEF Counts
      <4> QED  BY <4>1, <4>3, <4>5, <4>6, CountedRight DEF EndsRight
    <3> QED  BY <1>3, <3>1, <3>2, <3>3
  <2> QED  BY <1>1, <2>3, <2>5 DEF FamiliesAlone
<1> QED  BY <1>2, <1>3

-----------------------------------------------------------------------------
(* What holds while the requests of one kind wait for each other.          *)

(* As long as profiles are granted, revoked and removed one at a time, a   *)
(* teacher's login is always that of a profile, whatever else overlaps.    *)
THEOREM TeachersHaveProfiles ==
  ASSUME Overlapping \cap (Profiles \X Profiles) = {}
  PROVE  Spec => []TeacherHasProfile
<1>1. Init => ProfilesAlone
  BY DEF Init, ProfilesAlone, KnowsProfile, TeacherHasProfile, NoRequest, Profiles, Admin
<1>2. IInv /\ ProfilesAlone /\ [Next]_vars => ProfilesAlone'
  <2>1. ASSUME ProfilesAlone, UNCHANGED vars  PROVE ProfilesAlone'
    BY <2>1 DEF vars, ProfilesAlone, KnowsProfile, TeacherHasProfile
  <2> QED  BY <2>1, ProfilesStep
<1>3. ProfilesAlone => TeacherHasProfile
  BY DEF ProfilesAlone
<1> QED  BY <1>1, <1>2, <1>3, UnderstandingHolds, PTL DEF Spec

(* As long as what gives and takes families' logins is done one at a time, *)
(* a revocation or an erasure takes a login with its last child and not    *)
(* before, and leaves the other links of every login alone.                *)
THEOREM LoginsEndRight ==
  ASSUME Overlapping \cap (Families \X Families) = {}
  PROVE  Spec => LoginEndsWithItsChildren
<1>1. Init => FamiliesAlone
  BY DEF Init, FamiliesAlone, KnowsFamily, NoRequest, Families
<1>2. IInv /\ FamiliesAlone /\ [Next]_vars => FamiliesAlone' /\ [EndsRight]_vars
  <2>1. ASSUME FamiliesAlone, UNCHANGED vars  PROVE FamiliesAlone'
    BY <2>1 DEF vars, FamiliesAlone, KnowsFamily, Counts, LinksOf, LinksTo
  <2> QED  BY <2>1, FamiliesStep
<1>3. [][EndsRight]_vars <=> LoginEndsWithItsChildren
  BY DEF EndsRight, LoginEndsWithItsChildren
<1> QED  BY <1>1, <1>2, <1>3, UnderstandingHolds, PTL DEF Spec
=============================================================================
