------------------------------ MODULE Accounts ------------------------------
(***************************************************************************)
(* Who may sign in to one academy: the office, the teachers and the        *)
(* families, whose logins come and go with a teacher's profile and with    *)
(* the students a family looks after, until a student is erased.           *)
(*                                                                         *)
(* A request reads first, checks, and writes later, one statement or one   *)
(* transaction.  A transaction that counts the links left to a login is    *)
(* two steps: READ COMMITTED shows it what was committed when it counts.   *)
(***************************************************************************)
EXTENDS Naturals, FiniteSets

CONSTANTS Slots,         \* requests in progress at the same time
          Emails, Students, Teachers,
          Overlapping,   \* pairs: what may start while what is in progress
          Bulk,          \* rows of a bulk import
          MaxUsers, MaxLinks   \* bounds: logins and family links ever created

Ops == {"grantPortal", "revokePortal", "erase", "remove", "import",
        "grantTeacher", "revokeTeacher", "removeTeacher", "createStaff", "removeStaff"}

ASSUME AccountsAssumption ==
  /\ Overlapping \subseteq Ops \X Ops
  /\ Bulk \in Nat /\ MaxUsers \in Nat \ {0} /\ MaxLinks \in Nat

VARIABLES users,     \* the logins, by id
          student,   \* "absent", "enrolled" (has a row), "erased" or "gone"
          invoiced,  \* students with invoices
          links,     \* the guardians of each student: who signs in with what
          teacher,   \* the teachers that have a profile, and their login
          request,   \* what each slot has read and is about to write
          numbered   \* logins and links so far

vars == <<users, student, invoiced, links, teacher, request, numbered>>

NoUser == 0
Admin == 1
NoRequest == [op |-> "idle"]

Rows == {s \in Students : student[s] \in {"enrolled", "erased"}}
LinksOf(s) == {k \in DOMAIN links : links[k].student = s}
LinksTo(u) == {k \in DOMAIN links : links[k].user = u}
UsersWith(e) == {u \in DOMAIN users : users[u].email = e}

(* signup: the academy and its administrator.                              *)
Init == /\ \E e \in Emails : users = [u \in {Admin} |-> [email |-> e, role |-> "admin"]]
        /\ student \in [Students -> {"absent", "enrolled"}]
        /\ invoiced = {}
        /\ links = [k \in {} |-> 0]
        /\ teacher = [t \in Teachers |-> NoUser]
        /\ request = [q \in Slots |-> NoRequest]
        /\ numbered = [users |-> 1, links |-> 0]

-----------------------------------------------------------------------------
(* Statements.  The unique (tenantId, email) and the foreign keys decide   *)
(* which of them succeed; onDelete says what goes with a row.              *)

Without(f, gone) == [x \in DOMAIN f \ gone |-> f[x]]
With(f, x, row) == [y \in DOMAIN f \cup {x} |-> IF y = x THEN row ELSE f[y]]

CanCreateUser(e) == UsersWith(e) = {} /\ numbered.users < MaxUsers
NewUser == numbered.users + 1

(* A deleted login leaves its links and its profile behind, without it.    *)
SetNull(f, gone) ==
  [k \in DOMAIN f |-> IF f[k].user \in gone THEN [f[k] EXCEPT !.user = NoUser] ELSE f[k]]
\* Mutant: the profile keeps the deleted login
DeleteUsersOnly(gone) == users' = Without(users, gone) /\ UNCHANGED teacher
DeleteUsers(gone) ==
  /\ users' = Without(users, gone)
  /\ teacher' = [t \in DOMAIN teacher |-> IF teacher[t] \in gone THEN NoUser ELSE teacher[t]]

(* NoAction: a student with invoices cannot be deleted; a deleted one      *)
(* takes its guardians along.                                              *)
\* Mutant: its invoices would go too
DeletableAnyway(s) == TRUE
Deletable(s) == s \notin invoiced

(* An open transaction that has deleted a link holds its row.              *)
Counting(q) == request[q].op \in {"revokePortal", "erase"} /\ request[q].at = "tx"
Held(k) == \E q \in Slots : Counting(q) /\ k \in request[q].links

MayStart(op) == \A p \in Slots : request[p] = NoRequest \/ <<op, request[p].op>> \in Overlapping
Read(q, r) == /\ request[q] = NoRequest /\ MayStart(r.op)
              /\ request' = [request EXCEPT ![q] = r]
              /\ UNCHANGED <<users, student, invoiced, links, teacher, numbered>>
Proceed(q, r) == /\ request' = [request EXCEPT ![q] = r]
                 /\ UNCHANGED <<users, student, invoiced, links, teacher, numbered>>
End(q) == request' = [request EXCEPT ![q] = NoRequest]

-----------------------------------------------------------------------------
(* Students.                                                               *)

create == \E s \in Students :
  /\ student[s] = "absent"
  /\ student' = [student EXCEPT ![s] = "enrolled"]
  /\ UNCHANGED <<users, invoiced, links, teacher, request, numbered>>

(* importMany: each row on its own, and a bad one does not stop it.        *)
BeginImport(q) == Read(q, [op |-> "import", left |-> Bulk, created |-> 0, failed |-> 0])

ImportRow(q) ==
  LET r == request[q] IN
  /\ r.op = "import" /\ r.left > 0
  /\ \/ /\ \E s \in Students : /\ student[s] = "absent"
                               /\ student' = [student EXCEPT ![s] = "enrolled"]
        /\ request' = [request EXCEPT ![q] = [r EXCEPT !.left = @ - 1, !.created = @ + 1]]
     \/ /\ UNCHANGED student
        /\ request' = [request EXCEPT ![q] = [r EXCEPT !.left = @ - 1, !.failed = @ + 1]]
  /\ UNCHANGED <<users, invoiced, links, teacher, numbered>>

EndImport(q) == /\ request[q].op = "import" /\ request[q].left = 0 /\ End(q)
                /\ UNCHANGED <<users, student, invoiced, links, teacher, numbered>>

(* Any of the ways of issuing an invoice.                                  *)
Issue == \E s \in Rows \ invoiced :
  /\ invoiced' = invoiced \cup {s}
  /\ UNCHANGED <<users, student, links, teacher, request, numbered>>

Delete(s) == /\ student' = [student EXCEPT ![s] = "gone"]
             /\ links' = Without(links, LinksOf(s))

ReadRemove(q) == \E s \in Rows \ invoiced : Read(q, [op |-> "remove", student |-> s])

(* The family's logins are not looked at.                                  *)
remove(q) ==
  LET s == request[q].student IN
  /\ request[q].op = "remove"
  /\ s \in Rows /\ Deletable(s) /\ \A k \in LinksOf(s) : ~Held(k)
  /\ Delete(s) /\ End(q)
  /\ UNCHANGED <<users, invoiced, teacher, numbered>>

-----------------------------------------------------------------------------
(* Portal access.                                                          *)

(* An email that belongs to a login of another kind is refused, and so is  *)
(* a family that already has access.                                       *)
\* Mutant: any login will do
ReusableAny(u) == TRUE
Reusable(u) == users[u].role = "guardian"

ReadGrant(q) == \E s \in Rows, e \in Emails :
  Read(q, [op |-> "grantPortal", at |-> "student", student |-> s, email |-> e, user |-> NoUser])

FindUser(q) ==
  LET r == request[q] IN
  /\ r.op = "grantPortal" /\ r.at = "student"
  /\ \/ UsersWith(r.email) = {} /\ Proceed(q, [r EXCEPT !.at = "user"])
     \/ \E u \in UsersWith(r.email) : Reusable(u) /\ Proceed(q, [r EXCEPT !.at = "login", !.user = u])

NotYetLinked(q) ==
  LET r == request[q] IN
  /\ r.op = "grantPortal" /\ r.at = "login"
  /\ LinksTo(r.user) \cap LinksOf(r.student) = {}
  /\ Proceed(q, [r EXCEPT !.at = "link"])

CreateGuardianUser(q) ==
  LET r == request[q] IN
  /\ r.op = "grantPortal" /\ r.at = "user"
  /\ CanCreateUser(r.email)
  /\ users' = With(users, NewUser, [email |-> r.email, role |-> "guardian"])
  /\ numbered' = [numbered EXCEPT !.users = NewUser]
  /\ request' = [request EXCEPT ![q] = [r EXCEPT !.at = "link", !.user = NewUser]]
  /\ UNCHANGED <<student, invoiced, links, teacher>>

grantPortalAccess(q) ==
  LET r == request[q] IN
  /\ r.op = "grantPortal" /\ r.at = "link"
  /\ r.student \in Rows /\ r.user \in DOMAIN users
  /\ numbered.links < MaxLinks
  /\ links' = With(links, numbered.links + 1, [student |-> r.student, user |-> r.user])
  /\ numbered' = [numbered EXCEPT !.links = @ + 1]
  /\ End(q)
  /\ UNCHANGED <<users, student, invoiced, teacher>>

ReadRevoke(q) == \E k \in DOMAIN links :
  Read(q, [op |-> "revokePortal", at |-> "read", link |-> k, user |-> links[k].user])

(* Who is left without a child once the links in gone are deleted.         *)
\* Mutant: the links that go are counted too
OrphansAlready(us, gone) == {u \in us \ {NoUser} : LinksTo(u) = {}}
Orphans(us, gone) == {u \in us \ {NoUser} : LinksTo(u) \subseteq gone}

CountLinks(q) ==
  LET r == request[q] IN
  /\ r.op = "revokePortal" /\ r.at = "read"
  /\ r.link \in DOMAIN links /\ ~Held(r.link)
  /\ Proceed(q, [op |-> "revokePortal", at |-> "tx", links |-> {r.link},
                 logins |-> Orphans({r.user}, {r.link})])

(* Deleting a login that is gone throws.                                   *)
revokePortalAccess(q) ==
  LET r == request[q] IN
  /\ r.op = "revokePortal" /\ r.at = "tx"
  /\ r.logins \subseteq DOMAIN users
  /\ links' = SetNull(Without(links, r.links), r.logins)
  /\ DeleteUsers(r.logins)
  /\ End(q)
  /\ UNCHANGED <<student, invoiced, numbered>>

-----------------------------------------------------------------------------
(* GDPR erasure.                                                           *)

ReadErase(q) == \E s \in Rows :
  Read(q, [op |-> "erase", at |-> "read", student |-> s,
           family |-> {links[k].user : k \in LinksOf(s)} \ {NoUser},
           keeps |-> s \in invoiced])

CountChildren(q) ==
  LET r == request[q] IN
  /\ r.op = "erase" /\ r.at = "read"
  /\ r.student \in Rows
  /\ \A k \in LinksOf(r.student) : ~Held(k)
  /\ Proceed(q, [op |-> "erase", at |-> "tx", student |-> r.student, keeps |-> r.keeps,
                 logins |-> Orphans(r.family, LinksOf(r.student)),
                 links |-> LinksOf(r.student)])

(* Without invoices the student is deleted; with them the row stays, with  *)
(* the name and the address alone.                                         *)
erase(q) ==
  LET r == request[q] IN
  /\ r.op = "erase" /\ r.at = "tx"
  /\ r.student \in Rows /\ r.logins \subseteq DOMAIN users
  /\ ~r.keeps => Deletable(r.student)
  /\ student' = [student EXCEPT ![r.student] = IF r.keeps THEN "erased" ELSE "gone"]
  /\ links' = SetNull(Without(links, IF r.keeps THEN r.links ELSE LinksOf(r.student)), r.logins)
  /\ DeleteUsers(r.logins)
  /\ End(q)
  /\ UNCHANGED <<invoiced, numbered>>

-----------------------------------------------------------------------------
(* Teachers and the office.                                                *)

CreateTeacher == \E t \in Teachers \ DOMAIN teacher :
  /\ teacher' = With(teacher, t, NoUser)
  /\ UNCHANGED <<users, student, invoiced, links, request, numbered>>

ReadTeacherGrant(q) == \E t \in DOMAIN teacher, e \in Emails :
  /\ teacher[t] = NoUser /\ UsersWith(e) = {}
  /\ Read(q, [op |-> "grantTeacher", teacher |-> t, email |-> e])

grantAccess(q) ==
  LET r == request[q] IN
  /\ r.op = "grantTeacher"
  /\ CanCreateUser(r.email) /\ r.teacher \in DOMAIN teacher
  /\ users' = With(users, NewUser, [email |-> r.email, role |-> "teacher"])
  /\ numbered' = [numbered EXCEPT !.users = NewUser]
  /\ teacher' = [teacher EXCEPT ![r.teacher] = NewUser]
  /\ End(q)
  /\ UNCHANGED <<student, invoiced, links>>

ReadTeacherRevoke(q) == \E t \in DOMAIN teacher :
  /\ teacher[t] # NoUser
  /\ Read(q, [op |-> "revokeTeacher", user |-> teacher[t]])

revokeAccess(q) ==
  LET r == request[q] IN
  /\ r.op = "revokeTeacher" /\ r.user \in DOMAIN users
  /\ DeleteUsers({r.user}) /\ links' = SetNull(links, {r.user})
  /\ End(q)
  /\ UNCHANGED <<student, invoiced, numbered>>

ReadTeacherRemoval(q) == \E t \in DOMAIN teacher :
  Read(q, [op |-> "removeTeacher", teacher |-> t, user |-> teacher[t]])

(* "Their login must not outlive the profile."                             *)
\* Mutant: it does
LoginKept(r) == {}
LoginOf(r) == {r.user} \ {NoUser}

RemoveTeacher(q) ==
  LET r == request[q] IN
  /\ r.op = "removeTeacher"
  /\ r.teacher \in DOMAIN teacher /\ LoginOf(r) \subseteq DOMAIN users
  /\ users' = Without(users, LoginOf(r)) /\ links' = SetNull(links, LoginOf(r))
  /\ teacher' = Without(teacher, {r.teacher})
  /\ End(q)
  /\ UNCHANGED <<student, invoiced, numbered>>

ReadStaff(q) == \E e \in Emails :
  UsersWith(e) = {} /\ Read(q, [op |-> "createStaff", email |-> e])

CreateStaff(q) ==
  LET r == request[q] IN
  /\ r.op = "createStaff" /\ CanCreateUser(r.email)
  /\ users' = With(users, NewUser, [email |-> r.email, role |-> "staff"])
  /\ numbered' = [numbered EXCEPT !.users = NewUser]
  /\ End(q)
  /\ UNCHANGED <<student, invoiced, links, teacher>>

(* Only staff; so nobody removes the administrator, nor themselves.        *)
ReadStaffRemoval(q) == \E u \in DOMAIN users :
  /\ users[u].role = "staff"
  /\ Read(q, [op |-> "removeStaff", user |-> u])

RemoveStaff(q) ==
  LET r == request[q] IN
  /\ r.op = "removeStaff" /\ r.user \in DOMAIN users
  /\ DeleteUsers({r.user}) /\ links' = SetNull(links, {r.user})
  /\ End(q)
  /\ UNCHANGED <<student, invoiced, numbered>>

(* A statement throws, a check refuses, or the process dies: a family's    *)
(* login created a moment before stays.                                    *)
Fail(q) == request[q] # NoRequest /\ Proceed(q, NoRequest)

Next == \/ create \/ Issue \/ CreateTeacher
        \/ \E q \in Slots :
             \/ BeginImport(q) \/ ImportRow(q) \/ EndImport(q)
             \/ ReadRemove(q) \/ remove(q)
             \/ ReadGrant(q) \/ FindUser(q) \/ NotYetLinked(q)
             \/ CreateGuardianUser(q) \/ grantPortalAccess(q)
             \/ ReadRevoke(q) \/ CountLinks(q) \/ revokePortalAccess(q)
             \/ ReadErase(q) \/ CountChildren(q) \/ erase(q)
             \/ ReadTeacherGrant(q) \/ grantAccess(q)
             \/ ReadTeacherRevoke(q) \/ revokeAccess(q)
             \/ ReadTeacherRemoval(q) \/ RemoveTeacher(q)
             \/ ReadStaff(q) \/ CreateStaff(q) \/ ReadStaffRemoval(q) \/ RemoveStaff(q)
             \/ Fail(q)

Spec == Init /\ [][Next]_vars

-----------------------------------------------------------------------------
(* Properties.                                                             *)

(* Every reference is to a row that exists, and an email has one login.    *)
TypeOK ==
  /\ \A u \in DOMAIN users : users[u] \in [email : Emails, role : {"admin", "staff", "teacher", "guardian"}]
  /\ DOMAIN users \subseteq 1..numbered.users
  /\ \A u, v \in DOMAIN users : users[u].email = users[v].email => u = v
  /\ student \in [Students -> {"absent", "enrolled", "erased", "gone"}]
  /\ invoiced \subseteq Students
  /\ DOMAIN links \subseteq 1..numbered.links
  /\ \A k \in DOMAIN links : links[k].student \in Rows /\ links[k].user \in DOMAIN users \cup {NoUser}
  /\ DOMAIN teacher \subseteq Teachers
  /\ \A t \in DOMAIN teacher : teacher[t] \in DOMAIN users \cup {NoUser}
  /\ DOMAIN request = Slots

(* A student who has been invoiced is kept, whatever is issued while an    *)
(* erasure or a deletion is under way.                                     *)
InvoicedIsKept == invoiced \subseteq Rows

(* Only what revokes or erases an access can end it: a login of the office *)
(* never hangs from a student or a teacher, whose removal would take it.   *)
OfficeStays == [][\A u \in DOMAIN users \ DOMAIN users' :
  users[u].role \in {"admin", "staff"} =>
    users[u].role = "staff" /\ \E q \in Slots : request[q].op = "removeStaff"]_vars

(* A revocation or an erasure takes a family's login with its last child,  *)
(* and not before ("orphaned account cleanup").                            *)
Childless == {u \in DOMAIN users : users[u].role = "guardian" /\ LinksTo(u) = {}}
LoginEndsWithItsChildren == [][
  /\ \A k \in DOMAIN links \cap DOMAIN links' : links'[k] = links[k]
  /\ (\E q \in Slots : Counting(q) /\ request'[q] = NoRequest) => Childless' \subseteq Childless]_vars

(* A teacher's login is that of a profile.                                 *)
TeacherHasProfile == \A u \in DOMAIN users :
  users[u].role = "teacher" => \E t \in DOMAIN teacher : teacher[t] = u
=============================================================================
