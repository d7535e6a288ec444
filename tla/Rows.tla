-------------------------------- MODULE Rows --------------------------------
(* What the API's handlers do to the one row a page is about: the checks that  *)
(* refuse a call because of the row's state, and the states it can leave the   *)
(* row in. The other modules have these handlers in full, with everything else *)
(* they touch; here they are what a page has to agree with. A handler is a     *)
(* function from the row it finds to the rows it may leave: none if it         *)
(* refuses. What a handler refuses for another reason (a field that is not      *)
(* valid, a name already taken, rows that depend on this one, an email that     *)
(* cannot be sent) is not here: for a page it is a call that fails.            *)

Gone == [status |-> "GONE"]   \* findFirst or findOne found nothing: 404
NoRow == [status |-> "NONE"]  \* what a page has before its first load

InvoiceRows == {Gone} \cup
  [status : {"PENDING", "PARTIAL", "PAID", "OVERDUE", "CANCELLED"},
   type : {"ORIGINAL", "RECTIFICATIVA"}, rectified : {FALSE}]
  \cup [status : {"PENDING", "PARTIAL", "PAID", "OVERDUE", "CANCELLED"},
        type : {"ORIGINAL"}, rectified : {TRUE}]
EnrollmentRows == {Gone} \cup
  [status : {"ACTIVE", "COMPLETED", "DROPPED", "PENDING", "WAITLIST"}]
SessionRows == {Gone} \cup [status : {"SCHEDULED", "COMPLETED", "CANCELLED"}]
\* A trial class; `enrolled` is whether the student has an enrollment in its group.
TrialRows == {Gone} \cup
  [status : {"BOOKED", "CONVERTED", "CANCELLED"}, enrolled : BOOLEAN]
\* A remittance, one of its receipts, and whether another one was returned. Its
\* receipts are collected with it, all in one transaction.
RemittanceRows == {Gone} \cup
  [status : {"SENT"}, item : {"SENT", "RETURNED"}, returned : BOOLEAN] \cup
  [status : {"COLLECTED"}, item : {"COLLECTED", "RETURNED"}, returned : BOOLEAN]
StudentRows == {Gone} \cup [status : {"LIVE", "ERASED"}]
TeacherRows == {Gone} \cup [status : {"NO_LOGIN", "LOGIN"}]
MemberRows == {Gone} \cup [status : {"admin", "staff"}]
PlainRows == {Gone} \cup [status : {"THERE"}]

Rows == [invoice |-> InvoiceRows, enrollment |-> EnrollmentRows, session |-> SessionRows,
         trial |-> TrialRows, remittance |-> RemittanceRows, student |-> StudentRows,
         teacher |-> TeacherRows, member |-> MemberRows,
         plain |-> PlainRows, nothing |-> {NoRow}]

\* A handler that refuses the rows in `refused`, and one that is not there.
Handler(rows, refused, Left(_)) ==
  [r \in rows |-> IF r = Gone \/ r \in refused THEN {} ELSE Left(r)]
Keeps(rows) == Handler(rows, {}, LAMBDA r : {r})
Removes(rows) == Handler(rows, {}, LAMBDA r : {Gone})
Becomes(rows, refused, states) ==
  Handler(rows, refused, LAMBDA r : {[r EXCEPT !.status = s] : s \in states})
With(rows, states) == {r \in rows : r.status \in states}

\* computeStatus after a payment, or after one is taken back.
SomePaid == {"PARTIAL", "PAID", "OVERDUE"}
SomeOwed == {"PENDING", "PARTIAL", "OVERDUE"}

\* An amount above what is pending is refused: on a PAID invoice, any.
addPayment == Becomes(InvoiceRows, With(InvoiceRows, {"CANCELLED", "PAID"}), SomePaid)
removePayment == Becomes(InvoiceRows, {}, SomeOwed)
cancelInvoice == Becomes(InvoiceRows, With(InvoiceRows, {"CANCELLED"}), {"CANCELLED"})
createCheckout == Handler(InvoiceRows, With(InvoiceRows, {"CANCELLED", "PAID"}), LAMBDA r : {r})
createRectification ==
  Handler(InvoiceRows,
          {r \in InvoiceRows \ {Gone} : r.type = "RECTIFICATIVA" \/ r.status = "CANCELLED"
                                        \/ r.rectified},
          LAMBDA r : {[r EXCEPT !.status = "CANCELLED", !.rectified = TRUE]})
generatePdf == Keeps(InvoiceRows)

updateEnrollment == Becomes(EnrollmentRows, {},
                      {"ACTIVE", "COMPLETED", "DROPPED", "PENDING", "WAITLIST"})
offerSpot == Handler(EnrollmentRows, EnrollmentRows \ With(EnrollmentRows, {"WAITLIST"}),
                     LAMBDA r : {r})
keepEnrollment == Keeps(EnrollmentRows)   \* update, without a status
removeEnrollment == Removes(EnrollmentRows)

updateSession == Becomes(SessionRows, {}, {"SCHEDULED", "COMPLETED", "CANCELLED"})
editSession == Keeps(SessionRows)     \* the same handler, without a status
removeSession == Removes(SessionRows)
bulkUpsert == Keeps(SessionRows)
saveAttendance == Handler(SessionRows, With(SessionRows, {"CANCELLED"}), LAMBDA r : {r})

convertTrial ==
  Handler(TrialRows,
          {r \in TrialRows \ {Gone} : r.status = "CANCELLED" \/ (r.status = "CONVERTED" /\ r.enrolled)},
          LAMBDA r : {[status |-> "CONVERTED", enrolled |-> TRUE]})
cancelTrial == Becomes(TrialRows, TrialRows \ With(TrialRows, {"BOOKED"}), {"CANCELLED"})

collect == Handler(RemittanceRows, {},
  LAMBDA r : {[r EXCEPT !.status = "COLLECTED",
                        !.item = IF @ = "SENT" THEN "COLLECTED" ELSE @]})
returnReceipt ==
  Handler(RemittanceRows, {r \in RemittanceRows \ {Gone} : r.item = "RETURNED"},
          LAMBDA r : {[r EXCEPT !.item = "RETURNED"]})
voidRemittance ==
  Handler(RemittanceRows,
          {r \in RemittanceRows \ {Gone} : r.status # "SENT" \/ r.item # "SENT" \/ r.returned},
          LAMBDA r : {Gone})
keepRemittance == Keeps(RemittanceRows)

\* A student with invoices is kept without what identifies them, one without is deleted.
erase == Handler(StudentRows, {}, LAMBDA r : {Gone, [status |-> "ERASED"]})

grantAccess == Becomes(TeacherRows, With(TeacherRows, {"LOGIN"}), {"LOGIN"})
revokeAccess == Becomes(TeacherRows, With(TeacherRows, {"NO_LOGIN"}), {"NO_LOGIN"})

\* Only a secretary can be taken off the team.
removeMember == Handler(MemberRows, With(MemberRows, {"admin"}), LAMBDA r : {Gone})

\* Students: what is checked of one in these handlers is only that it is there.
updateStudent == Keeps(StudentRows)
removeStudent == Removes(StudentRows)
grantPortalAccess == Keeps(StudentRows)
revokePortalAccess == Keeps(StudentRows)
exportStudent == Keeps(StudentRows)
reportCard == Keeps(StudentRows)

\* And so it is for the rows that have no states.
updateTeacher == Keeps(PlainRows)
removeTeacher == Removes(PlainRows)
updateGroup == Keeps(PlainRows)
removeGroup == Removes(PlainRows)
updateCourse == Keeps(PlainRows)
removeCourse == Removes(PlainRows)
removeHoliday == Removes(PlainRows)
removeRoom == Removes(PlainRows)
saveResults == Keeps(PlainRows)
removeAssessment == Removes(PlainRows)

Does == [addPayment |-> addPayment, removePayment |-> removePayment,
         cancelInvoice |-> cancelInvoice, createCheckout |-> createCheckout,
         createRectification |-> createRectification, generatePdf |-> generatePdf,
         updateEnrollment |-> updateEnrollment, offerSpot |-> offerSpot,
         keepEnrollment |-> keepEnrollment,
         removeEnrollment |-> removeEnrollment, updateSession |-> updateSession,
         editSession |-> editSession, removeSession |-> removeSession,
         bulkUpsert |-> bulkUpsert, saveAttendance |-> saveAttendance,
         convertTrial |-> convertTrial, cancelTrial |-> cancelTrial, collect |-> collect,
         returnReceipt |-> returnReceipt, voidRemittance |-> voidRemittance,
         keepRemittance |-> keepRemittance, erase |-> erase, grantAccess |-> grantAccess,
         revokeAccess |-> revokeAccess, removeMember |-> removeMember,
         updateStudent |-> updateStudent, removeStudent |-> removeStudent,
         grantPortalAccess |-> grantPortalAccess,
         revokePortalAccess |-> revokePortalAccess, exportStudent |-> exportStudent,
         reportCard |-> reportCard, updateTeacher |-> updateTeacher,
         removeTeacher |-> removeTeacher, updateGroup |-> updateGroup,
         removeGroup |-> removeGroup, updateCourse |-> updateCourse,
         removeCourse |-> removeCourse, removeHoliday |-> removeHoliday,
         removeRoom |-> removeRoom, saveResults |-> saveResults,
         removeAssessment |-> removeAssessment]
=============================================================================
