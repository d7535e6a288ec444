----------------------------- MODULE OfficePages -----------------------------
(* The pages of the office (app/(app)) and their panels. A handler is the      *)
(* function of that name in the file; the page says for which rows, and to     *)
(* whom, it draws the control that runs it.                                    *)
EXTENDS Pages

-----------------------------------------------------------------------------
(* groups/[id]/page.tsx                                                    *)

GroupLoad == {"GET/groups/:id", "GET/enrollments", "GET/sessions", "GET/students",
              "GET/courses", "GET/teachers", "GET/rooms"}
GroupEnroll == Early(AsksFee(Raises(Sends("POST/enrollments"), "enrollSubmitting")))
GroupEnrollmentStatus == AsksFee(On("PATCH/enrollments/:id", "updateEnrollment"))
GroupUnenroll == Asks(On("DELETE/enrollments/:id", "removeEnrollment"))
GroupFeeOverrideSave == Raises(On("PATCH/enrollments/:id", "keepEnrollment"), "feeSaving")
GroupSessionSubmit == Raises(On("PATCH/sessions/:id", "editSession"), "sessionSubmitting")
GroupSessionCreate == Raises(Sends("POST/sessions"), "sessionSubmitting")
GroupDeleteSession == Asks(On("DELETE/sessions/:id", "removeSession"))

\* The waiting list has its own controls, in GroupWaitlist.
Enrolled == There("enrollment") \ With(EnrollmentRows, {"WAITLIST"})
EnrollForm == [handleEnroll |-> FormFor(GroupEnroll)]
EnrolledTable ==
  [handleEnrollmentStatus |-> Drawn(GroupEnrollmentStatus, "enrollment", Enrolled),
   handleUnenroll |-> Drawn(GroupUnenroll, "enrollment", Enrolled),
   handleFeeOverrideSave |-> Drawn(GroupFeeOverrideSave, "enrollment", Enrolled)]
SessionForm ==
  [handleSessionSubmit |-> Form(GroupSessionSubmit, "session", There("session")),
   createSession |-> FormFor(GroupSessionCreate)]
SessionsTable ==
  [handleDeleteSession |-> Drawn(GroupDeleteSession, "session", There("session"))]
GroupPage == Page(AppLayout, GroupLoad, "every", {"enrollment", "session"},
                  Together({EnrollForm, EnrolledTable, SessionForm, SessionsTable}))

-----------------------------------------------------------------------------
(* invoices/[id]/page.tsx                                                  *)

InvoiceLoad == {"GET/invoices/:id"}
PaymentSubmit == Raises(On("POST/invoices/:id/payments", "addPayment"), "paymentSubmitting")
DeletePayment == Asks(On("DELETE/payments/:id", "removePayment"))
DownloadPdf == Stays(Raises(On("GET/invoices/:id/pdf", "generatePdf"), "downloadingPdf"))
PayOnline == Leaves(Raises(On("POST/invoices/:id/checkout", "createCheckout"), "paying"))
CancelInvoice == Asks(Raises(On("PATCH/invoices/:id", "cancelInvoice"), "cancelling"))
RectSubmit ==
  Raises(On("POST/invoices/:id/rectifications", "createRectification"), "rectSubmitting")

canRegisterPayment == There("invoice") \ With(InvoiceRows, {"CANCELLED", "PAID"})
canCancel == There("invoice") \ With(InvoiceRows, {"CANCELLED", "PAID"})
canRectify == {r \in There("invoice") : /\ r.type = "ORIGINAL" /\ r.status # "CANCELLED"
                                        /\ ~r.rectified}
InvoiceButtons ==
  [handlePayOnline |-> Drawn(PayOnline, "invoice", canRegisterPayment),
   handleDownloadPdf |-> Drawn(DownloadPdf, "invoice", There("invoice")),
   handleCancelInvoice |-> Drawn(CancelInvoice, "invoice", canCancel)]
RectForm == [handleRectSubmit |-> Form(RectSubmit, "invoice", canRectify)]
PaymentForm == [handlePaymentSubmit |-> Form(PaymentSubmit, "invoice", canRegisterPayment)]
\* A PENDING invoice has no payments to take back.
PaymentsTable ==
  [handleDeletePayment |-> Drawn(DeletePayment, "invoice",
                                 There("invoice") \ With(InvoiceRows, {"PENDING"}))]
InvoicePage == Page(AppLayout, InvoiceLoad, "every", {"invoice"},
                    Together({InvoiceButtons, RectForm, PaymentForm, PaymentsTable}))

-----------------------------------------------------------------------------
(* sessions/[id]/page.tsx and trials/page.tsx                              *)

SessionLoad == {"GET/sessions/:id", "GET/groups/:id", "GET/courses", "GET/teachers",
                "GET/enrollments", "GET/sessions/:id/attendance", "GET/students"}
SaveAttendance ==
  Stays(Raises(On("POST/sessions/:id/attendance", "bulkUpsert"), "saving"))
SessionStatus ==
  Takes(Raises(On("PATCH/sessions/:id", "updateSession"), "statusUpdating"))
SessionPage == Page(AppLayout, SessionLoad, "every", {"session"},
  [handleSessionStatus |-> Drawn(SessionStatus, "session", There("session")),
   handleSaveAttendance |-> Drawn(SaveAttendance, "session", There("session"))])

TrialsLoad == {"GET/trials"}
\* Mutant: the list is not loaded again.
TrialConvertStays == Stays(AsksFee(Raises(On("POST/trials/:id/convert", "convertTrial"), "busy")))
TrialConvert == AsksFee(Raises(On("POST/trials/:id/convert", "convertTrial"), "busy"))
TrialCancel == Asks(On("POST/trials/:id/cancel", "cancelTrial"))
TrialRow ==
  [convert |-> Drawn(TrialConvert, "trial", With(TrialRows, {"BOOKED"})),
   cancel |-> Drawn(TrialCancel, "trial", With(TrialRows, {"BOOKED"}))]
TrialsPage == Page(AppLayout, TrialsLoad, "first", {"trial"}, TrialRow)

-----------------------------------------------------------------------------
(* billing/page.tsx, and RemittanceHistory at its foot.                    *)

BillingPreview == Button("POST/billing/generate-month", "loading", {"generate"})
BillingRun == Stays(Raises(Sends("POST/billing/generate-month"), "loading"))
\* Without a preview the page asks first; with one it does not.
BillingGenerate == Always(BillingRun)
BillingGenerateBlind == Always(Asks(BillingRun))
SepaPreview == Stays(Raises(Sends("POST/billing/sepa-remittance/preview"), "sepaLoading"))
SepaDownload == Stays(Raises(Sends("POST/billing/sepa-remittance"), "sepaLoading"))
BillingPage == Choosing(
  PageOfNone(AppLayout, {}, "never",
       [generate |-> BillingGenerate, generateBlind |-> BillingGenerateBlind,
        runSepaPreview |-> Always(SepaPreview), handleSepaDownload |-> Always(SepaDownload)]),
  [BillingPreview EXCEPT !.blind = {"generateBlind"}])

RemittancesLoad == {"GET/billing/remittances", "GET/billing/remittances/:id"}
RemittanceCollect == Asks(Raises(On("POST/billing/remittances/:id/collect", "collect"), "busy"))
RemittanceXml == Stays(On("GET/billing/remittances/:id/xml", "keepRemittance"))
RemittanceVoid == Asks(On("DELETE/billing/remittances/:id", "voidRemittance"))
ReturnForm == Raises(On("POST/billing/remittance-items/:id/return", "returnReceipt"), "returning")

RemittanceButtons ==
  [collect |-> Drawn(RemittanceCollect, "remittance", With(RemittanceRows, {"SENT"})),
   download |-> Drawn(RemittanceXml, "remittance", There("remittance")),
   voidIt |-> Drawn(RemittanceVoid, "remittance",
                {r \in With(RemittanceRows, {"SENT"}) : r.item # "RETURNED" /\ ~r.returned})]
RemittanceItems ==
  [submit |-> Form(ReturnForm, "remittance",
                   {r \in There("remittance") : r.item # "RETURNED"})]
RemittanceHistory ==
  Page(AppLayout, RemittancesLoad, "never", {"remittance"},
       Together({RemittanceButtons, RemittanceItems}))

-----------------------------------------------------------------------------
(* The panels of a group. What is saved in one of them makes the group's page *)
(* load again and draw the panel anew.                                     *)

ChargePreview == Button("POST/billing/charge-group", "busy", {"handleCharge"})
GroupCharge == Leaves(Raises(Sends("POST/billing/charge-group"), "busy"))
ChargeGroupPanel == Choosing(
  PageOfNone(AppLayout, {}, "never", [handleCharge |-> Always(GroupCharge)]), ChargePreview)

ScheduleLoad == {"GET/groups/:id/schedule"}
SchedulePreview == Effect("POST/groups/:id/schedule/preview", {"generate"})
ScheduleSave == Stays(Raises(Sends("PUT/groups/:id/schedule"), "saving"))
ScheduleGenerate == Leaves(Raises(Sends("POST/groups/:id/schedule/generate"), "generating"))
GroupSchedule == Choosing(
  PageOfNone(AppLayout, ScheduleLoad, "first",
       [save |-> Always(ScheduleSave), generate |-> Always(ScheduleGenerate)]),
  SchedulePreview)

WaitlistOffer == Raises(On("POST/enrollments/:id/offer-spot", "offerSpot"), "busy")
\* With the group full it asks first, and goes on only if confirmed.
WaitlistGiveFull == Asks(Raises(On("PATCH/enrollments/:id", "updateEnrollment"), "busy"))
WaitlistGive == AsksFee(Raises(On("PATCH/enrollments/:id", "updateEnrollment"), "busy"))
WaitlistRemove == Asks(On("DELETE/enrollments/:id", "removeEnrollment"))
GroupWaitlist ==
  LET Entry(h) == Drawn(h, "enrollment", With(EnrollmentRows, {"WAITLIST"})) IN
  Page(AppLayout, GroupLoad, "every", {"enrollment"},
       [offer |-> Entry(WaitlistOffer), giveFull |-> Entry(WaitlistGiveFull),
        give |-> Entry(WaitlistGive), remove |-> Entry(WaitlistRemove)])

-----------------------------------------------------------------------------
(* messages/page.tsx                                                       *)

MessagesLoad == {"GET/groups", "GET/students", "GET/settings", "GET/messages"}
\* Mutant: the effect does not drop the answer to an earlier choice.
MessagePreviewUnguarded == Unguarded(Effect("POST/messages/preview", {"handleSend"}))
MessagePreview == Effect("POST/messages/preview", {"handleSend"})
MessageSend == Asks(Raises(Sends("POST/messages"), "sending"))
MessagesPage == Choosing(
  PageOfNone(AppLayout, MessagesLoad, "first", [handleSend |-> Always(MessageSend)]),
  MessagePreview)

-----------------------------------------------------------------------------
(* students/page.tsx and students/[id]/page.tsx, with their panels.        *)

StudentsLoad == {"GET/students"}
StudentSubmit == Raises(On("PATCH/students/:id", "updateStudent"), "submitting")
StudentCreate == Raises(Sends("POST/students"), "submitting")
StudentDelete == Asks(On("DELETE/students/:id", "removeStudent"))
StudentList ==
  [handleSubmit |-> Form(StudentSubmit, "student", There("student")),
   handleDelete |-> Drawn(StudentDelete, "student", There("student"))]
StudentForm == [createStudent |-> FormFor(StudentCreate)]
StudentImport == Leaves(Raises(Sends("POST/students/import"), "importing"))
StudentsPage == Page(AppLayout, StudentsLoad, "list", {"student"}, Together({StudentList, StudentForm}))
StudentImportPanel ==
  PageOfNone(AppLayout, {}, "never", [runImport |-> Always(StudentImport)])

StudentLoad == {"GET/students/:id", "GET/enrollments", "GET/groups", "GET/courses",
                "GET/invoices"}
notErased == With(StudentRows, {"LIVE"})
InviteLoad == {"GET/students/:id/portal-access"}
\* What they change is a list of their own, which they load again.
InviteSubmit ==
  Stays(Raises(On("POST/students/:id/portal-access", "grantPortalAccess"), "submitting"))
InviteRevoke == Stays(Asks(On("DELETE/students/:id/portal-access/:id", "revokePortalAccess")))
InviteFamily == [submit |-> Form(InviteSubmit, "student", notErased),
                 revoke |-> Drawn(InviteRevoke, "student", notErased)]
ReportCardDownload == Stays(Raises(On("GET/students/:id/report-card", "reportCard"), "busy"))
StudentReportCard == [download |-> Drawn(ReportCardDownload, "student", notErased)]
\* Of a student that was deleted nothing is left to show: the page is left.
GdprDownload == Stays(On("GET/students/:id/export", "exportStudent"))
GdprErase == Asks(Raises(On("POST/students/:id/erase", "erase"), "erasing"))
\* Mutant: drawn without asking whether the user is the admin.
GdprPanelForAll ==
  [downloadData |-> Drawn(GdprDownload, "student", notErased),
   erase |-> Drawn(GdprErase, "student", notErased)]
GdprPanel ==
  [downloadData |-> Only({"admin"}, Drawn(GdprDownload, "student", notErased)),
   erase |-> Only({"admin"}, Drawn(GdprErase, "student", notErased))]
StudentPage == Page(AppLayout, StudentLoad \cup InviteLoad, "every", {"student"},
                    Together({InviteFamily, StudentReportCard, GdprPanel}))

-----------------------------------------------------------------------------
(* teachers/page.tsx, teachers/[id]/page.tsx and its access panel.         *)

TeachersLoad == {"GET/teachers"}
TeacherSubmit == Raises(On("PATCH/teachers/:id", "updateTeacher"), "submitting")
TeacherCreate == Raises(Sends("POST/teachers"), "submitting")
TeacherDelete == Asks(On("DELETE/teachers/:id", "removeTeacher"))
TeacherForm == [createTeacher |-> FormFor(TeacherCreate)]
TeacherList == [handleSubmit |-> Form(TeacherSubmit, "plain", There("plain")),
                handleDelete |-> Drawn(TeacherDelete, "plain", There("plain"))]
TeachersPage == Page(AppLayout, TeachersLoad, "list", {"plain"}, Together({TeacherForm, TeacherList}))

TeacherLoad == {"GET/teachers/:id", "GET/groups", "GET/courses", "GET/sessions"}
AccessLoad == {"GET/teachers/:id/access"}
AccessGrant == Takes(Raises(On("POST/teachers/:id/access", "grantAccess"), "submitting"))
AccessRevoke == Takes(Asks(On("DELETE/teachers/:id/access", "revokeAccess")))
\* A panel whose load failed looks like one of a teacher without access.
TeacherAccessPanel ==
  [grant |-> Only({"admin"}, Form(AccessGrant, "teacher", With(TeacherRows, {"NO_LOGIN"}) \cup {NoRow})),
   revoke |-> Only({"admin"}, Drawn(AccessRevoke, "teacher", With(TeacherRows, {"LOGIN"})))]
TeacherPage ==
  Page(AppLayout, TeacherLoad \cup AccessLoad, "every", {"teacher"}, TeacherAccessPanel)

-----------------------------------------------------------------------------
(* groups/page.tsx, courses/page.tsx and invoices/page.tsx                 *)

GroupsLoad == {"GET/groups", "GET/courses", "GET/teachers", "GET/rooms"}
GroupSubmit == Raises(On("PATCH/groups/:id", "updateGroup"), "submitting")
GroupCreate == Raises(Sends("POST/groups"), "submitting")
GroupDelete == Asks(On("DELETE/groups/:id", "removeGroup"))
GroupForm == [createGroup |-> FormFor(GroupCreate),
              handleSubmit |-> Form(GroupSubmit, "plain", There("plain"))]
GroupList == [handleDelete |-> Drawn(GroupDelete, "plain", There("plain"))]
GroupsPage == Page(AppLayout, GroupsLoad, "every", {"plain"}, Together({GroupForm, GroupList}))

CoursesLoad == {"GET/courses"}
CourseSubmit == Raises(On("PATCH/courses/:id", "updateCourse"), "submitting")
CourseCreate == Raises(Sends("POST/courses"), "submitting")
CourseDelete == Asks(On("DELETE/courses/:id", "removeCourse"))
CourseForm == [createCourse |-> FormFor(CourseCreate)]
CourseList == [handleSubmit |-> Form(CourseSubmit, "plain", There("plain")),
               handleDelete |-> Drawn(CourseDelete, "plain", There("plain"))]
CoursesPage == Page(AppLayout, CoursesLoad, "list", {"plain"}, Together({CourseForm, CourseList}))

InvoicesLoad == {"GET/invoices", "GET/students"}
InvoiceCreate == Raises(Sends("POST/invoices"), "submitting")
InvoiceForm == [handleSubmit |-> FormFor(InvoiceCreate)]
InvoicesPage == PageOfNone(AppLayout, InvoicesLoad, "list", InvoiceForm)

-----------------------------------------------------------------------------
(* settings/page.tsx and the panels of its tabs. Staff get no controls.    *)

SettingsLoad == {"GET/settings"}
SettingsSubmit == Takes(Raises(Sends("PATCH/settings"), "saving"))
SettingsForm == [handleSubmit |-> Only({"admin"}, Always(SettingsSubmit))]
SettingsPage == PageOfNone(AppLayout, SettingsLoad, "first", SettingsForm)

\* settings/page.tsx 165: the page ends before its tabs for anyone else.
SettingsTabs == {"admin"}
HolidaysLoad == {"GET/holidays"}
HolidayAdd == Raises(Sends("POST/holidays"), "submitting")
HolidayImport == Raises(Sends("POST/holidays/national"), "importing")
HolidayDelete == Asks(On("DELETE/holidays/:id", "removeHoliday"))
HolidaysPanel ==
  Page(SettingsTabs, HolidaysLoad, "never", {"plain"},
       [handleAdd |-> Always(HolidayAdd), handleImport |-> Always(HolidayImport),
        handleDelete |-> Drawn(HolidayDelete, "plain", There("plain"))])

RoomsLoad == {"GET/rooms"}
RoomAdd == Sends("POST/rooms")
RoomRemove == Asks(On("DELETE/rooms/:id", "removeRoom"))
RoomsPanel == Page(SettingsTabs, RoomsLoad, "never", {"plain"},
  [add |-> Always(RoomAdd), remove |-> Drawn(RoomRemove, "plain", There("plain"))])

TeamLoad == {"GET/team"}
TeamAdd == Raises(Sends("POST/team"), "busy")
TeamRemove == Asks(On("DELETE/team/:id", "removeMember"))
TeamPanel == Page(SettingsTabs, TeamLoad, "never", {"member"},
  [add |-> FormFor(TeamAdd),
   remove |-> Drawn(TeamRemove, "member", With(MemberRows, {"staff"}))])

-----------------------------------------------------------------------------
(* What only reads: the home page, the calendar, the reports, the search.  *)

DashboardLoad == {"GET/students", "GET/groups", "GET/invoices", "GET/sessions",
                  "GET/enrollments", "GET/reports/today"}
DashboardPage == PageOfNone(AppLayout, DashboardLoad, "first", NoActs)

CalendarLoad == {"GET/sessions", "GET/groups", "GET/courses", "GET/teachers", "GET/holidays",
                 "GET/rooms"}
\* The clashes of the period on view stay until the ones of the next one come.
CalendarConflicts == Keeping(Unguarded(Effect("GET/rooms/conflicts", {})))
CalendarPage ==
  Choosing(PageOfNone(AppLayout, CalendarLoad, "first", NoActs), CalendarConflicts)

ReportsOverview == Keeping(Unguarded(Effect("GET/reports/overview", {})))
ExportInvoices == Stays(Sends("GET/reports/invoice-book"))
ExportPayments == Stays(Sends("GET/reports/payments"))
ReportsPage ==
  Choosing(PageOfNone(AppLayout, {}, "never",
             [exportInvoices |-> Always(ExportInvoices), exportPayments |-> Always(ExportPayments)]),
           ReportsOverview)

CommandPaletteLoad == {"GET/students", "GET/teachers", "GET/groups"}
CommandPalette == PageOfNone(AppLayout, CommandPaletteLoad, "never", NoActs)

-----------------------------------------------------------------------------
(* The grades and report cards of a group.                                 *)

\* An assessment is opened by a call of its own. Saving and creating show the
\* answer; the list behind them is loaded again.
GradesLoad == {"GET/groups/:id/assessments", "GET/assessments/:id"}
GradesCreate == Sends("POST/groups/:id/assessments")
GradesSave == Takes(Raises(On("PUT/assessments/:id/results", "saveResults"), "saving"))
GradesRemove == Asks(On("DELETE/assessments/:id", "removeAssessment"))
GradesList == [create |-> FormFor(GradesCreate)]
GradeSheet == [save |-> Drawn(GradesSave, "plain", There("plain")),
               remove |-> Drawn(GradesRemove, "plain", There("plain"))]
GradesEditor == Page(AppLayout, GradesLoad, "first", {"plain"}, Together({GradesList, GradeSheet}))

GroupReportCardsLoad == {"GET/groups/:id/report-cards/preview"}
ReportCardsSend == Leaves(Raises(Sends("POST/groups/:id/report-cards/send"), "busy"))
GroupReportCards ==
  PageOfNone(AppLayout, GroupReportCardsLoad, "first", [send |-> Always(ReportCardsSend)])
=============================================================================
