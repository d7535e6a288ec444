----------------------------- MODULE FamilyPages -----------------------------
(* The pages of everyone else: families and teachers (app/(portal) and         *)
(* app/(teacher)), and the public ones.                                        *)
EXTENDS Pages

-----------------------------------------------------------------------------
(* The portal of the families.                                             *)

PortalLoad == {"GET/portal/students"}
PortalPay == Leaves(Raises(On("POST/portal/invoices/:id/checkout", "createCheckout"), "paying"))
StudentCard == [pay |-> Drawn(PortalPay, "invoice",
                         With(InvoiceRows, {"PENDING", "PARTIAL", "OVERDUE"}))]
PortalPage == Page(PortalLayout, PortalLoad, "every", {"invoice"}, StudentCard)

-----------------------------------------------------------------------------
(* The teachers' app.                                                      *)

\* The classes of the week on view: "Cargando" hides the ones of the last one.
TeacherWeek == Unguarded(Effect("GET/teacher/sessions", {}))
TeacherHomePage == Choosing(PageOfNone(TeacherLayout, {}, "never", NoActs), TeacherWeek)

TakeAttendanceLoad == {"GET/teacher/sessions/:id"}
TakeAttendanceSave ==
  Takes(Raises(On("PUT/teacher/sessions/:id/attendance", "saveAttendance"), "saving"))
TakeAttendancePage == Page(TeacherLayout, TakeAttendanceLoad, "first", {"session"},
  [save |-> Drawn(TakeAttendanceSave, "session",
                  There("session") \ With(SessionRows, {"CANCELLED"}))])

TeacherGradesLoad == {"GET/teacher/groups"}
TeacherGradesPage == PageOfNone(TeacherLayout, TeacherGradesLoad, "first", NoActs)

\* GradesEditor with basePath "/teacher".
TeacherGradesEditorLoad == {"GET/teacher/groups/:id/assessments", "GET/teacher/assessments/:id"}
TeacherGradesCreate == Sends("POST/teacher/groups/:id/assessments")
TeacherGradesSave == Takes(Raises(On("PUT/teacher/assessments/:id/results", "saveResults"), "saving"))
TeacherGradesRemove == Asks(On("DELETE/teacher/assessments/:id", "removeAssessment"))
TeacherGradesEditor == Page(TeacherLayout, TeacherGradesEditorLoad, "first", {"plain"},
  [create |-> FormFor(TeacherGradesCreate),
   save |-> Drawn(TeacherGradesSave, "plain", There("plain")),
   remove |-> Drawn(TeacherGradesRemove, "plain", There("plain"))])

-----------------------------------------------------------------------------
(* The account of whoever is signed in, and the way in.                     *)

ChangePassword == Stays(Raises(Sends("POST/auth/change-password"), "saving"))
ChangePasswordForm == [submit |-> Always(ChangePassword)]
AccountPage(layout) == PageOfNone(layout, {}, "never", ChangePasswordForm)

Login == Leaves(Raises(Sends("POST/auth/login"), "submitting"))
LoginPage == PageOfNone(Public, {}, "never", [handleSubmit |-> Always(Login)])
Signup == Leaves(Raises(Sends("POST/auth/signup"), "submitting"))
SignupPage == PageOfNone(Public, {}, "never", [handleSubmit |-> Always(Signup)])
ForgotPassword == Leaves(Raises(Sends("POST/auth/forgot-password"), "submitting"))
ForgotPasswordPage == PageOfNone(Public, {}, "never", [submit |-> Always(ForgotPassword)])
ResetPassword == Leaves(Raises(Sends("POST/auth/reset-password"), "submitting"))
ResetPasswordPage == PageOfNone(Public, {}, "never", [submit |-> Always(ResetPassword)])

-----------------------------------------------------------------------------
(* The pages an academy shares with families that have no account.         *)

EnrollLoad == {"GET/public/academy/:slug/groups"}
EnrollSubmit == Leaves(Raises(Sends("POST/public/academy/:slug/enroll"), "submitting"))
EnrollPage ==
  PageOfNone(Public, EnrollLoad, "first", [handleSubmit |-> Always(EnrollSubmit)])

\* The classes of the group chosen; one of them has to be picked.
TrialSessions == Unguarded(Effect("GET/public/academy/:slug/groups/:id/trial-sessions", {"submit"}))
TrialSubmit == Leaves(Raises(Sends("POST/public/academy/:slug/trial"), "submitting"))
TrialBookingForm ==
  Choosing(PageOfNone(Public, EnrollLoad, "first", [submit |-> Always(TrialSubmit)]), TrialSessions)

AcademyPrivacyPage == PageOfNone(Public, EnrollLoad, "first", NoActs)
=============================================================================
