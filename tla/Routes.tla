------------------------------- MODULE Routes -------------------------------
(* Who may call what: the controllers of the API and the guards in front of    *)
(* them. A route is named by its method and path; each controller below is     *)
(* the set of its routes with the roles its decorators let through. What a     *)
(* handler does with the call is in the modules of the components.             *)

\* User.role as auth.service, teachers.service, students.service and
\* team.service write it; "nobody" is a caller without an access token.
UserRoles == {"admin", "staff", "teacher", "guardian"}
Callers == UserRoles \cup {"nobody"}
Office == {"admin", "staff"}

\* RolesGuard.canActivate over the metadata of @Roles, read for the handler
\* first and then for its class (getAllAndOverride): no metadata, no limit.
RolesGuard(onHandler, onClass) ==
  IF onHandler # {} THEN onHandler ELSE IF onClass # {} THEN onClass ELSE UserRoles

\* @UseGuards(JwtAuthGuard, RolesGuard) @Roles(...onClass) on a controller, with
\* the routes `own` that have an @Roles of their own.
Guarded(onClass, routes, onHandler, own) ==
  [r \in routes \cup own |-> RolesGuard(IF r \in own THEN onHandler ELSE {}, onClass)]

Open(routes) == [r \in routes |-> Callers]          \* no @UseGuards
SignedIn(routes) == [r \in routes |-> RolesGuard({}, {})]   \* JwtAuthGuard alone
\* JwtAuthGuard on the handlers of the routes in `signedIn` only.
PartlyOpen(open, signedIn) ==
  [r \in open \cup signedIn |-> IF r \in signedIn THEN RolesGuard({}, {}) ELSE Callers]

OfficeOnly(routes) == Guarded(Office, routes, {}, {})

AssessmentsController == OfficeOnly(
  {"GET/groups/:id/assessments", "POST/groups/:id/assessments", "GET/assessments/:id",
   "PATCH/assessments/:id", "DELETE/assessments/:id", "PUT/assessments/:id/results"})

TeacherAssessmentsController == Guarded({"teacher"},
  {"GET/teacher/groups", "GET/teacher/groups/:id/assessments",
   "POST/teacher/groups/:id/assessments", "GET/teacher/assessments/:id",
   "PATCH/teacher/assessments/:id", "DELETE/teacher/assessments/:id",
   "PUT/teacher/assessments/:id/results"}, {}, {})

ReportCardsController == OfficeOnly(
  {"GET/students/:id/report-card", "GET/groups/:id/report-cards/preview",
   "POST/groups/:id/report-cards/send"})

AttendanceController == OfficeOnly(
  {"POST/sessions/:id/attendance", "GET/sessions/:id/attendance",
   "PATCH/sessions/:id/attendance/:id", "DELETE/sessions/:id/attendance/:id"})

\* refresh is guarded by the refresh cookie (JwtRefreshGuard), which a caller
\* without an access token may have: AuthSessions says when it is accepted.
AuthController == PartlyOpen(
  {"POST/auth/signup", "POST/auth/login", "POST/auth/refresh",
   "POST/auth/forgot-password", "POST/auth/reset-password"},
  {"POST/auth/logout", "POST/auth/change-password"})

BillingController == OfficeOnly(
  {"GET/billing/remittances", "GET/billing/remittances/:id", "GET/billing/remittances/:id/xml",
   "POST/billing/remittances/:id/collect", "POST/billing/remittance-items/:id/return",
   "DELETE/billing/remittances/:id", "POST/billing/charge-group",
   "POST/billing/generate-month", "POST/billing/sepa-remittance/preview",
   "POST/billing/sepa-remittance"})

ClassScheduleController == OfficeOnly(
  {"GET/groups/:id/schedule", "PUT/groups/:id/schedule",
   "POST/groups/:id/schedule/preview", "POST/groups/:id/schedule/generate"})

CoursesController == OfficeOnly(
  {"POST/courses", "GET/courses", "GET/courses/:id", "PATCH/courses/:id", "DELETE/courses/:id"})

EnrollmentsController == OfficeOnly(
  {"POST/enrollments", "GET/enrollments", "GET/enrollments/:id", "PATCH/enrollments/:id",
   "POST/enrollments/:id/enrollment-fee", "POST/enrollments/:id/offer-spot",
   "DELETE/enrollments/:id"})

GroupsController == OfficeOnly(
  {"POST/groups", "GET/groups", "GET/groups/:id", "PATCH/groups/:id", "DELETE/groups/:id"})

HolidaysController == OfficeOnly(
  {"GET/holidays", "POST/holidays", "POST/holidays/national", "DELETE/holidays/:id"})

InvoicesController == OfficeOnly(
  {"POST/invoices", "GET/invoices", "GET/invoices/:id", "PATCH/invoices/:id",
   "DELETE/invoices/:id", "POST/invoices/:id/rectifications", "GET/invoices/:id/pdf",
   "POST/invoices/:id/checkout", "POST/invoices/:id/payments", "GET/invoices/:id/payments"})

PaymentsController == OfficeOnly({"DELETE/payments/:id"})

MessagesController == OfficeOnly({"POST/messages/preview", "POST/messages", "GET/messages"})

PortalController == Guarded({"guardian"},
  {"GET/portal/students", "POST/portal/invoices/:id/checkout"}, {}, {})

PublicController == Open(
  {"GET/public/academy/:slug/groups", "POST/public/academy/:slug/enroll",
   "GET/public/academy/:slug/groups/:id/trial-sessions", "POST/public/academy/:slug/trial"})

ReportsController == OfficeOnly(
  {"GET/reports/today", "GET/reports/overview", "GET/reports/invoice-book",
   "GET/reports/payments"})

RoomsController == OfficeOnly(
  {"GET/rooms", "GET/rooms/conflicts", "POST/rooms", "PATCH/rooms/:id", "DELETE/rooms/:id"})

SessionsController == OfficeOnly(
  {"POST/sessions", "GET/sessions", "GET/sessions/:id", "PATCH/sessions/:id",
   "DELETE/sessions/:id"})

SettingsController == Guarded(Office, {"GET/settings"}, {"admin"}, {"PATCH/settings"})

StripeController == Open({"POST/stripe/webhook"})

StudentsController == Guarded(Office,
  {"POST/students", "POST/students/import", "GET/students/:id/portal-access",
   "POST/students/:id/portal-access", "DELETE/students/:id/portal-access/:id",
   "GET/students", "GET/students/:id", "PATCH/students/:id", "DELETE/students/:id"},
  {"admin"}, {"GET/students/:id/export", "POST/students/:id/erase"})

TeacherAppController == Guarded({"teacher"},
  {"GET/teacher/me", "GET/teacher/sessions", "GET/teacher/sessions/:id",
   "PUT/teacher/sessions/:id/attendance"}, {}, {})

TeachersController == Guarded(Office,
  {"POST/teachers", "GET/teachers", "GET/teachers/:id", "PATCH/teachers/:id",
   "DELETE/teachers/:id", "GET/teachers/:id/access"},
  {"admin"}, {"POST/teachers/:id/access", "DELETE/teachers/:id/access"})

TeamController == Guarded({"admin"}, {"GET/team", "POST/team", "DELETE/team/:id"}, {}, {})

TrialsController == OfficeOnly({"GET/trials", "POST/trials/:id/convert", "POST/trials/:id/cancel"})

UsersController == SignedIn({"GET/users/me"})

HealthController == Open({"GET/health", "GET/health/ready"})

\* The controllers of the API (app.module); no route is in two of them.
Controllers ==
  {AssessmentsController, TeacherAssessmentsController, ReportCardsController,
   AttendanceController, AuthController, BillingController, ClassScheduleController,
   CoursesController, EnrollmentsController, GroupsController, HolidaysController,
   InvoicesController, PaymentsController, MessagesController, PortalController,
   PublicController, ReportsController, RoomsController, SessionsController,
   SettingsController, StripeController, StudentsController, TeacherAppController,
   TeachersController, TeamController, TrialsController, UsersController, HealthController}

MayCall(who, route) == \E c \in Controllers : route \in DOMAIN c /\ who \in c[route]
=============================================================================
