----------------------------- MODULE MCScreens -----------------------------
(* Every page and panel of the web application. The ones in Impatient keep     *)
(* their word to a user who waits for nothing; on the others an overlap of two *)
(* of the user's own actions can make the API refuse the second, or a preview  *)
(* arrive late (README).                                                       *)
EXTENDS Screens

EveryPage == DOMAIN AllPages
Impatient == {"schedule", "messages", "session", "portal", "takeAttendance", "calendar",
              "reports", "invoices", "settings", "import", "groupReportCards",
              "officeAccount", "login", "enroll"}
=============================================================================
