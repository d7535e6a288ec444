------------------------------- MODULE Screens -------------------------------
(* One open page of the web application and the API behind it. The page shows  *)
(* the row as it was when it was last loaded; the row may be moved meanwhile by *)
(* anyone else (another tab, another user, a cron, a webhook). Every call is    *)
(* three steps: the user presses, the API serves, the page gets the answer; any *)
(* call can fail on either way. What each page does is in OfficePages and       *)
(* FamilyPages, what the API lets through and does in Routes and Rows.          *)
EXTENDS OfficePages, FamilyPages, Agenda

CONSTANTS Names,    \* the pages to open, among DOMAIN AllPages
          Hasty,    \* the pages whose user does not wait for an answer, nor
                    \* closes a form, before pressing something else
          MaxRequests  \* bound: toasts and calls there can be at the same time

AllPages ==
  [group |-> GroupPage, waitlist |-> GroupWaitlist, schedule |-> GroupSchedule,
   chargeGroup |-> ChargeGroupPanel, grades |-> GradesEditor,
   groupReportCards |-> GroupReportCards, invoice |-> InvoicePage, session |-> SessionPage,
   trials |-> TrialsPage, billing |-> BillingPage, remittances |-> RemittanceHistory,
   messages |-> MessagesPage, students |-> StudentsPage, import |-> StudentImportPanel,
   student |-> StudentPage, teachers |-> TeachersPage, teacher |-> TeacherPage,
   groups |-> GroupsPage, courses |-> CoursesPage, invoices |-> InvoicesPage,
   settings |-> SettingsPage, holidays |-> HolidaysPanel, rooms |-> RoomsPanel,
   team |-> TeamPanel, dashboard |-> DashboardPage, calendar |-> CalendarPage,
   reports |-> ReportsPage, search |-> CommandPalette, portal |-> PortalPage,
   teacherHome |-> TeacherHomePage, takeAttendance |-> TakeAttendancePage,
   teacherGroups |-> TeacherGradesPage, teacherGrades |-> TeacherGradesEditor,
   officeAccount |-> AccountPage(AppLayout), familyAccount |-> AccountPage(PortalLayout),
   teacherAccount |-> AccountPage(TeacherLayout), login |-> LoginPage, signup |-> SignupPage,
   forgotPassword |-> ForgotPasswordPage, resetPassword |-> ResetPasswordPage,
   enroll |-> EnrollPage, trialBooking |-> TrialBookingForm, privacy |-> AcademyPrivacyPage]
ASSUME PagesAssumption == /\ Names \subseteq DOMAIN AllPages /\ Hasty \subseteq Names
                          /\ MaxRequests \in Nat \ {0}
Requests == 1..MaxRequests

VARIABLES name, user, kind,   \* the open page, its user, and the kind of its row
          row,       \* the row in the database
          shown,     \* the row as the page shows it
          current,   \* nobody else has moved the row since it was read, nor has
                     \* an answer about it been lost
          loading, busy, forms,   \* the page's flags, and the forms left open
          chosen, preview,        \* what the user has chosen, and what the
                                  \* preview on view is of (0: nothing)
          calls      \* per request: what it is and how far it has got

opened == <<name, user, kind>>
view == <<shown, current, loading, busy, forms, chosen, preview>>
vars == <<opened, row, view, calls>>

page == AllPages[name]
act(h) == page.acts[h]
Idle == [step |-> "idle", act |-> "", got |-> NoRow, current |-> TRUE, choice |-> 0, seen |-> 0]
Free(c) == calls[c] = Idle
\* The next toast or call: the first of the numbers not in use.
Unused(c) == Free(c) /\ \A d \in 1..c - 1 : ~Free(d)
NoCalls == [c \in Requests |-> Idle]
Loading == [Idle EXCEPT !.step = "loading", !.act = "load"]
Looking(x) == [Idle EXCEPT !.step = "sent", !.act = "look", !.choice = x]
IsAct(c) == calls[c].act \in DOMAIN page.acts
Sent(c) == calls[c].step = "sent"

Choices == {1, 2}   \* bound: the user goes from one choice to another and back
\* A page with a button starts with something chosen, the others with nothing.
FirstChoice == IF page.choice.by = "button" THEN 1 ELSE 0

FirstLoading == page.load # {} /\ page.hides # "never"
FirstCalls == IF page.load = {} THEN NoCalls
              ELSE [NoCalls EXCEPT ![1] = Loading]

Init == /\ name \in Names
        /\ user \in page.who
        /\ kind \in page.of
        /\ row \in Rows[kind]
        /\ shown = NoRow /\ current = TRUE
        /\ loading = FirstLoading /\ busy = {} /\ forms = {}
        /\ chosen = FirstChoice /\ preview = 0
        /\ calls = FirstCalls

-----------------------------------------------------------------------------
(* The user.                                                               *)

\* "Cargando" stands where the control would be.
Hidden(h) == loading /\ (page.hides = "list" => act(h).of # "nothing" /\ h \notin forms)

\* The page draws the control of h: for the row shown, if it is about the row,
\* and with the preview it needs.
Offered(h) == /\ user \in act(h).by
              /\ act(h).of = kind => shown \in act(h).rows
              /\ h \in page.choice.acts => preview # 0
              /\ h \in page.choice.blind => preview = 0

\* A patient user has one thing in hand at a time.
Waits(hand) == name \in Hasty \/ (forms \subseteq hand /\ \A c \in Requests : Free(c))

OpenForm(h) == /\ act(h).form /\ h \notin forms
               /\ ~Hidden(h) /\ Offered(h) /\ Waits({})
               /\ forms' = forms \cup {h}
               /\ UNCHANGED <<opened, row, shown, current, loading, busy, chosen, preview, calls>>

CloseForm(h) == /\ h \in forms /\ ~Hidden(h)
                /\ forms' = forms \ {h}
                /\ UNCHANGED <<opened, row, shown, current, loading, busy, chosen, preview, calls>>

FlagOf(h) == (CASE h = "look" -> {page.choice.flag}
                [] h = "load" -> {}
                [] OTHER -> {act(h).flag}) \ {""}
Raise(h) == busy' = busy \cup FlagOf(h)
Lower(h) == busy' = busy \ FlagOf(h)

\* The control is pressed: the toast comes up, or the call leaves.
Press(c, h) ==
  /\ Unused(c) /\ ~Hidden(h) /\ Waits({h})
  /\ IF act(h).form THEN h \in forms ELSE Offered(h)
  /\ FlagOf(h) \cap busy = {}
  /\ LET toast == act(h).asks # "no" IN
     /\ calls' = [calls EXCEPT ![c] =
                   [Idle EXCEPT !.step = IF toast THEN "asking" ELSE "sent", !.act = h,
                                !.current = current, !.choice = chosen, !.seen = preview]]
     /\ IF toast /\ ~act(h).early THEN UNCHANGED busy ELSE Raise(h)
  /\ UNCHANGED <<opened, row, shown, current, loading, forms, chosen, preview>>

Confirm(c) ==
  /\ calls[c].step = "asking"
  /\ calls' = [calls EXCEPT ![c].step = "sent"]
  /\ Raise(calls[c].act)
  /\ UNCHANGED <<opened, row, shown, current, loading, forms, chosen, preview>>

\* Cancelled, dismissed, or closed by itself after 12 seconds. Where it only
\* asks whether to charge the fee the call is sent all the same.
Dismiss(c) ==
  /\ calls[c].step = "asking" /\ act(calls[c].act).asks = "stops"
  /\ calls' = [calls EXCEPT ![c] = Idle]
  /\ Lower(calls[c].act)
  /\ UNCHANGED <<opened, row, shown, current, loading, forms, chosen, preview>>

\* The user chooses something else: the effect that follows asks for its
\* preview, and a guarded one drops the answers it still waits for.
Dropped(c) == page.choice.guarded /\ calls[c].act = "look"
Choose(c, x) ==
  /\ page.choice.by # "nobody" /\ x # chosen /\ Unused(c) /\ Waits({})
  /\ chosen' = x
  /\ preview' = IF page.choice.clears THEN 0 ELSE preview
  /\ calls' = [d \in Requests |->
                 CASE d = c /\ page.choice.by = "effect" -> Looking(x)
                   [] Dropped(d) -> Idle
                   [] OTHER -> calls[d]]
  /\ UNCHANGED <<opened, row, shown, current, loading, busy, forms>>

\* The button that asks for the preview.
Look(c) ==
  /\ page.choice.by = "button" /\ Unused(c) /\ Waits({})
  /\ FlagOf("look") \cap busy = {}
  /\ Raise("look")
  /\ calls' = [calls EXCEPT ![c] = Looking(chosen)]
  /\ UNCHANGED <<opened, row, shown, current, loading, forms, chosen, preview>>

-----------------------------------------------------------------------------
(* The API.                                                                *)

\* The page's load: it answers with the row as it is now.
ServeLoad(c) ==
  /\ calls[c].step = "loading"
  /\ calls' = [calls EXCEPT ![c].step = "loaded", ![c].got = row, ![c].current = TRUE]
  /\ UNCHANGED <<opened, row, view>>

\* What a call may leave the row as; a call that is not about it, or that only
\* looks, leaves it alone.
Left(h) == IF h \in DOMAIN page.acts /\ act(h).of = kind /\ act(h).does # "nothing"
           THEN Does[act(h).does][row] ELSE {row}
Serve(c) ==
  /\ calls[c].step = "sent" /\ Left(calls[c].act) # {}
  /\ row' \in Left(calls[c].act)
  /\ calls' = [calls EXCEPT ![c].step = "served", ![c].got = row']
  /\ UNCHANGED <<opened, view>>
Refuse(c) ==
  /\ calls[c].step = "sent" /\ Left(calls[c].act) = {}
  /\ calls' = [calls EXCEPT ![c].step = "refused"]
  /\ UNCHANGED <<opened, row, view>>

\* Anyone else moves the row: a row that is gone does not come back.
Move == /\ row # Gone
        /\ row' \in Rows[kind] \ {row}
        /\ current' = FALSE
        /\ calls' = [c \in Requests |-> IF Free(c) THEN Idle
                                        ELSE [calls[c] EXCEPT !.current = FALSE]]
        /\ UNCHANGED <<opened, shown, loading, busy, forms, chosen, preview>>

-----------------------------------------------------------------------------
(* The answers.                                                            *)

AnswerLoad(c) ==
  /\ calls[c].step = "loaded"
  /\ shown' = calls[c].got /\ current' = calls[c].current
  /\ loading' = FALSE
  /\ Lower(calls[c].act)
  /\ calls' = [calls EXCEPT ![c] = Idle]
  /\ UNCHANGED <<opened, row, forms, chosen, preview>>

AnswerLook(c) ==
  /\ calls[c].step = "served" /\ calls[c].act = "look"
  /\ preview' = calls[c].choice
  /\ Lower("look")
  /\ calls' = [calls EXCEPT ![c] = Idle]
  /\ UNCHANGED <<opened, row, shown, current, loading, forms, chosen>>

Served(c, then) == /\ calls[c].step = "served" /\ calls[c].act # "look"
                   /\ act(calls[c].act).then = then
Closed(h) == forms' = forms \ {h}
Spent(h) == preview' = IF page.choice.spent /\ h \in page.choice.acts \cup page.choice.blind
                       THEN 0 ELSE preview

\* The call did its work: its form closes, and the page loads again,
AnswerReload(c) ==
  LET h == calls[c].act IN
  /\ Served(c, "reload")
  /\ Closed(h) /\ Spent(h)
  /\ calls' = [calls EXCEPT ![c].step = "loading"]
  /\ loading' = (loading \/ page.hides \in {"every", "list"})
  /\ UNCHANGED <<opened, row, shown, current, busy, chosen>>

\* or takes the row from the answer,
AnswerTake(c) ==
  LET h == calls[c].act IN
  /\ Served(c, "answer")
  /\ Closed(h) /\ Spent(h) /\ Lower(h)
  /\ shown' = calls[c].got /\ current' = calls[c].current
  /\ calls' = [calls EXCEPT ![c] = Idle]
  /\ UNCHANGED <<opened, row, loading, chosen>>

\* or stays as it is,
AnswerStay(c) ==
  LET h == calls[c].act IN
  /\ Served(c, "stay")
  /\ Closed(h) /\ Spent(h) /\ Lower(h)
  /\ calls' = [calls EXCEPT ![c] = Idle]
  /\ UNCHANGED <<opened, row, shown, current, loading, chosen>>

\* or is left; the user opens it again. (A payment by card lets go of the page
\* with its flag up. Only a browser that brings the page back from its cache
\* would show that, and opening a page is here loading it.)
AnswerLeave(c) ==
  /\ Served(c, "leave")
  /\ shown' = NoRow /\ current' = TRUE
  /\ loading' = FirstLoading /\ busy' = {} /\ forms' = {}
  /\ chosen' = FirstChoice /\ preview' = 0
  /\ calls' = FirstCalls
  /\ UNCHANGED <<opened, row>>

\* Mutant: without the finally.
FailWithoutFinally(c) ==
  /\ calls[c].step \in {"sent", "served", "refused", "loading", "loaded"}
  /\ current' = (current /\ (calls[c].act = "look" \/ calls[c].step \in {"sent", "refused"}))
  /\ loading' = (loading /\ calls[c].step \notin {"loading", "loaded"})
  /\ UNCHANGED busy
  /\ calls' = [calls EXCEPT ![c] = Idle]
  /\ UNCHANGED <<opened, row, shown, forms, chosen, preview>>
\* The API refused the call, or it was lost on the way there or back: the page
\* says so and lowers the flag (finally).
Fail(c) ==
  /\ calls[c].step \in {"sent", "served", "refused", "loading", "loaded"}
  /\ current' = (current /\ (calls[c].act = "look" \/ calls[c].step \in {"sent", "refused"}))
  /\ loading' = (loading /\ calls[c].step \notin {"loading", "loaded"})
  /\ Lower(calls[c].act)
  /\ calls' = [calls EXCEPT ![c] = Idle]
  /\ UNCHANGED <<opened, row, shown, forms, chosen, preview>>

\* What the API and the browser do for a call.
Settles(c) == \/ ServeLoad(c) \/ Serve(c) \/ Refuse(c) \/ Fail(c)
              \/ AnswerLoad(c) \/ AnswerLook(c) \/ AnswerReload(c) \/ AnswerTake(c)
              \/ AnswerStay(c) \/ AnswerLeave(c)
Decides(c) == Confirm(c) \/ Dismiss(c)

Next == \/ \E c \in Requests :
             \/ \E h \in DOMAIN page.acts : Press(c, h)
             \/ \E x \in Choices : Choose(c, x)
             \/ Look(c) \/ Decides(c) \/ Settles(c)
        \/ \E h \in DOMAIN page.acts : OpenForm(h) \/ CloseForm(h)
        \/ Move

Spec == Init /\ [][Next]_vars

-----------------------------------------------------------------------------
(* What makes the pages agree with the API.                                *)

\* No page asks the API for what the roles it lets in may not have: neither
\* when it opens nor when one of its controls is used.
NothingForbidden ==
  /\ \A r \in page.load \cup ({page.choice.call} \ {""}) : MayCall(user, r)
  /\ \A c \in Requests :
       Sent(c) /\ IsAct(c) => MayCall(user, act(calls[c].act).call)

\* The API refuses a call because of the state of its row only if somebody else
\* has moved the row since the page read it: the controls a page draws, its
\* forms included, are the ones the API lets through.
RefusedOnlyIfMoved ==
  \A c \in Requests : calls[c].step = "refused" => ~calls[c].current

\* What a page previews is what the user has chosen, unless a newer preview is
\* on its way; and what is sent on the strength of a preview is what was seen.
PreviewIsOfTheChoice ==
  /\ page.choice.clears /\ (\A c \in Requests : calls[c].act # "look") => preview \in {0, chosen}
  /\ \A c \in Requests : Sent(c) /\ calls[c].act \in page.choice.acts =>
       calls[c].seen = calls[c].choice

\* A flag that disables a control is up only while a call that will lower it is
\* under way, and "Cargando" is there only while a load is: whatever becomes of
\* the calls, no control stays out of reach.
NothingStaysDisabled ==
  /\ busy \subseteq UNION {FlagOf(calls[c].act) : c \in {d \in Requests : ~Free(d)}}
  /\ loading => \E c \in Requests : calls[c].step \in {"served", "loading", "loaded"}

\* The calendar lists every two classes that clash in a room and no others, and
\* draws classes that overlap side by side (RoomsService.conflicts, layoutDay).
OverlapsAreSeen == name = "calendar" /\ ~loading => SweepsFindOverlaps
=============================================================================
