---------------------------- MODULE ScreensProofs ----------------------------
(***************************************************************************)
(* What holds of the pages for every number of toasts and calls at once,   *)
(* for patient and hasty users: the flags that disable controls come down  *)
(* again, previews are of what is chosen, no page asks the API for what    *)
(* its users may not have, and the API refuses a call because of its row   *)
(* only if somebody else has moved the row since the page read it.         *)
(*                                                                         *)
(* The first two rest on what a call in progress still owes the page: the  *)
(* flag it will lower, the load that ends "Cargando", the choice its       *)
(* answer is a preview of.  The third rests on what was drawn to the user  *)
(* (Drawing), the last on what was drawn for the row (Agreement): a page   *)
(* that is up to date, a form it has open and a call it has sent are what  *)
(* the API lets through.  What these need of the tables of the pages, the  *)
(* guards and the handlers is in Sound, Entitled and Agreeing, which are   *)
(* proved for every page there is.                                         *)
(***************************************************************************)
EXTENDS Screens, TLAPS

-----------------------------------------------------------------------------
(* What the tables of the pages have in common.                            *)

\* A guarded preview raises no flag; only what a new choice clears is acted
\* upon, and by no form.
Sound(p) == /\ p.choice.guarded => p.choice.flag = ""
            /\ ~p.choice.clears => p.choice.acts = {}
            /\ "look" \notin p.choice.acts
            /\ \A h \in p.choice.acts : ~p.acts[h].form

(* A page without a choice is sound.                                       *)
LEMMA SoundWithoutChoice ==
  ASSUME NEW who, NEW load, NEW hides, NEW of, NEW acts
  PROVE  Sound(Page(who, load, hides, of, acts))
BY DEF Sound, Page, NoChoice

(* So is a page with one, if its choice is.                                *)
LEMMA SoundWithChoice ==
  ASSUME NEW who, NEW load, NEW hides, NEW acts, NEW choice,
         choice.guarded => choice.flag = "",
         ~choice.clears => choice.acts = {},
         "look" \notin choice.acts,
         \A h \in choice.acts : ~acts[h].form
  PROVE  Sound(Choosing(PageOfNone(who, load, hides, acts), choice))
<1> DEFINE p == Choosing(PageOfNone(who, load, hides, acts), choice)
<1>1. p.choice = choice /\ p.acts = acts
  BY DEF Choosing, PageOfNone, Page
<1> HIDE DEF p
<1>2. p.choice.guarded => p.choice.flag = ""
  BY <1>1
<1>3. ~p.choice.clears => p.choice.acts = {}
  BY <1>1
<1>4. "look" \notin p.choice.acts /\ \A h \in p.choice.acts : ~p.acts[h].form
  BY <1>1
<1> QED  BY <1>2, <1>3, <1>4 DEF Sound, p

LEMMA AlwaysIsNoForm == \A h : Always(h).form = FALSE
BY DEF Always, Drawn

(* The pages with a choice,                                                *)
LEMMA ChoicesAreSound ==
  /\ Sound(GroupSchedule) /\ Sound(ChargeGroupPanel) /\ Sound(BillingPage) /\ Sound(MessagesPage)
  /\ Sound(CalendarPage) /\ Sound(ReportsPage) /\ Sound(TeacherHomePage) /\ Sound(TrialBookingForm)
<1>1. Sound(GroupSchedule)
  <2> DEFINE acts == [save |-> Always(ScheduleSave), generate |-> Always(ScheduleGenerate)]
  <2>1. acts["generate"].form = FALSE
    BY AlwaysIsNoForm
  <2>2. /\ SchedulePreview.acts = {"generate"} /\ SchedulePreview.clears = TRUE
        /\ SchedulePreview.guarded = TRUE /\ SchedulePreview.flag = ""
    BY DEF SchedulePreview, Effect, NoChoice
  <2> HIDE DEF acts
  <2>3. GroupSchedule = Choosing(PageOfNone(AppLayout, ScheduleLoad, "first", acts), SchedulePreview)
    BY DEF GroupSchedule, acts
  <2> QED  BY <2>1, <2>2, <2>3, SoundWithChoice
<1>2. Sound(ChargeGroupPanel)
  <2> DEFINE acts == [handleCharge |-> Always(GroupCharge)]
  <2>1. acts["handleCharge"].form = FALSE
    BY AlwaysIsNoForm
  <2>2. /\ ChargePreview.acts = {"handleCharge"} /\ ChargePreview.clears = TRUE
        /\ ChargePreview.guarded = FALSE
    BY DEF ChargePreview, Button, NoChoice
  <2> HIDE DEF acts
  <2>3. ChargeGroupPanel = Choosing(PageOfNone(AppLayout, {}, "never", acts), ChargePreview)
    BY DEF ChargeGroupPanel, acts
  <2> QED  BY <2>1, <2>2, <2>3, SoundWithChoice
<1>3. Sound(BillingPage)
  <2> DEFINE acts == [generate |-> BillingGenerate, generateBlind |-> BillingGenerateBlind,
                      runSepaPreview |-> Always(SepaPreview),
                      handleSepaDownload |-> Always(SepaDownload)]
             choice == [BillingPreview EXCEPT !.blind = {"generateBlind"}]
  <2>1. acts["generate"].form = FALSE
    BY AlwaysIsNoForm DEF BillingGenerate
  <2>2. /\ choice.acts = {"generate"} /\ choice.clears = TRUE
        /\ choice.guarded = FALSE
    BY DEF BillingPreview, Button, NoChoice
  <2> HIDE DEF acts, choice
  <2>3. BillingPage = Choosing(PageOfNone(AppLayout, {}, "never", acts), choice)
    BY DEF BillingPage, acts, choice
  <2> QED  BY <2>1, <2>2, <2>3, SoundWithChoice
<1>4. Sound(MessagesPage)
  <2> DEFINE acts == [handleSend |-> Always(MessageSend)]
  <2>1. acts["handleSend"].form = FALSE
    BY AlwaysIsNoForm
  <2>2. /\ MessagePreview.acts = {"handleSend"} /\ MessagePreview.clears = TRUE
        /\ MessagePreview.guarded = TRUE /\ MessagePreview.flag = ""
    BY DEF MessagePreview, Effect, NoChoice
  <2> HIDE DEF acts
  <2>3. MessagesPage = Choosing(PageOfNone(AppLayout, MessagesLoad, "first", acts), MessagePreview)
    BY DEF MessagesPage, acts
  <2> QED  BY <2>1, <2>2, <2>3, SoundWithChoice
<1>5. Sound(TrialBookingForm)
  <2> DEFINE acts == [submit |-> Always(TrialSubmit)]
  <2>1. acts["submit"].form = FALSE
    BY AlwaysIsNoForm
  <2>2. /\ TrialSessions.acts = {"submit"} /\ TrialSessions.clears = TRUE
        /\ TrialSessions.guarded = FALSE
    BY DEF TrialSessions, Unguarded, Effect, NoChoice
  <2> HIDE DEF acts
  <2>3. TrialBookingForm = Choosing(PageOfNone(Public, EnrollLoad, "first", acts), TrialSessions)
    BY DEF TrialBookingForm, acts
  <2> QED  BY <2>1, <2>2, <2>3, SoundWithChoice
<1>6. Sound(CalendarPage)
  <2>1. CalendarConflicts.acts = {} /\ CalendarConflicts.guarded = FALSE
    BY DEF CalendarConflicts, Keeping, Unguarded, Effect, NoChoice
  <2> QED  BY <2>1, SoundWithChoice DEF CalendarPage
<1>7. Sound(ReportsPage)
  <2>1. ReportsOverview.acts = {} /\ ReportsOverview.guarded = FALSE
    BY DEF ReportsOverview, Keeping, Unguarded, Effect, NoChoice
  <2> QED  BY <2>1, SoundWithChoice DEF ReportsPage
<1>8. Sound(TeacherHomePage)
  <2>1. TeacherWeek.acts = {} /\ TeacherWeek.guarded = FALSE
    BY DEF TeacherWeek, Unguarded, Effect, NoChoice
  <2> QED  BY <2>1, SoundWithChoice DEF TeacherHomePage
<1> QED  BY <1>1, <1>2, <1>3, <1>4, <1>5, <1>6, <1>7, <1>8

(* and all of them.                                                        *)
LEMMA PagesAreSound ==
  ASSUME NEW n \in DOMAIN AllPages
  PROVE  Sound(AllPages[n])
<1>1. CASE n \in {"group", "waitlist", "invoice", "session", "trials", "remittances",
               "students"}
  BY <1>1, SoundWithoutChoice DEF AllPages, GroupPage, GroupWaitlist, InvoicePage,
     SessionPage, TrialsPage, RemittanceHistory, StudentsPage, PageOfNone
<1>2. CASE n \in {"import", "student", "teachers", "teacher", "groups", "courses",
               "invoices"}
  BY <1>2, SoundWithoutChoice DEF AllPages, StudentImportPanel, StudentPage, TeachersPage,
     TeacherPage, GroupsPage, CoursesPage, InvoicesPage, PageOfNone
<1>3. CASE n \in {"settings", "holidays", "rooms", "team", "dashboard", "search", "grades",
               "groupReportCards"}
  BY <1>3, SoundWithoutChoice DEF AllPages, SettingsPage, HolidaysPanel, RoomsPanel,
     TeamPanel, DashboardPage, CommandPalette, GradesEditor, GroupReportCards, PageOfNone
<1>4. CASE n \in {"portal", "takeAttendance", "teacherGroups", "teacherGrades",
               "officeAccount", "familyAccount", "teacherAccount"}
  BY <1>4, SoundWithoutChoice DEF AllPages, PortalPage, TakeAttendancePage,
     TeacherGradesPage, TeacherGradesEditor, AccountPage, PageOfNone
<1>5. CASE n \in {"login", "signup", "forgotPassword", "resetPassword", "enroll", "privacy"}
  BY <1>5, SoundWithoutChoice DEF AllPages, LoginPage, SignupPage, ForgotPasswordPage,
     ResetPasswordPage, EnrollPage, AcademyPrivacyPage, PageOfNone
<1>6. CASE n \in {"schedule", "chargeGroup", "billing", "messages", "calendar", "reports",
               "teacherHome", "trialBooking"}
  BY <1>6, ChoicesAreSound DEF AllPages
<1> QED  BY <1>1, <1>2, <1>3, <1>4, <1>5, <1>6 DEF AllPages

-----------------------------------------------------------------------------
(* What a call in progress owes the page.                                  *)

\* A call has its fields.
IsCall(x) == x = [step |-> x.step, act |-> x.act, got |-> x.got,
                  current |-> x.current, choice |-> x.choice, seen |-> x.seen]
CallsHold == /\ name \in Names
             /\ calls = [c \in Requests |-> calls[c]]
             /\ \A c \in Requests : IsCall(calls[c])

\* The flag of h on the page called n.
Flags(n, h) == (CASE h = "look" -> {AllPages[n].choice.flag}
                  [] h = "load" -> {}
                  [] OTHER -> {AllPages[n].acts[h].flag}) \ {""}
\* A flag is up for a call that will lower it, and "Cargando" for a load.
FlagsHold == \A f \in busy : \E c \in Requests : ~Free(c) /\ f \in Flags(name, calls[c].act)
OfLoad == {"loading", "loaded"}
LoadingHolds == /\ loading => \E c \in Requests : calls[c].step \in OfLoad
                /\ \A c \in Requests : calls[c].step \in OfLoad => calls[c].act # "look"
Owed == CallsHold /\ FlagsHold /\ LoadingHolds

LEMMA FlagIsOfThePage == \A h : FlagOf(h) = Flags(name, h)
BY DEF FlagOf, Flags, page, act

(* A call that gets one step further.                                      *)
LEMMA Further ==
  ASSUME CallsHold, NEW c \in Requests, NEW s
  PROVE  LET x == [calls[c] EXCEPT !.step = s]
         IN /\ IsCall(x) /\ x.step = s /\ x.act = calls[c].act
            /\ x.choice = calls[c].choice /\ x.seen = calls[c].seen
            /\ [calls EXCEPT ![c].step = s] = [calls EXCEPT ![c] = x]
BY DEF CallsHold, IsCall

LEMMA IdleIsCall == /\ IsCall(Idle) /\ Idle.step = "idle" /\ Idle.act = ""
                    /\ Idle.choice = 0 /\ Idle.seen = 0
BY DEF Idle, IsCall

LEMMA LookingIsCall ==
  ASSUME NEW z
  PROVE  /\ IsCall(Looking(z)) /\ Looking(z).step = "sent" /\ Looking(z).act = "look"
         /\ Looking(z).choice = z /\ Looking(z) # Idle
<1> PICK x : x = Looking(z)
  OBVIOUS
<1>1. IsCall(x) /\ x.step = "sent" /\ x.act = "look" /\ x.choice = z
  BY DEF IsCall, Looking, Idle
<1>2. x # Idle
  BY <1>1, IdleIsCall
<1> QED  BY <1>1, <1>2

LEMMA LoadingIsCall == IsCall(Loading) /\ Loading.step = "loading" /\ Loading.act = "load"
<1> PICK x : x = Loading
  OBVIOUS
<1>1. IsCall(x) /\ x.step = "loading" /\ x.act = "load"
  BY DEF IsCall, Loading, Idle
<1> QED  BY <1>1

(* The calls after one of them has changed.                                *)
LEMMA OneChanged ==
  ASSUME CallsHold, NEW c \in Requests, NEW x, IsCall(x),
         calls' = [calls EXCEPT ![c] = x], UNCHANGED opened
  PROVE  /\ CallsHold' /\ calls'[c] = x
         /\ \A d \in Requests \ {c} : calls'[d] = calls[d]
BY DEF CallsHold, opened

(* A step of one call keeps what is owed: the flags that stay up are owed by *)
(* other calls, or by what this one has become.                            *)
LEMMA OneStepOwes ==
  ASSUME Owed, NEW c \in Requests, NEW x, IsCall(x),
         calls' = [calls EXCEPT ![c] = x], UNCHANGED opened,
         \A f \in busy' : \/ f \in busy /\ (Free(c) \/ f \notin Flags(name, calls[c].act))
                          \/ x # Idle /\ f \in Flags(name, x.act),
         loading' => (loading /\ calls[c].step \notin OfLoad) \/ x.step \in OfLoad,
         x.step \in OfLoad => x.act # "look"
  PROVE  Owed'
<1>1. /\ CallsHold' /\ calls'[c] = x
      /\ \A d \in Requests \ {c} : calls'[d] = calls[d]
  BY OneChanged DEF Owed
<1>2. FlagsHold'
  <2> SUFFICES ASSUME NEW f \in busy'
               PROVE  \E d \in Requests : ~Free(d)' /\ f \in Flags(name', calls'[d].act)
    BY DEF FlagsHold
  <2>1. name' = name
    BY DEF opened
  <2>2. CASE x # Idle /\ f \in Flags(name, x.act)
    BY <1>1, <2>1, <2>2 DEF Free
  <2>3. CASE f \in busy /\ (Free(c) \/ f \notin Flags(name, calls[c].act))
    <3> PICK d \in Requests : ~Free(d) /\ f \in Flags(name, calls[d].act)
      BY <2>3 DEF Owed, FlagsHold
    <3>1. d # c
      BY <2>3
    <3> QED  BY <1>1, <2>1, <3>1 DEF Free
  <2> QED  BY <2>2, <2>3
<1>3. LoadingHolds'
  <2>1. loading' => \E d \in Requests : calls'[d].step \in OfLoad
    BY <1>1 DEF Owed, LoadingHolds
  <2>2. \A d \in Requests : calls'[d].step \in OfLoad => calls'[d].act # "look"
    BY <1>1 DEF Owed, LoadingHolds
  <2> QED  BY <2>1, <2>2 DEF LoadingHolds
<1> QED  BY <1>1, <1>2, <1>3 DEF Owed

(* A call that goes on, whatever else its step does, still owes its flag.  *)
LEMMA StillOwed ==
  ASSUME Owed, NEW c \in Requests, NEW x, IsCall(x), x.step # "idle",
         x.act = calls[c].act, calls' = [calls EXCEPT ![c] = x],
         UNCHANGED opened, busy' \in {busy, busy \cup FlagOf(x.act)},
         loading' => (loading /\ calls[c].step \notin OfLoad) \/ x.step \in OfLoad,
         x.step \in OfLoad => x.act # "look"
  PROVE  Owed'
<1>1. x # Idle
  BY IdleIsCall
<1>2. \A f \in busy' : \/ f \in busy /\ (Free(c) \/ f \notin Flags(name, calls[c].act))
                       \/ x # Idle /\ f \in Flags(name, x.act)
  BY <1>1, FlagIsOfThePage
<1> QED  BY <1>2, OneStepOwes

(* A call that ends lowers it.                                             *)
LEMMA NothingOwed ==
  ASSUME Owed, NEW c \in Requests, calls' = [calls EXCEPT ![c] = Idle],
         UNCHANGED opened, busy' = busy \ FlagOf(calls[c].act),
         loading' => loading /\ calls[c].step \notin OfLoad
  PROVE  Owed'
<1>1. \A f \in busy' : f \in busy /\ f \notin Flags(name, calls[c].act)
  BY FlagIsOfThePage
<1>2. IsCall(Idle) /\ Idle.step \notin OfLoad
  BY IdleIsCall DEF OfLoad
<1> QED  BY <1>1, <1>2, OneStepOwes

(* The user presses, confirms, dismisses, or asks for a preview.           *)
LEMMA PressOwes ==
  ASSUME Owed, NEW c \in Requests, NEW h, Press(c, h)
  PROVE  Owed'
<1> DEFINE toast == act(h).asks # "no"
<1> PICK x : x = [Idle EXCEPT !.step = IF toast THEN "asking" ELSE "sent", !.act = h,
                              !.current = current, !.choice = chosen, !.seen = preview]
  OBVIOUS
<1>1. IsCall(x) /\ x.step \in {"asking", "sent"} /\ x.act = h
  BY DEF IsCall, Idle
<1>2. calls' = [calls EXCEPT ![c] = x] /\ UNCHANGED <<opened, loading>>
  BY DEF Press
<1>3. busy' \in {busy, busy \cup FlagOf(h)}
  BY DEF Press, Raise
<1>4. Free(c) /\ calls[c].step = "idle"
  BY IdleIsCall DEF Press, Unused, Free
<1>5. x # Idle /\ x.step \notin OfLoad /\ calls[c].step \notin OfLoad
  BY <1>1, <1>4, IdleIsCall DEF OfLoad
<1>6. \A f \in busy' : f \in busy \/ f \in Flags(name, x.act)
  BY <1>1, <1>3, FlagIsOfThePage
<1> QED  BY <1>1, <1>2, <1>4, <1>5, <1>6, OneStepOwes

LEMMA LookOwes ==
  ASSUME Owed, NEW c \in Requests, Look(c)
  PROVE  Owed'
<1> PICK x : x = Looking(chosen)
  OBVIOUS
<1>1. IsCall(x) /\ x.step = "sent" /\ x.act = "look"
  BY LookingIsCall
<1>2. /\ calls' = [calls EXCEPT ![c] = x] /\ UNCHANGED <<opened, loading>>
      /\ busy' = busy \cup FlagOf("look")
  BY DEF Look, Raise
<1>3. Free(c) /\ calls[c].step = "idle"
  BY IdleIsCall DEF Look, Unused, Free
<1>4. x # Idle /\ x.step \notin OfLoad /\ calls[c].step \notin OfLoad
  BY <1>1, <1>3, IdleIsCall DEF OfLoad
<1>5. \A f \in busy' : f \in busy \/ f \in Flags(name, x.act)
  BY <1>1, <1>2, FlagIsOfThePage
<1> QED  BY <1>1, <1>2, <1>3, <1>4, <1>5, OneStepOwes

LEMMA DecisionOwes ==
  ASSUME Owed, NEW c \in Requests, Decides(c)
  PROVE  Owed'
<1>1. CASE Confirm(c)
  <2> PICK x : x = [calls[c] EXCEPT !.step = "sent"]
    OBVIOUS
  <2>1. /\ IsCall(x) /\ x.step = "sent" /\ x.act = calls[c].act
        /\ calls' = [calls EXCEPT ![c] = x]
    BY <1>1, Further DEF Owed, Confirm
  <2>2. UNCHANGED <<opened, loading>> /\ busy' = busy \cup FlagOf(x.act) /\ calls[c].step = "asking"
    BY <1>1, <2>1 DEF Confirm, Raise
  <2> QED  BY <2>1, <2>2, StillOwed DEF OfLoad
<1>2. CASE Dismiss(c)
  BY <1>2, NothingOwed DEF Dismiss, Lower, OfLoad
<1> QED  BY <1>1, <1>2 DEF Decides

(* The API serves or refuses.                                              *)
LEMMA ServingOwes ==
  ASSUME Owed, NEW c \in Requests, ServeLoad(c) \/ Serve(c) \/ Refuse(c)
  PROVE  Owed'
<1> PICK x : \/ ServeLoad(c) /\ x = [calls[c] EXCEPT !.step = "loaded", !.got = row, !.current = TRUE]
             \/ Serve(c) /\ x = [calls[c] EXCEPT !.step = "served", !.got = row']
             \/ Refuse(c) /\ x = [calls[c] EXCEPT !.step = "refused"]
  OBVIOUS
<1>1. IsCall(calls[c]) /\ calls = [d \in Requests |-> calls[d]]
  BY DEF Owed, CallsHold
<1>2. IsCall(x) /\ x.act = calls[c].act
      /\ x.step = IF ServeLoad(c) THEN "loaded" ELSE IF Serve(c) THEN "served" ELSE "refused"
  BY <1>1 DEF IsCall, ServeLoad, Serve, Refuse
<1>3. calls' = [calls EXCEPT ![c] = x]
  BY <1>1 DEF ServeLoad, Serve, Refuse
<1>4. UNCHANGED <<opened, busy, loading>>
  BY DEF ServeLoad, Serve, Refuse, view
<1>5. x.step \in OfLoad => calls[c].step \in OfLoad /\ x.act # "look"
  BY <1>2 DEF ServeLoad, OfLoad, Owed, LoadingHolds
<1>6. calls[c].step \in OfLoad => x.step \in OfLoad
  BY <1>2 DEF ServeLoad, Serve, Refuse, OfLoad
<1> QED  BY <1>2, <1>3, <1>4, <1>5, <1>6, StillOwed

(* The page gets an answer, or learns that there is none.                  *)
LEMMA AnswerOwes ==
  ASSUME Owed, NEW c \in Requests,
         AnswerLoad(c) \/ AnswerLook(c) \/ AnswerTake(c) \/ AnswerStay(c) \/ Fail(c)
  PROVE  Owed'
<1>1. calls' = [calls EXCEPT ![c] = Idle] /\ UNCHANGED opened
  BY DEF AnswerLoad, AnswerLook, AnswerTake, AnswerStay, Fail
<1>2. busy' = busy \ FlagOf(calls[c].act)
  BY DEF AnswerLoad, AnswerLook, AnswerTake, AnswerStay, Fail, Lower
<1>3. loading' => loading /\ calls[c].step \notin OfLoad
  BY DEF AnswerLoad, AnswerLook, AnswerTake, AnswerStay, Fail, Served, OfLoad
<1> QED  BY <1>1, <1>2, <1>3, NothingOwed

(* The answer makes the page load again.                                   *)
LEMMA ReloadOwes ==
  ASSUME Owed, NEW c \in Requests, AnswerReload(c)
  PROVE  Owed'
<1> PICK x : x = [calls[c] EXCEPT !.step = "loading"]
  OBVIOUS
<1>1. /\ IsCall(x) /\ x.step = "loading" /\ x.act = calls[c].act
      /\ calls' = [calls EXCEPT ![c] = x]
  BY Further DEF Owed, AnswerReload
<1>2. UNCHANGED <<opened, busy>> /\ calls[c].act # "look"
  BY DEF AnswerReload, Served
<1> QED  BY <1>1, <1>2, StillOwed DEF OfLoad

(* The page as it opens owes its first load.                               *)

Opening == name \in Names /\ busy = {} /\ loading = FirstLoading /\ calls = FirstCalls
LEMMA OpeningOwes == Opening => Owed
<1> SUFFICES ASSUME Opening  PROVE Owed
  OBVIOUS
<1> USE DEF Opening
<1>1. IsCall(Loading) /\ Loading.step = "loading" /\ Loading.act = "load"
  BY LoadingIsCall
<1>2. 1 \in Requests
  BY PagesAssumption DEF Requests
<1>3. calls = [c \in Requests |-> IF c = 1 /\ page.load # {} THEN Loading ELSE Idle]
  <2>1. CASE page.load = {}
    BY <2>1 DEF FirstCalls, NoCalls
  <2>2. CASE page.load # {}
    BY <1>2, <2>2 DEF FirstCalls, NoCalls
  <2> QED  BY <2>1, <2>2
<1>4. CallsHold
  BY <1>1, <1>3, IdleIsCall DEF CallsHold
<1>5. LoadingHolds
  <2>1. loading => calls[1].step \in OfLoad
    BY <1>1, <1>2, <1>3 DEF FirstLoading, OfLoad
  <2>2. \A c \in Requests : calls[c].act # "look"
    BY <1>1, <1>3, IdleIsCall
  <2> QED  BY <1>2, <2>1, <2>2 DEF LoadingHolds
<1> QED  BY <1>4, <1>5 DEF Owed, FlagsHold

LEMMA LeavingOwes ==
  ASSUME Owed, NEW c \in Requests, AnswerLeave(c)
  PROVE  Owed'
<1>1. name' = name /\ busy' = {} /\ loading' = FirstLoading /\ calls' = FirstCalls
  BY DEF AnswerLeave, opened
<1>2. FirstLoading' = FirstLoading /\ FirstCalls' = FirstCalls
  BY <1>1 DEF FirstLoading, FirstCalls, page
<1>3. Opening'
  BY <1>1, <1>2 DEF Opening, Owed, CallsHold
<1> QED  BY <1>3, OpeningOwes, PTL

(* A choice is made: what it drops raised no flag.                         *)
LEMMA ChoiceOwes ==
  ASSUME Owed, NEW c \in Requests, NEW z \in Choices, Choose(c, z)
  PROVE  Owed'
<1>1. IsCall(Looking(z)) /\ Looking(z).step = "sent" /\ Looking(z) # Idle
  BY LookingIsCall
<1>2. UNCHANGED <<opened, busy, loading>> /\ Free(c) /\ name' = name
  BY DEF Choose, Unused, opened
<1>3. ASSUME NEW d \in Requests
      PROVE  \/ calls'[d] = calls[d]
             \/ d = c /\ calls'[d] = Looking(z)
             \/ Dropped(d) /\ calls'[d] = Idle
  <2>1. CASE d = c /\ page.choice.by = "effect"
    BY <2>1 DEF Choose
  <2>2. CASE ~(d = c /\ page.choice.by = "effect") /\ Dropped(d)
    BY <2>2 DEF Choose
  <2>3. CASE ~(d = c /\ page.choice.by = "effect") /\ ~Dropped(d)
    BY <2>3 DEF Choose
  <2> QED  BY <2>1, <2>2, <2>3
<1>4. CallsHold'
  <2>1. calls' = [d \in Requests |-> calls'[d]]
    BY DEF Choose
  <2>2. \A d \in Requests : IsCall(calls'[d])
    BY <1>1, <1>3, IdleIsCall DEF Owed, CallsHold
  <2> QED  BY <1>2, <2>1, <2>2 DEF Owed, CallsHold
<1>5. FlagsHold'
  <2> SUFFICES ASSUME NEW f \in busy
               PROVE  \E d \in Requests : calls'[d] # Idle /\ f \in Flags(name, calls'[d].act)
    BY <1>2 DEF FlagsHold, Free
  <2> PICK d \in Requests : ~Free(d) /\ f \in Flags(name, calls[d].act)
    BY DEF Owed, FlagsHold
  <2>1. ~Dropped(d)
    <3>1. page.choice.guarded => page.choice.flag = ""
      BY PagesAssumption, PagesAreSound DEF Owed, CallsHold, page, Sound
    <3>2. Dropped(d) => Flags(name, calls[d].act) = {}
      BY <3>1 DEF Dropped, Flags, page
    <3> QED  BY <3>2
  <2>2. calls'[d] = calls[d]
    BY <1>2, <1>3, <2>1
  <2> QED  BY <2>2 DEF Free
<1>6. LoadingHolds'
  <2>1. \A d \in Requests : calls[d].step \in OfLoad => calls'[d] = calls[d]
    BY <1>2, <1>3, IdleIsCall DEF Owed, LoadingHolds, Dropped, Free, OfLoad
  <2>2. \A d \in Requests : calls'[d].step \in OfLoad => calls'[d] = calls[d]
    BY <1>1, <1>3, IdleIsCall DEF OfLoad
  <2> QED  BY <1>2, <2>1, <2>2 DEF Owed, LoadingHolds
<1> QED  BY <1>4, <1>5, <1>6 DEF Owed

(* The row moves: every call in progress learns of it.                     *)
LEMMA MoveOwes ==
  ASSUME Owed, Move
  PROVE  Owed'
<1>1. UNCHANGED <<opened, busy, loading>> /\ name' = name
  BY DEF Move, opened
<1>2. ASSUME NEW d \in Requests
      PROVE  /\ IsCall(calls'[d]) /\ calls'[d].step = calls[d].step /\ calls'[d].act = calls[d].act
             /\ ~Free(d) => calls'[d] # Idle
  <2>1. CASE Free(d)
    BY <2>1, IdleIsCall DEF Move, Free
  <2>2. CASE ~Free(d)
    <3>1. calls'[d] = [calls[d] EXCEPT !.current = FALSE]
      BY <2>2 DEF Move
    <3>2. IsCall(calls[d])
      BY DEF Owed, CallsHold
    <3>3. IsCall(calls'[d]) /\ calls'[d].step = calls[d].step /\ calls'[d].act = calls[d].act
      BY <3>1, <3>2 DEF IsCall
    <3>4. calls'[d].current = FALSE /\ Idle.current = TRUE
      BY <3>1, <3>2 DEF IsCall, Idle
    <3> QED  BY <3>3, <3>4
  <2> QED  BY <2>1, <2>2
<1>3. CallsHold'
  <2>1. calls' = [d \in Requests |-> calls'[d]]
    BY DEF Move
  <2> QED  BY <1>1, <1>2, <2>1 DEF Owed, CallsHold
<1>4. FlagsHold'
  BY <1>1, <1>2 DEF Owed, FlagsHold, Free
<1>5. LoadingHolds'
  BY <1>1, <1>2 DEF Owed, LoadingHolds
<1> QED  BY <1>3, <1>4, <1>5 DEF Owed

(* What a call in progress owes the page, in every state.                  *)
THEOREM CallsOwe == Spec => []Owed
<1>1. ASSUME Init  PROVE Owed
  BY <1>1, OpeningOwes DEF Init, Opening
<1>2. ASSUME Owed, [Next]_vars  PROVE Owed'
  <2>1. CASE UNCHANGED vars
    BY <1>2, <2>1 DEF vars, opened, view, Owed, CallsHold, FlagsHold, LoadingHolds, Free
  <2>2. ASSUME NEW c \in Requests, NEW h \in DOMAIN page.acts, Press(c, h)  PROVE Owed'
    BY <1>2, <2>2, PressOwes
  <2>3. ASSUME NEW c \in Requests, NEW z \in Choices, Choose(c, z)  PROVE Owed'
    BY <1>2, <2>3, ChoiceOwes
  <2>4. ASSUME NEW c \in Requests, Look(c) \/ Decides(c)  PROVE Owed'
    BY <1>2, <2>4, LookOwes, DecisionOwes
  <2>5. ASSUME NEW c \in Requests, Settles(c)  PROVE Owed'
    <3>1. CASE ServeLoad(c) \/ Serve(c) \/ Refuse(c)
      BY <1>2, <3>1, ServingOwes
    <3>2. CASE AnswerLoad(c) \/ AnswerLook(c) \/ AnswerTake(c) \/ AnswerStay(c) \/ Fail(c)
      BY <1>2, <3>2, AnswerOwes
    <3>3. CASE AnswerReload(c)
      BY <1>2, <3>3, ReloadOwes
    <3>4. CASE AnswerLeave(c)
      BY <1>2, <3>4, LeavingOwes
    <3> QED  BY <2>5, <3>1, <3>2, <3>3, <3>4 DEF Settles
  <2>6. ASSUME NEW h, OpenForm(h) \/ CloseForm(h)  PROVE Owed'
    <3>1. UNCHANGED <<opened, loading, busy, calls>>
      BY <2>6 DEF OpenForm, CloseForm
    <3> QED  BY <1>2, <3>1 DEF opened, Owed, CallsHold, FlagsHold, LoadingHolds, Free
  <2>7. CASE Move
    BY <1>2, <2>7, MoveOwes
  <2> QED  BY <1>2, <2>1, <2>2, <2>3, <2>4, <2>5, <2>6, <2>7 DEF Next
<1> QED  BY <1>1, <1>2, PTL DEF Spec

(* No flag stays up and no "Cargando" stays on view when nothing is under   *)
(* way that takes it away: for every page, and however many calls, toasts   *)
(* and lost answers there are.                                             *)
THEOREM NothingIsLeftDisabled == Spec => []NothingStaysDisabled
<1>1. ASSUME Owed  PROVE NothingStaysDisabled
  <2>1. busy \subseteq UNION {FlagOf(calls[c].act) : c \in {d \in Requests : ~Free(d)}}
    BY <1>1, FlagIsOfThePage DEF Owed, FlagsHold
  <2>2. loading => \E c \in Requests : calls[c].step \in {"served", "loading", "loaded"}
    BY <1>1 DEF Owed, LoadingHolds, OfLoad
  <2> QED  BY <2>1, <2>2 DEF NothingStaysDisabled
<1> QED  BY <1>1, CallsOwe, PTL

-----------------------------------------------------------------------------
(* What a preview is of.                                                   *)

\* Where a new choice clears it, the preview on view, and every one on its way,
\* is of what is chosen; and a call that needs one saw that.
ChoiceHolds == page.choice.clears =>
                 /\ preview \in {0, chosen}
                 /\ \A c \in Requests : calls[c].act = "look" => calls[c].choice = chosen
SeenHolds == \A c \in Requests : calls[c].act \in page.choice.acts => calls[c].seen = calls[c].choice
Previews == ChoiceHolds /\ SeenHolds

\* The user of such a page waits for the preview, unless the page drops the
\* answers that come late.
LateOnesAreDropped ==
  \A n \in Hasty : \/ AllPages[n].choice.by = "nobody" \/ AllPages[n].choice.guarded
                   \/ ~AllPages[n].choice.clears

(* A step of one call keeps them.                                          *)
LEMMA OneStepPreviews ==
  ASSUME CallsHold, Previews, NEW c \in Requests, NEW x, IsCall(x),
         calls' = [calls EXCEPT ![c] = x], UNCHANGED <<opened, chosen>>,
         page.choice.clears => preview' \in {0, chosen},
         page.choice.clears /\ x.act = "look" => x.choice = chosen,
         x.act \in page.choice.acts => x.seen = x.choice
  PROVE  Previews'
<1>1. calls'[c] = x /\ \A d \in Requests \ {c} : calls'[d] = calls[d]
  BY OneChanged
<1>2. page' = page
  BY DEF opened, page
<1>3. ChoiceHolds'
  <2> SUFFICES ASSUME page.choice.clears
               PROVE  /\ preview' \in {0, chosen}
                      /\ \A d \in Requests : calls'[d].act = "look" => calls'[d].choice = chosen
    BY <1>2 DEF ChoiceHolds
  <2>1. \A d \in Requests : calls[d].act = "look" => calls[d].choice = chosen
    BY DEF Previews, ChoiceHolds
  <2> QED  BY <1>1, <2>1
<1>4. SeenHolds'
  BY <1>1, <1>2 DEF Previews, SeenHolds
<1> QED  BY <1>3, <1>4 DEF Previews

(* So does one that leaves what it is about as it was.                     *)
LEMMA SameCallPreviews ==
  ASSUME CallsHold, Previews, NEW c \in Requests, NEW x, IsCall(x),
         x.act = calls[c].act, x.choice = calls[c].choice, x.seen = calls[c].seen,
         calls' = [calls EXCEPT ![c] = x], UNCHANGED <<opened, chosen>>,
         preview' \in {0, preview}
  PROVE  Previews'
BY OneStepPreviews DEF Previews, ChoiceHolds, SeenHolds

(* And one that ends.                                                      *)
LEMMA EndPreviews ==
  ASSUME CallsHold, Previews, NEW c \in Requests,
         calls' = [calls EXCEPT ![c] = Idle], UNCHANGED <<opened, chosen>>,
         page.choice.clears => preview' \in {0, chosen}
  PROVE  Previews'
BY OneStepPreviews, IdleIsCall

(* What is pressed with a preview on view has seen it.                     *)
LEMMA PressPreviews ==
  ASSUME CallsHold, Previews, NEW c \in Requests, NEW h, Press(c, h)
  PROVE  Previews'
<1> PICK x : x = [Idle EXCEPT !.step = IF act(h).asks # "no" THEN "asking" ELSE "sent", !.act = h,
                              !.current = current, !.choice = chosen, !.seen = preview]
  OBVIOUS
<1>1. IsCall(x) /\ x.act = h /\ x.choice = chosen /\ x.seen = preview
  BY DEF IsCall, Idle
<1>2. calls' = [calls EXCEPT ![c] = x] /\ UNCHANGED <<opened, chosen, preview>>
  BY DEF Press
<1>3. page.choice.clears => preview' \in {0, chosen}
  BY <1>2 DEF Previews, ChoiceHolds
<1>4. ASSUME h \in page.choice.acts  PROVE preview = chosen
  <2>1. Sound(page)
    BY PagesAssumption, PagesAreSound DEF CallsHold, page
  <2>2. page.choice.clears /\ ~act(h).form
    BY <1>4, <2>1 DEF Sound, act
  <2>3. preview # 0
    BY <1>4, <2>2 DEF Press, Offered
  <2> QED  BY <2>2, <2>3 DEF Previews, ChoiceHolds
<1> QED  BY <1>1, <1>2, <1>3, <1>4, OneStepPreviews

LEMMA LookPreviews ==
  ASSUME CallsHold, Previews, NEW c \in Requests, Look(c)
  PROVE  Previews'
<1>1. calls' = [calls EXCEPT ![c] = Looking(chosen)] /\ UNCHANGED <<opened, chosen, preview>>
  BY DEF Look
<1>2. "look" \notin page.choice.acts
  BY PagesAssumption, PagesAreSound DEF CallsHold, page, Sound
<1>3. page.choice.clears => preview' \in {0, chosen}
  BY <1>1 DEF Previews, ChoiceHolds
<1> QED  BY <1>1, <1>2, <1>3, LookingIsCall, OneStepPreviews

(* A new choice: no preview of the old one is left, neither on view nor on  *)
(* its way.                                                                *)
LEMMA ChoicePreviews ==
  ASSUME LateOnesAreDropped, Owed, Previews, NEW c \in Requests, NEW z \in Choices, Choose(c, z)
  PROVE  Previews'
<1>1. chosen' = z /\ page' = page /\ (page.choice.clears => preview' = 0)
  BY DEF Choose, opened, page
<1>2. ASSUME NEW d \in Requests
      PROVE  \/ calls'[d] = calls[d] /\ ~Dropped(d)
             \/ calls'[d] = Looking(z)
             \/ calls'[d] = Idle
  <2>1. CASE d = c /\ page.choice.by = "effect"
    BY <2>1 DEF Choose
  <2>2. CASE ~(d = c /\ page.choice.by = "effect") /\ Dropped(d)
    BY <2>2 DEF Choose
  <2>3. CASE ~(d = c /\ page.choice.by = "effect") /\ ~Dropped(d)
    BY <2>3 DEF Choose
  <2> QED  BY <2>1, <2>2, <2>3
<1>3. ASSUME page.choice.clears, NEW d \in Requests, calls[d].act = "look"  PROVE Dropped(d)
  <2>1. ~Free(d)
    BY <1>3, IdleIsCall DEF Free
  <2>2. name \in Hasty /\ page.choice.by # "nobody"
    BY <2>1 DEF Choose, Waits
  <2> QED  BY <1>3, <2>2 DEF LateOnesAreDropped, Dropped, page
<1>4. ChoiceHolds'
  BY <1>1, <1>2, <1>3, LookingIsCall, IdleIsCall DEF ChoiceHolds
<1>5. SeenHolds'
  <2>1. "look" \notin page.choice.acts
    BY PagesAssumption, PagesAreSound DEF Owed, CallsHold, page, Sound
  <2>2. ASSUME NEW d \in Requests, calls'[d].act \in page.choice.acts
        PROVE  calls'[d].seen = calls'[d].choice
    <3>1. calls'[d] # Looking(z)
      BY <2>1, <2>2, LookingIsCall
    <3>2. CASE calls'[d] = calls[d]
      BY <2>2, <3>2 DEF Previews, SeenHolds
    <3>3. CASE calls'[d] = Idle
      BY <3>3, IdleIsCall
    <3> QED  BY <1>2, <3>1, <3>2, <3>3
  <2> QED  BY <1>1, <2>2 DEF SeenHolds
<1> QED  BY <1>4, <1>5 DEF Previews

(* The API serves or refuses.                                              *)
LEMMA ServingPreviews ==
  ASSUME CallsHold, Previews, NEW c \in Requests, ServeLoad(c) \/ Serve(c) \/ Refuse(c)
  PROVE  Previews'
<1> PICK x : \/ ServeLoad(c) /\ x = [calls[c] EXCEPT !.step = "loaded", !.got = row, !.current = TRUE]
             \/ Serve(c) /\ x = [calls[c] EXCEPT !.step = "served", !.got = row']
             \/ Refuse(c) /\ x = [calls[c] EXCEPT !.step = "refused"]
  OBVIOUS
<1>1. IsCall(calls[c]) /\ calls = [d \in Requests |-> calls[d]]
  BY DEF CallsHold
<1>2. IsCall(x) /\ x.act = calls[c].act /\ x.choice = calls[c].choice /\ x.seen = calls[c].seen
  BY <1>1 DEF IsCall, ServeLoad, Serve, Refuse
<1>3. calls' = [calls EXCEPT ![c] = x]
  BY <1>1 DEF ServeLoad, Serve, Refuse
<1>4. UNCHANGED <<opened, chosen, preview>>
  BY DEF ServeLoad, Serve, Refuse, view
<1> QED  BY <1>2, <1>3, <1>4, SameCallPreviews

(* The row moves.                                                          *)
LEMMA MovePreviews ==
  ASSUME CallsHold, Previews, Move
  PROVE  Previews'
<1>1. chosen' = chosen /\ preview' = preview /\ page' = page
  BY DEF Move, opened, page
<1>2. ASSUME NEW d \in Requests
      PROVE  /\ calls'[d].act = calls[d].act
             /\ calls'[d].choice = calls[d].choice /\ calls'[d].seen = calls[d].seen
  <2>1. CASE Free(d)
    BY <2>1 DEF Move, Free
  <2>2. CASE ~Free(d)
    <3>1. calls'[d] = [calls[d] EXCEPT !.current = FALSE] /\ IsCall(calls[d])
      BY <2>2 DEF Move, CallsHold
    <3> QED  BY <3>1 DEF IsCall
  <2> QED  BY <2>1, <2>2
<1>3. ChoiceHolds'
  BY <1>1, <1>2 DEF Previews, ChoiceHolds
<1>4. SeenHolds'
  BY <1>1, <1>2 DEF Previews, SeenHolds
<1> QED  BY <1>3, <1>4 DEF Previews

(* The page as it opens has no preview, and asks for none.                 *)
NothingSeen == calls = FirstCalls /\ preview = 0
LEMMA OpeningPreviews == NothingSeen => Previews
<1> SUFFICES ASSUME calls = FirstCalls, preview = 0  PROVE Previews
  BY DEF NothingSeen
<1>1. \A c \in Requests : calls[c] \in {Idle, Loading}
  <2>1. CASE page.load = {}
    BY <2>1 DEF FirstCalls, NoCalls
  <2>2. CASE page.load # {}
    BY <2>2 DEF FirstCalls, NoCalls
  <2> QED  BY <2>1, <2>2
<1>2. Loading.choice = 0 /\ Loading.seen = 0
  BY DEF Loading, Idle
<1> QED  BY <1>1, <1>2, IdleIsCall, LoadingIsCall DEF Previews, ChoiceHolds, SeenHolds

(* What a page previews is what the user has chosen, or a newer preview is on *)
(* its way; and what is sent on the strength of a preview is what was seen: on  *)
(* every page whose user waits for the preview, or that drops the late ones.   *)
THEOREM PreviewsAreOfTheChoice ==
  ASSUME LateOnesAreDropped
  PROVE  Spec => []PreviewIsOfTheChoice
<1>1. ASSUME Init  PROVE Previews
  BY <1>1, OpeningPreviews DEF Init, NothingSeen
<1>2. ASSUME Owed, Previews, [Next]_vars  PROVE Previews'
  <2> USE DEF Owed
  <2>1. CASE UNCHANGED vars
    BY <1>2, <2>1 DEF vars, opened, view, Previews, ChoiceHolds, SeenHolds, page
  <2>2. ASSUME NEW c \in Requests, NEW h \in DOMAIN page.acts, Press(c, h)  PROVE Previews'
    BY <1>2, <2>2, PressPreviews
  <2>3. ASSUME NEW c \in Requests, NEW z \in Choices, Choose(c, z)  PROVE Previews'
    BY <1>2, <2>3, ChoicePreviews
  <2>4. ASSUME NEW c \in Requests, Look(c)  PROVE Previews'
    BY <1>2, <2>4, LookPreviews
  <2>5. ASSUME NEW c \in Requests, Confirm(c)  PROVE Previews'
    <3> PICK x : x = [calls[c] EXCEPT !.step = "sent"]
      OBVIOUS
    <3>1. /\ IsCall(x) /\ x.act = calls[c].act /\ x.choice = calls[c].choice /\ x.seen = calls[c].seen
          /\ calls' = [calls EXCEPT ![c] = x]
      BY <1>2, <2>5, Further DEF Confirm
    <3> QED  BY <1>2, <2>5, <3>1, SameCallPreviews DEF Confirm
  <2>6. ASSUME NEW c \in Requests, Dismiss(c)  PROVE Previews'
    BY <1>2, <2>6, EndPreviews DEF Dismiss, Previews, ChoiceHolds
  <2>7. ASSUME NEW c \in Requests, Settles(c)  PROVE Previews'
    <3>1. CASE ServeLoad(c) \/ Serve(c) \/ Refuse(c)
      BY <1>2, <3>1, ServingPreviews
    <3>2. CASE AnswerLoad(c) \/ AnswerTake(c) \/ AnswerStay(c) \/ Fail(c)
      <4>1. /\ calls' = [calls EXCEPT ![c] = Idle] /\ UNCHANGED <<opened, chosen>>
            /\ preview' \in {0, preview}
        BY <3>2 DEF AnswerLoad, AnswerTake, AnswerStay, Fail, Spent
      <4> QED  BY <1>2, <4>1, EndPreviews DEF Previews, ChoiceHolds
    <3>3. CASE AnswerLook(c)
      <4>1. calls' = [calls EXCEPT ![c] = Idle] /\ UNCHANGED <<opened, chosen>>
            /\ calls[c].act = "look" /\ preview' = calls[c].choice
        BY <3>3 DEF AnswerLook
      <4> QED  BY <1>2, <4>1, EndPreviews DEF Previews, ChoiceHolds
    <3>4. CASE AnswerReload(c)
      <4> PICK x : x = [calls[c] EXCEPT !.step = "loading"]
        OBVIOUS
      <4>1. /\ IsCall(x) /\ x.act = calls[c].act /\ x.choice = calls[c].choice /\ x.seen = calls[c].seen
            /\ calls' = [calls EXCEPT ![c] = x]
        BY <1>2, <3>4, Further DEF AnswerReload
      <4>2. UNCHANGED <<opened, chosen>> /\ preview' \in {0, preview}
        BY <3>4 DEF AnswerReload, Spent
      <4> QED  BY <1>2, <4>1, <4>2, SameCallPreviews
    <3>5. CASE AnswerLeave(c)
      <4>1. NothingSeen'
        BY <3>5 DEF AnswerLeave, NothingSeen, FirstCalls, opened, page
      <4> QED  BY <4>1, OpeningPreviews, PTL
    <3> QED  BY <2>7, <3>1, <3>2, <3>3, <3>4, <3>5 DEF Settles
  <2>8. ASSUME NEW h, OpenForm(h) \/ CloseForm(h)  PROVE Previews'
    <3>1. UNCHANGED <<opened, chosen, preview, calls>>
      BY <2>8 DEF OpenForm, CloseForm
    <3> QED  BY <1>2, <3>1 DEF opened, Previews, ChoiceHolds, SeenHolds, page
  <2>9. CASE Move
    BY <1>2, <2>9, MovePreviews
  <2> QED  BY <1>2, <2>1, <2>2, <2>3, <2>4, <2>5, <2>6, <2>7, <2>8, <2>9 DEF Next, Decides
<1>3. ASSUME Previews  PROVE PreviewIsOfTheChoice
  BY <1>3 DEF Previews, ChoiceHolds, SeenHolds, PreviewIsOfTheChoice
<1>4. Spec => []Previews
  BY <1>1, <1>2, CallsOwe, PTL DEF Spec
<1> QED  BY <1>3, <1>4, PTL

-----------------------------------------------------------------------------
(* What the roles a page lets in may call.                                 *)

\* The guards let everybody in `who` through to the route.
Reaches(who, route) == \A u \in who : MayCall(u, route)
\* A page opens with calls its users may make, and so do its controls, for the
\* users they are drawn to. (A preview is no control.)
OpensWith(p) == /\ \A r \in p.load : Reaches(p.who, r)
                /\ p.choice = NoChoice \/ Reaches(p.who, p.choice.call)
Granting(who, acts) == /\ "look" \notin DOMAIN acts
                       /\ \A h \in DOMAIN acts : Reaches(who \cap acts[h].by, acts[h].call)
Entitled(p) == OpensWith(p) /\ Granting(p.who, p.acts)

(* The controllers without an @Roles of their own on a handler.            *)
OfficeControllers ==
  {AssessmentsController, ReportCardsController, AttendanceController, BillingController,
   ClassScheduleController, CoursesController, EnrollmentsController, GroupsController,
   HolidaysController, InvoicesController, PaymentsController, MessagesController,
   ReportsController, RoomsController, SessionsController, TrialsController}
LEMMA OfficeReaches == \A c \in OfficeControllers : \A r \in DOMAIN c : Reaches(Office, r)
<1> SUFFICES ASSUME NEW c \in OfficeControllers  PROVE \A r \in DOMAIN c : Reaches(Office, r)
  OBVIOUS
<1>1. c \in Controllers
  BY DEF OfficeControllers, Controllers
<1>2. PICK routes : c = OfficeOnly(routes)
  BY DEF OfficeControllers, AssessmentsController, ReportCardsController, AttendanceController,
     BillingController, ClassScheduleController, CoursesController, EnrollmentsController,
     GroupsController, HolidaysController, InvoicesController, PaymentsController,
     MessagesController, ReportsController, RoomsController, SessionsController, TrialsController
<1> QED  BY <1>1, <1>2 DEF OfficeOnly, Guarded, MayCall, Reaches, RolesGuard, Office

(* The others: what is left to the admin.                                  *)
ForTheAdmin == {"GET/students/:id/export", "POST/students/:id/erase", "POST/teachers/:id/access",
                "DELETE/teachers/:id/access", "PATCH/settings"}
LEMMA LeftToTheAdmin ==
  ASSUME NEW routes, NEW own, NEW c \in Controllers, c = Guarded(Office, routes, {"admin"}, own),
         (routes \cup own) \cap ForTheAdmin = own
  PROVE  /\ \A r \in DOMAIN c \ ForTheAdmin : Reaches(Office, r)
         /\ \A r \in DOMAIN c \cap ForTheAdmin : Reaches({"admin"}, r)
BY DEF Guarded, MayCall, Reaches, RolesGuard, Office

LEMMA OfficeAndAdminReach ==
  \A c \in {StudentsController, TeachersController, SettingsController} :
     /\ \A r \in DOMAIN c \ ForTheAdmin : Reaches(Office, r)
     /\ \A r \in DOMAIN c \cap ForTheAdmin : Reaches({"admin"}, r)
<1> SUFFICES ASSUME NEW c \in {StudentsController, TeachersController, SettingsController}
             PROVE  /\ \A r \in DOMAIN c \ ForTheAdmin : Reaches(Office, r)
                    /\ \A r \in DOMAIN c \cap ForTheAdmin : Reaches({"admin"}, r)
  OBVIOUS
<1>1. c \in Controllers
  BY DEF Controllers
<1>2. CASE c = StudentsController
  BY <1>1, <1>2, LeftToTheAdmin DEF StudentsController, ForTheAdmin
<1>3. CASE c = TeachersController
  BY <1>1, <1>3, LeftToTheAdmin DEF TeachersController, ForTheAdmin
<1>4. CASE c = SettingsController
  BY <1>1, <1>4, LeftToTheAdmin DEF SettingsController, ForTheAdmin
<1> QED  BY <1>2, <1>3, <1>4

(* Controls of one panel and of several.                                   *)
LEMMA Calls ==
  /\ \A h, of, rows : Drawn(h, of, rows).call = h.call /\ Form(h, of, rows).call = h.call
  /\ \A h : Always(h).call = h.call /\ FormFor(h).call = h.call
  /\ \A h, of, rows, who :
       /\ Only(who, Drawn(h, of, rows)).call = h.call /\ Only(who, Drawn(h, of, rows)).by = who
       /\ Only(who, Form(h, of, rows)).call = h.call /\ Only(who, Form(h, of, rows)).by = who
  /\ \A h, who : Only(who, Always(h)).call = h.call /\ Only(who, Always(h)).by = who
BY DEF Drawn, Form, Always, FormFor, Only

LEMMA InOneOfThem ==
  ASSUME NEW parts, NEW h \in DOMAIN Together(parts)
  PROVE  \E p \in parts : h \in DOMAIN p /\ Together(parts)[h] = p[h]
<1>1. DOMAIN Together(parts) = UNION {DOMAIN p : p \in parts}
  BY DEF Together
<1>2. \E p \in parts : h \in DOMAIN p
  BY <1>1
<1> QED  BY <1>1, <1>2 DEF Together

LEMMA TogetherGranting ==
  ASSUME NEW who, NEW parts, \A p \in parts : Granting(who, p)
  PROVE  Granting(who, Together(parts))
BY InOneOfThem DEF Granting

(* A page as a whole.                                                      *)
LEMMA EntitledPage ==
  ASSUME NEW p, \A r \in p.load : Reaches(p.who, r), Granting(p.who, p.acts),
         p.choice = NoChoice \/ Reaches(p.who, p.choice.call)
  PROVE  Entitled(p)
BY DEF Entitled, OpensWith

LEMMA TheOffice ==
  /\ AppLayout = Office /\ SettingsTabs \subseteq Office
  /\ \A r : Reaches(Office, r) => Reaches(SettingsTabs, r)
BY DEF AppLayout, SettingsTabs, isAdminAppRole, homeFor, UserRoles, Office, Reaches

LEMMA NothingToCall == \A who : Granting(who, NoActs)
BY DEF Granting, NoActs

(* The pages and panels of a group,                                        *)
LEMMA GroupPagesAreEntitled ==
  /\ Entitled(GroupPage) /\ Entitled(GroupWaitlist) /\ Entitled(GroupSchedule)
  /\ Entitled(ChargeGroupPanel) /\ Entitled(GradesEditor) /\ Entitled(GroupReportCards)
  /\ Entitled(GroupsPage)
<1>1. Entitled(GroupPage)
  <2>1. /\ GroupEnroll.call = "POST/enrollments"
        /\ GroupEnrollmentStatus.call = "PATCH/enrollments/:id"
        /\ GroupUnenroll.call = "DELETE/enrollments/:id"
        /\ GroupFeeOverrideSave.call = "PATCH/enrollments/:id"
        /\ GroupSessionSubmit.call = "PATCH/sessions/:id"
        /\ GroupSessionCreate.call = "POST/sessions"
        /\ GroupDeleteSession.call = "DELETE/sessions/:id"
    BY DEF GroupEnroll, GroupEnrollmentStatus, GroupUnenroll, GroupFeeOverrideSave,
       GroupSessionSubmit, GroupSessionCreate, GroupDeleteSession, Asks, AsksFee, Early, On,
       Raises, Sends
  <2>2. \A r \in GroupLoad \cup {"POST/enrollments", "PATCH/enrollments/:id",
                                 "DELETE/enrollments/:id", "PATCH/sessions/:id",
                                 "POST/sessions", "DELETE/sessions/:id"} :
           Reaches(Office, r)
    BY OfficeReaches, OfficeAndAdminReach DEF GroupLoad, OfficeControllers, GroupsController,
       EnrollmentsController, SessionsController, CoursesController, RoomsController, OfficeOnly,
       StudentsController, TeachersController, ForTheAdmin, Guarded
  <2>3. /\ Reaches(Office, GroupEnroll.call) /\ Reaches(Office, GroupEnrollmentStatus.call)
        /\ Reaches(Office, GroupUnenroll.call) /\ Reaches(Office, GroupFeeOverrideSave.call)
        /\ Reaches(Office, GroupSessionSubmit.call) /\ Reaches(Office, GroupSessionCreate.call)
        /\ Reaches(Office, GroupDeleteSession.call)
    BY <2>1, <2>2
  <2>4. /\ GroupPage.who = Office /\ GroupPage.load = GroupLoad
        /\ GroupPage.acts = Together({EnrollForm, EnrolledTable, SessionForm, SessionsTable})
        /\ GroupPage.choice = NoChoice
    BY TheOffice DEF GroupPage, Page
  <2>5. Granting(Office, EnrollForm)
    BY <2>3, Calls DEF Granting, EnrollForm, Reaches
  <2>6. Granting(Office, EnrolledTable)
    BY <2>3, Calls DEF Granting, EnrolledTable, Reaches
  <2>7. Granting(Office, SessionForm)
    BY <2>3, Calls DEF Granting, SessionForm, Reaches
  <2>8. Granting(Office, SessionsTable)
    BY <2>3, Calls DEF Granting, SessionsTable, Reaches
  <2> QED  BY <2>2, <2>4, <2>5, <2>6, <2>7, <2>8, TogetherGranting, EntitledPage
<1>2. Entitled(GroupWaitlist)
  <2>1. /\ WaitlistOffer.call = "POST/enrollments/:id/offer-spot"
        /\ WaitlistGiveFull.call = "PATCH/enrollments/:id"
        /\ WaitlistGive.call = "PATCH/enrollments/:id"
        /\ WaitlistRemove.call = "DELETE/enrollments/:id"
    BY DEF WaitlistOffer, WaitlistGiveFull, WaitlistGive, WaitlistRemove, Asks, AsksFee, On,
       Raises, Sends
  <2>2. \A r \in GroupLoad \cup {"POST/enrollments/:id/offer-spot", "PATCH/enrollments/:id",
                                 "DELETE/enrollments/:id"} :
           Reaches(Office, r)
    BY OfficeReaches, OfficeAndAdminReach DEF GroupLoad, OfficeControllers, GroupsController,
       EnrollmentsController, SessionsController, CoursesController, RoomsController, OfficeOnly,
       StudentsController, TeachersController, ForTheAdmin, Guarded
  <2>3. /\ Reaches(Office, WaitlistOffer.call) /\ Reaches(Office, WaitlistGiveFull.call)
        /\ Reaches(Office, WaitlistGive.call) /\ Reaches(Office, WaitlistRemove.call)
    BY <2>1, <2>2
  <2>4. /\ GroupWaitlist.who = Office /\ GroupWaitlist.load = GroupLoad
        /\ GroupWaitlist.choice = NoChoice
    BY TheOffice DEF GroupWaitlist, Page
  <2>5. Granting(Office, GroupWaitlist.acts)
    BY <2>3, Calls DEF Granting, GroupWaitlist, Page, Reaches
  <2> QED  BY <2>2, <2>4, <2>5, EntitledPage
<1>3. Entitled(GroupSchedule)
  <2>1. /\ ScheduleSave.call = "PUT/groups/:id/schedule"
        /\ ScheduleGenerate.call = "POST/groups/:id/schedule/generate"
    BY DEF ScheduleSave, ScheduleGenerate, Leaves, Raises, Sends, Stays
  <2>2. \A r \in ScheduleLoad \cup {"PUT/groups/:id/schedule",
                                    "POST/groups/:id/schedule/generate",
                                    "POST/groups/:id/schedule/preview"} :
           Reaches(Office, r)
    BY OfficeReaches DEF ScheduleLoad, OfficeControllers, ClassScheduleController, OfficeOnly,
       Guarded
  <2>3. Reaches(Office, ScheduleSave.call) /\ Reaches(Office, ScheduleGenerate.call)
    BY <2>1, <2>2
  <2>4. /\ GroupSchedule.who = Office /\ GroupSchedule.load = ScheduleLoad
        /\ GroupSchedule.choice.call = "POST/groups/:id/schedule/preview"
    BY TheOffice DEF GroupSchedule, Choosing, PageOfNone, Page, SchedulePreview, Effect, NoChoice
  <2>5. Granting(Office, GroupSchedule.acts)
    BY <2>3, Calls DEF Granting, GroupSchedule, Choosing, PageOfNone, Page, Reaches
  <2> QED  BY <2>2, <2>4, <2>5, EntitledPage
<1>4. Entitled(ChargeGroupPanel)
  <2>1. GroupCharge.call = "POST/billing/charge-group"
    BY DEF GroupCharge, Leaves, Raises, Sends
  <2>2. \A r \in {"POST/billing/charge-group"} : Reaches(Office, r)
    BY OfficeReaches DEF OfficeControllers, BillingController, OfficeOnly, Guarded
  <2>3. Reaches(Office, GroupCharge.call)
    BY <2>1, <2>2
  <2>4. /\ ChargeGroupPanel.who = Office /\ ChargeGroupPanel.load = {}
        /\ ChargeGroupPanel.choice.call = "POST/billing/charge-group"
    BY TheOffice DEF ChargeGroupPanel, Choosing, PageOfNone, Page, ChargePreview, Button,
       NoChoice
  <2>5. Granting(Office, ChargeGroupPanel.acts)
    BY <2>3, Calls DEF Granting, ChargeGroupPanel, Choosing, PageOfNone, Page, Reaches
  <2> QED  BY <2>2, <2>4, <2>5, EntitledPage
<1>5. Entitled(GradesEditor)
  <2>1. /\ GradesCreate.call = "POST/groups/:id/assessments"
        /\ GradesSave.call = "PUT/assessments/:id/results"
        /\ GradesRemove.call = "DELETE/assessments/:id"
    BY DEF GradesCreate, GradesSave, GradesRemove, Asks, On, Raises, Sends, Takes
  <2>2. \A r \in GradesLoad \cup {"POST/groups/:id/assessments", "PUT/assessments/:id/results",
                                  "DELETE/assessments/:id"} :
           Reaches(Office, r)
    BY OfficeReaches DEF GradesLoad, OfficeControllers, AssessmentsController, OfficeOnly,
       Guarded
  <2>3. /\ Reaches(Office, GradesCreate.call) /\ Reaches(Office, GradesSave.call)
        /\ Reaches(Office, GradesRemove.call)
    BY <2>1, <2>2
  <2>4. /\ GradesEditor.who = Office /\ GradesEditor.load = GradesLoad
        /\ GradesEditor.acts = Together({GradesList, GradeSheet})
        /\ GradesEditor.choice = NoChoice
    BY TheOffice DEF GradesEditor, Page
  <2>5. Granting(Office, GradesList)
    BY <2>3, Calls DEF Granting, GradesList, Reaches
  <2>6. Granting(Office, GradeSheet)
    BY <2>3, Calls DEF Granting, GradeSheet, Reaches
  <2> QED  BY <2>2, <2>4, <2>5, <2>6, TogetherGranting, EntitledPage
<1>6. Entitled(GroupReportCards)
  <2>1. ReportCardsSend.call = "POST/groups/:id/report-cards/send"
    BY DEF ReportCardsSend, Leaves, Raises, Sends
  <2>2. \A r \in GroupReportCardsLoad \cup {"POST/groups/:id/report-cards/send"} :
           Reaches(Office, r)
    BY OfficeReaches DEF GroupReportCardsLoad, OfficeControllers, ReportCardsController,
       OfficeOnly, Guarded
  <2>3. Reaches(Office, ReportCardsSend.call)
    BY <2>1, <2>2
  <2>4. /\ GroupReportCards.who = Office /\ GroupReportCards.load = GroupReportCardsLoad
        /\ GroupReportCards.choice = NoChoice
    BY TheOffice DEF GroupReportCards, PageOfNone, Page
  <2>5. Granting(Office, GroupReportCards.acts)
    BY <2>3, Calls DEF Granting, GroupReportCards, PageOfNone, Page, Reaches
  <2> QED  BY <2>2, <2>4, <2>5, EntitledPage
<1>7. Entitled(GroupsPage)
  <2>1. /\ GroupCreate.call = "POST/groups" /\ GroupSubmit.call = "PATCH/groups/:id"
        /\ GroupDelete.call = "DELETE/groups/:id"
    BY DEF GroupCreate, GroupSubmit, GroupDelete, Asks, On, Raises, Sends
  <2>2. \A r \in GroupsLoad \cup {"POST/groups", "PATCH/groups/:id", "DELETE/groups/:id"} :
           Reaches(Office, r)
    BY OfficeReaches, OfficeAndAdminReach DEF GroupsLoad, OfficeControllers, GroupsController,
       CoursesController, RoomsController, OfficeOnly, TeachersController, ForTheAdmin, Guarded
  <2>3. /\ Reaches(Office, GroupCreate.call) /\ Reaches(Office, GroupSubmit.call)
        /\ Reaches(Office, GroupDelete.call)
    BY <2>1, <2>2
  <2>4. /\ GroupsPage.who = Office /\ GroupsPage.load = GroupsLoad
        /\ GroupsPage.acts = Together({GroupForm, GroupList}) /\ GroupsPage.choice = NoChoice
    BY TheOffice DEF GroupsPage, Page
  <2>5. Granting(Office, GroupForm)
    BY <2>3, Calls DEF Granting, GroupForm, Reaches
  <2>6. Granting(Office, GroupList)
    BY <2>3, Calls DEF Granting, GroupList, Reaches
  <2> QED  BY <2>2, <2>4, <2>5, <2>6, TogetherGranting, EntitledPage
<1> QED  BY <1>1, <1>2, <1>3, <1>4, <1>5, <1>6, <1>7

(* of its classes,                                                         *)
LEMMA ClassPagesAreEntitled ==
  /\ Entitled(SessionPage) /\ Entitled(TrialsPage) /\ Entitled(CalendarPage)
  /\ Entitled(CoursesPage)
<1>1. Entitled(SessionPage)
  <2>1. /\ SessionStatus.call = "PATCH/sessions/:id"
        /\ SaveAttendance.call = "POST/sessions/:id/attendance"
    BY DEF SessionStatus, SaveAttendance, On, Raises, Sends, Stays, Takes
  <2>2. \A r \in SessionLoad \cup {"PATCH/sessions/:id", "POST/sessions/:id/attendance"} :
           Reaches(Office, r)
    BY OfficeReaches, OfficeAndAdminReach DEF SessionLoad, OfficeControllers, SessionsController,
       GroupsController, CoursesController, EnrollmentsController, AttendanceController,
       OfficeOnly, TeachersController, StudentsController, ForTheAdmin, Guarded
  <2>3. Reaches(Office, SessionStatus.call) /\ Reaches(Office, SaveAttendance.call)
    BY <2>1, <2>2
  <2>4. /\ SessionPage.who = Office /\ SessionPage.load = SessionLoad
        /\ SessionPage.choice = NoChoice
    BY TheOffice DEF SessionPage, Page
  <2>5. Granting(Office, SessionPage.acts)
    BY <2>3, Calls DEF Granting, SessionPage, Page, Reaches
  <2> QED  BY <2>2, <2>4, <2>5, EntitledPage
<1>2. Entitled(TrialsPage)
  <2>1. /\ TrialConvert.call = "POST/trials/:id/convert"
        /\ TrialCancel.call = "POST/trials/:id/cancel"
    BY DEF TrialConvert, TrialCancel, Asks, AsksFee, On, Raises, Sends
  <2>2. \A r \in TrialsLoad \cup {"POST/trials/:id/convert", "POST/trials/:id/cancel"} :
           Reaches(Office, r)
    BY OfficeReaches DEF TrialsLoad, OfficeControllers, TrialsController, OfficeOnly, Guarded
  <2>3. Reaches(Office, TrialConvert.call) /\ Reaches(Office, TrialCancel.call)
    BY <2>1, <2>2
  <2>4. /\ TrialsPage.who = Office /\ TrialsPage.load = TrialsLoad
        /\ TrialsPage.choice = NoChoice
    BY TheOffice DEF TrialsPage, Page
  <2>5. Granting(Office, TrialsPage.acts)
    BY <2>3, Calls DEF Granting, TrialRow, TrialsPage, Page, Reaches
  <2> QED  BY <2>2, <2>4, <2>5, EntitledPage
<1>3. Entitled(CalendarPage)
  <2>1. \A r \in CalendarLoad \cup {"GET/rooms/conflicts"} : Reaches(Office, r)
    BY OfficeReaches, OfficeAndAdminReach DEF CalendarLoad, OfficeControllers,
       SessionsController, GroupsController, CoursesController, HolidaysController,
       RoomsController, OfficeOnly, TeachersController, ForTheAdmin, Guarded
  <2>2. /\ CalendarPage.who = Office /\ CalendarPage.load = CalendarLoad
        /\ CalendarPage.acts = NoActs /\ CalendarPage.choice.call = "GET/rooms/conflicts"
    BY TheOffice DEF CalendarPage, Choosing, PageOfNone, Page, CalendarConflicts, Effect,
       Keeping, NoChoice, Unguarded
  <2> QED  BY <2>1, <2>2, NothingToCall, EntitledPage
<1>4. Entitled(CoursesPage)
  <2>1. /\ CourseCreate.call = "POST/courses" /\ CourseSubmit.call = "PATCH/courses/:id"
        /\ CourseDelete.call = "DELETE/courses/:id"
    BY DEF CourseCreate, CourseSubmit, CourseDelete, Asks, On, Raises, Sends
  <2>2. \A r \in CoursesLoad \cup {"POST/courses", "PATCH/courses/:id", "DELETE/courses/:id"} :
           Reaches(Office, r)
    BY OfficeReaches DEF CoursesLoad, OfficeControllers, CoursesController, OfficeOnly, Guarded
  <2>3. /\ Reaches(Office, CourseCreate.call) /\ Reaches(Office, CourseSubmit.call)
        /\ Reaches(Office, CourseDelete.call)
    BY <2>1, <2>2
  <2>4. /\ CoursesPage.who = Office /\ CoursesPage.load = CoursesLoad
        /\ CoursesPage.acts = Together({CourseForm, CourseList}) /\ CoursesPage.choice = NoChoice
    BY TheOffice DEF CoursesPage, Page
  <2>5. Granting(Office, CourseForm)
    BY <2>3, Calls DEF Granting, CourseForm, Reaches
  <2>6. Granting(Office, CourseList)
    BY <2>3, Calls DEF Granting, CourseList, Reaches
  <2> QED  BY <2>2, <2>4, <2>5, <2>6, TogetherGranting, EntitledPage
<1> QED  BY <1>1, <1>2, <1>3, <1>4

(* of invoices and receipts,                                               *)
LEMMA MoneyPagesAreEntitled ==
  /\ Entitled(InvoicePage) /\ Entitled(InvoicesPage) /\ Entitled(BillingPage)
  /\ Entitled(RemittanceHistory)
<1>1. Entitled(InvoicePage)
  <2>1. /\ PayOnline.call = "POST/invoices/:id/checkout"
        /\ DownloadPdf.call = "GET/invoices/:id/pdf" /\ CancelInvoice.call = "PATCH/invoices/:id"
        /\ RectSubmit.call = "POST/invoices/:id/rectifications"
        /\ PaymentSubmit.call = "POST/invoices/:id/payments"
        /\ DeletePayment.call = "DELETE/payments/:id"
    BY DEF PayOnline, DownloadPdf, CancelInvoice, RectSubmit, PaymentSubmit, DeletePayment, Asks,
       Leaves, On, Raises, Sends, Stays
  <2>2. \A r \in InvoiceLoad \cup {"POST/invoices/:id/checkout", "GET/invoices/:id/pdf",
                                   "PATCH/invoices/:id",
                                   "POST/invoices/:id/rectifications",
                                   "POST/invoices/:id/payments", "DELETE/payments/:id"} :
           Reaches(Office, r)
    BY OfficeReaches DEF InvoiceLoad, OfficeControllers, InvoicesController, PaymentsController,
       OfficeOnly, Guarded
  <2>3. /\ Reaches(Office, PayOnline.call) /\ Reaches(Office, DownloadPdf.call)
        /\ Reaches(Office, CancelInvoice.call) /\ Reaches(Office, RectSubmit.call)
        /\ Reaches(Office, PaymentSubmit.call) /\ Reaches(Office, DeletePayment.call)
    BY <2>1, <2>2
  <2>4. /\ InvoicePage.who = Office /\ InvoicePage.load = InvoiceLoad
        /\ InvoicePage.acts = Together({InvoiceButtons, RectForm, PaymentForm, PaymentsTable})
        /\ InvoicePage.choice = NoChoice
    BY TheOffice DEF InvoicePage, Page
  <2>5. Granting(Office, InvoiceButtons)
    BY <2>3, Calls DEF Granting, InvoiceButtons, Reaches
  <2>6. Granting(Office, RectForm)
    BY <2>3, Calls DEF Granting, RectForm, Reaches
  <2>7. Granting(Office, PaymentForm)
    BY <2>3, Calls DEF Granting, PaymentForm, Reaches
  <2>8. Granting(Office, PaymentsTable)
    BY <2>3, Calls DEF Granting, PaymentsTable, Reaches
  <2> QED  BY <2>2, <2>4, <2>5, <2>6, <2>7, <2>8, TogetherGranting, EntitledPage
<1>2. Entitled(InvoicesPage)
  <2>1. InvoiceCreate.call = "POST/invoices"
    BY DEF InvoiceCreate, Raises, Sends
  <2>2. \A r \in InvoicesLoad \cup {"POST/invoices"} : Reaches(Office, r)
    BY OfficeReaches, OfficeAndAdminReach DEF InvoicesLoad, OfficeControllers,
       InvoicesController, OfficeOnly, StudentsController, ForTheAdmin, Guarded
  <2>3. Reaches(Office, InvoiceCreate.call)
    BY <2>1, <2>2
  <2>4. /\ InvoicesPage.who = Office /\ InvoicesPage.load = InvoicesLoad
        /\ InvoicesPage.choice = NoChoice
    BY TheOffice DEF InvoicesPage, PageOfNone, Page
  <2>5. Granting(Office, InvoicesPage.acts)
    BY <2>3, Calls DEF Granting, InvoiceForm, InvoicesPage, PageOfNone, Page, Reaches
  <2> QED  BY <2>2, <2>4, <2>5, EntitledPage
<1>3. Entitled(BillingPage)
  <2>1. /\ BillingRun.call = "POST/billing/generate-month"
        /\ SepaPreview.call = "POST/billing/sepa-remittance/preview"
        /\ SepaDownload.call = "POST/billing/sepa-remittance"
    BY DEF BillingRun, SepaPreview, SepaDownload, Raises, Sends, Stays
  <2>2. /\ BillingGenerate.call = BillingRun.call
        /\ BillingGenerateBlind.call = BillingRun.call
    BY Calls DEF BillingGenerate, BillingGenerateBlind, BillingRun, Asks, Raises, Sends, Stays
  <2>3. \A r \in {"POST/billing/generate-month", "POST/billing/sepa-remittance/preview",
                  "POST/billing/sepa-remittance"} :
           Reaches(Office, r)
    BY OfficeReaches DEF OfficeControllers, BillingController, OfficeOnly, Guarded
  <2>4. /\ Reaches(Office, BillingRun.call) /\ Reaches(Office, SepaPreview.call)
        /\ Reaches(Office, SepaDownload.call)
    BY <2>1, <2>3
  <2>5. /\ BillingPage.who = Office /\ BillingPage.load = {}
        /\ BillingPage.choice.call = "POST/billing/generate-month"
    BY TheOffice DEF BillingPage, Choosing, PageOfNone, Page, BillingPreview, Button, NoChoice
  <2>6. Granting(Office, BillingPage.acts)
    BY <2>4, <2>2, Calls DEF Granting, BillingPage, Choosing, PageOfNone, Page, Reaches
  <2> QED  BY <2>3, <2>5, <2>6, EntitledPage
<1>4. Entitled(RemittanceHistory)
  <2>1. /\ RemittanceCollect.call = "POST/billing/remittances/:id/collect"
        /\ RemittanceXml.call = "GET/billing/remittances/:id/xml"
        /\ RemittanceVoid.call = "DELETE/billing/remittances/:id"
        /\ ReturnForm.call = "POST/billing/remittance-items/:id/return"
    BY DEF RemittanceCollect, RemittanceXml, RemittanceVoid, ReturnForm, Asks, On, Raises, Sends,
       Stays
  <2>2. \A r \in RemittancesLoad \cup {"POST/billing/remittances/:id/collect",
                                       "GET/billing/remittances/:id/xml",
                                       "DELETE/billing/remittances/:id",
                                       "POST/billing/remittance-items/:id/return"} :
           Reaches(Office, r)
    BY OfficeReaches DEF RemittancesLoad, OfficeControllers, BillingController, OfficeOnly,
       Guarded
  <2>3. /\ Reaches(Office, RemittanceCollect.call) /\ Reaches(Office, RemittanceXml.call)
        /\ Reaches(Office, RemittanceVoid.call) /\ Reaches(Office, ReturnForm.call)
    BY <2>1, <2>2
  <2>4. /\ RemittanceHistory.who = Office /\ RemittanceHistory.load = RemittancesLoad
        /\ RemittanceHistory.acts = Together({RemittanceButtons, RemittanceItems})
        /\ RemittanceHistory.choice = NoChoice
    BY TheOffice DEF RemittanceHistory, Page
  <2>5. Granting(Office, RemittanceButtons)
    BY <2>3, Calls DEF Granting, RemittanceButtons, Reaches
  <2>6. Granting(Office, RemittanceItems)
    BY <2>3, Calls DEF Granting, RemittanceItems, Reaches
  <2> QED  BY <2>2, <2>4, <2>5, <2>6, TogetherGranting, EntitledPage
<1> QED  BY <1>1, <1>2, <1>3, <1>4

(* of students and teachers,                                               *)
LEMMA PeoplePagesAreEntitled ==
  /\ Entitled(StudentsPage) /\ Entitled(StudentImportPanel) /\ Entitled(StudentPage)
  /\ Entitled(TeachersPage) /\ Entitled(TeacherPage)
<1>1. Entitled(StudentsPage)
  <2>1. /\ StudentSubmit.call = "PATCH/students/:id"
        /\ StudentDelete.call = "DELETE/students/:id" /\ StudentCreate.call = "POST/students"
    BY DEF StudentSubmit, StudentDelete, StudentCreate, Asks, On, Raises, Sends
  <2>2. \A r \in StudentsLoad \cup {"PATCH/students/:id", "DELETE/students/:id", "POST/students"} :
           Reaches(Office, r)
    BY OfficeAndAdminReach DEF StudentsLoad, StudentsController, ForTheAdmin, Guarded
  <2>3. /\ Reaches(Office, StudentSubmit.call) /\ Reaches(Office, StudentDelete.call)
        /\ Reaches(Office, StudentCreate.call)
    BY <2>1, <2>2
  <2>4. /\ StudentsPage.who = Office /\ StudentsPage.load = StudentsLoad
        /\ StudentsPage.acts = Together({StudentList, StudentForm})
        /\ StudentsPage.choice = NoChoice
    BY TheOffice DEF StudentsPage, Page
  <2>5. Granting(Office, StudentList)
    BY <2>3, Calls DEF Granting, StudentList, Reaches
  <2>6. Granting(Office, StudentForm)
    BY <2>3, Calls DEF Granting, StudentForm, Reaches
  <2> QED  BY <2>2, <2>4, <2>5, <2>6, TogetherGranting, EntitledPage
<1>2. Entitled(StudentImportPanel)
  <2>1. StudentImport.call = "POST/students/import"
    BY DEF StudentImport, Leaves, Raises, Sends
  <2>2. \A r \in {"POST/students/import"} : Reaches(Office, r)
    BY OfficeAndAdminReach DEF StudentsController, ForTheAdmin, Guarded
  <2>3. Reaches(Office, StudentImport.call)
    BY <2>1, <2>2
  <2>4. /\ StudentImportPanel.who = Office /\ StudentImportPanel.load = {}
        /\ StudentImportPanel.choice = NoChoice
    BY TheOffice DEF StudentImportPanel, PageOfNone, Page
  <2>5. Granting(Office, StudentImportPanel.acts)
    BY <2>3, Calls DEF Granting, StudentImportPanel, PageOfNone, Page, Reaches
  <2> QED  BY <2>2, <2>4, <2>5, EntitledPage
<1>3. Entitled(StudentPage)
  <2>1. /\ InviteSubmit.call = "POST/students/:id/portal-access"
        /\ InviteRevoke.call = "DELETE/students/:id/portal-access/:id"
        /\ ReportCardDownload.call = "GET/students/:id/report-card"
        /\ GdprDownload.call = "GET/students/:id/export"
        /\ GdprErase.call = "POST/students/:id/erase"
    BY DEF InviteSubmit, InviteRevoke, ReportCardDownload, GdprDownload, GdprErase, Asks, On,
       Raises, Sends, Stays
  <2>2. \A r \in StudentLoad \cup InviteLoad \cup {"POST/students/:id/portal-access",
                                                   "DELETE/students/:id/portal-access/:id",
                                                   "GET/students/:id/report-card"} :
           Reaches(Office, r)
    BY OfficeReaches, OfficeAndAdminReach DEF StudentLoad, InviteLoad, OfficeControllers,
       EnrollmentsController, GroupsController, CoursesController, InvoicesController,
       ReportCardsController, OfficeOnly, StudentsController, ForTheAdmin, Guarded
  <2>3. \A r \in {"GET/students/:id/export", "POST/students/:id/erase"} : Reaches({"admin"}, r)
    BY OfficeAndAdminReach DEF StudentsController, ForTheAdmin, Guarded
  <2>4. /\ Reaches(Office, InviteSubmit.call) /\ Reaches(Office, InviteRevoke.call)
        /\ Reaches(Office, ReportCardDownload.call) /\ Reaches({"admin"}, GdprDownload.call)
        /\ Reaches({"admin"}, GdprErase.call)
    BY <2>1, <2>2, <2>3
  <2>5. /\ StudentPage.who = Office /\ StudentPage.load = StudentLoad \cup InviteLoad
        /\ StudentPage.acts = Together({InviteFamily, StudentReportCard, GdprPanel})
        /\ StudentPage.choice = NoChoice
    BY TheOffice DEF StudentPage, Page
  <2>6. Granting(Office, InviteFamily)
    BY <2>4, Calls DEF Granting, InviteFamily, Reaches
  <2>7. Granting(Office, StudentReportCard)
    BY <2>4, Calls DEF Granting, StudentReportCard, Reaches
  <2>8. Granting(Office, GdprPanel)
    BY <2>4, Calls DEF Granting, GdprPanel, Reaches
  <2> QED  BY <2>2, <2>3, <2>5, <2>6, <2>7, <2>8, TogetherGranting, EntitledPage
<1>4. Entitled(TeachersPage)
  <2>1. /\ TeacherCreate.call = "POST/teachers" /\ TeacherSubmit.call = "PATCH/teachers/:id"
        /\ TeacherDelete.call = "DELETE/teachers/:id"
    BY DEF TeacherCreate, TeacherSubmit, TeacherDelete, Asks, On, Raises, Sends
  <2>2. \A r \in TeachersLoad \cup {"POST/teachers", "PATCH/teachers/:id", "DELETE/teachers/:id"} :
           Reaches(Office, r)
    BY OfficeAndAdminReach DEF TeachersLoad, TeachersController, ForTheAdmin, Guarded
  <2>3. /\ Reaches(Office, TeacherCreate.call) /\ Reaches(Office, TeacherSubmit.call)
        /\ Reaches(Office, TeacherDelete.call)
    BY <2>1, <2>2
  <2>4. /\ TeachersPage.who = Office /\ TeachersPage.load = TeachersLoad
        /\ TeachersPage.acts = Together({TeacherForm, TeacherList})
        /\ TeachersPage.choice = NoChoice
    BY TheOffice DEF TeachersPage, Page
  <2>5. Granting(Office, TeacherForm)
    BY <2>3, Calls DEF Granting, TeacherForm, Reaches
  <2>6. Granting(Office, TeacherList)
    BY <2>3, Calls DEF Granting, TeacherList, Reaches
  <2> QED  BY <2>2, <2>4, <2>5, <2>6, TogetherGranting, EntitledPage
<1>5. Entitled(TeacherPage)
  <2>1. /\ AccessGrant.call = "POST/teachers/:id/access"
        /\ AccessRevoke.call = "DELETE/teachers/:id/access"
    BY DEF AccessGrant, AccessRevoke, Asks, On, Raises, Sends, Takes
  <2>2. \A r \in TeacherLoad \cup AccessLoad : Reaches(Office, r)
    BY OfficeReaches, OfficeAndAdminReach DEF TeacherLoad, AccessLoad, OfficeControllers,
       GroupsController, CoursesController, SessionsController, OfficeOnly, TeachersController,
       ForTheAdmin, Guarded
  <2>3. \A r \in {"POST/teachers/:id/access", "DELETE/teachers/:id/access"} :
           Reaches({"admin"}, r)
    BY OfficeAndAdminReach DEF TeachersController, ForTheAdmin, Guarded
  <2>4. Reaches({"admin"}, AccessGrant.call) /\ Reaches({"admin"}, AccessRevoke.call)
    BY <2>1, <2>2, <2>3
  <2>5. /\ TeacherPage.who = Office /\ TeacherPage.load = TeacherLoad \cup AccessLoad
        /\ TeacherPage.choice = NoChoice
    BY TheOffice DEF TeacherPage, Page
  <2>6. Granting(Office, TeacherPage.acts)
    BY <2>4, Calls DEF Granting, TeacherAccessPanel, TeacherPage, Page, Reaches
  <2> QED  BY <2>2, <2>3, <2>5, <2>6, EntitledPage
<1> QED  BY <1>1, <1>2, <1>3, <1>4, <1>5

(* and of the academy;                                                     *)
LEMMA AcademyPagesAreEntitled ==
  /\ Entitled(MessagesPage) /\ Entitled(DashboardPage) /\ Entitled(ReportsPage)
  /\ Entitled(CommandPalette) /\ Entitled(SettingsPage) /\ Entitled(HolidaysPanel)
  /\ Entitled(RoomsPanel) /\ Entitled(TeamPanel)
<1>1. Entitled(MessagesPage)
  <2>1. MessageSend.call = "POST/messages"
    BY DEF MessageSend, Asks, Raises, Sends
  <2>2. \A r \in MessagesLoad \cup {"POST/messages", "POST/messages/preview"} :
           Reaches(Office, r)
    BY OfficeReaches, OfficeAndAdminReach DEF MessagesLoad, OfficeControllers, GroupsController,
       MessagesController, OfficeOnly, StudentsController, SettingsController, ForTheAdmin,
       Guarded
  <2>3. Reaches(Office, MessageSend.call)
    BY <2>1, <2>2
  <2>4. /\ MessagesPage.who = Office /\ MessagesPage.load = MessagesLoad
        /\ MessagesPage.choice.call = "POST/messages/preview"
    BY TheOffice DEF MessagesPage, Choosing, PageOfNone, Page, MessagePreview, Effect, NoChoice
  <2>5. Granting(Office, MessagesPage.acts)
    BY <2>3, Calls DEF Granting, MessagesPage, Choosing, PageOfNone, Page, Reaches
  <2> QED  BY <2>2, <2>4, <2>5, EntitledPage
<1>2. Entitled(DashboardPage)
  <2>1. \A r \in DashboardLoad : Reaches(Office, r)
    BY OfficeReaches, OfficeAndAdminReach DEF DashboardLoad, OfficeControllers, GroupsController,
       InvoicesController, SessionsController, EnrollmentsController, ReportsController,
       OfficeOnly, StudentsController, ForTheAdmin, Guarded
  <2>2. /\ DashboardPage.who = Office /\ DashboardPage.load = DashboardLoad
        /\ DashboardPage.acts = NoActs /\ DashboardPage.choice = NoChoice
    BY TheOffice DEF DashboardPage, PageOfNone, Page
  <2> QED  BY <2>1, <2>2, NothingToCall, EntitledPage
<1>3. Entitled(ReportsPage)
  <2>1. /\ ExportInvoices.call = "GET/reports/invoice-book"
        /\ ExportPayments.call = "GET/reports/payments"
    BY DEF ExportInvoices, ExportPayments, Sends, Stays
  <2>2. \A r \in {"GET/reports/invoice-book", "GET/reports/payments", "GET/reports/overview"} :
           Reaches(Office, r)
    BY OfficeReaches DEF OfficeControllers, ReportsController, OfficeOnly, Guarded
  <2>3. Reaches(Office, ExportInvoices.call) /\ Reaches(Office, ExportPayments.call)
    BY <2>1, <2>2
  <2>4. /\ ReportsPage.who = Office /\ ReportsPage.load = {}
        /\ ReportsPage.choice.call = "GET/reports/overview"
    BY TheOffice DEF ReportsPage, Choosing, PageOfNone, Page, ReportsOverview, Effect, Keeping,
       NoChoice, Unguarded
  <2>5. Granting(Office, ReportsPage.acts)
    BY <2>3, Calls DEF Granting, ReportsPage, Choosing, PageOfNone, Page, Reaches
  <2> QED  BY <2>2, <2>4, <2>5, EntitledPage
<1>4. Entitled(CommandPalette)
  <2>1. \A r \in CommandPaletteLoad : Reaches(Office, r)
    BY OfficeReaches, OfficeAndAdminReach DEF CommandPaletteLoad, OfficeControllers,
       GroupsController, OfficeOnly, StudentsController, TeachersController, ForTheAdmin, Guarded
  <2>2. /\ CommandPalette.who = Office /\ CommandPalette.load = CommandPaletteLoad
        /\ CommandPalette.acts = NoActs /\ CommandPalette.choice = NoChoice
    BY TheOffice DEF CommandPalette, PageOfNone, Page
  <2> QED  BY <2>1, <2>2, NothingToCall, EntitledPage
<1>5. Entitled(SettingsPage)
  <2>1. SettingsSubmit.call = "PATCH/settings"
    BY DEF SettingsSubmit, Raises, Sends, Takes
  <2>2. \A r \in SettingsLoad : Reaches(Office, r)
    BY OfficeAndAdminReach DEF SettingsLoad, SettingsController, ForTheAdmin, Guarded
  <2>3. \A r \in {"PATCH/settings"} : Reaches({"admin"}, r)
    BY OfficeAndAdminReach DEF SettingsController, ForTheAdmin, Guarded
  <2>4. Reaches({"admin"}, SettingsSubmit.call)
    BY <2>1, <2>2, <2>3
  <2>5. /\ SettingsPage.who = Office /\ SettingsPage.load = SettingsLoad
        /\ SettingsPage.choice = NoChoice
    BY TheOffice DEF SettingsPage, PageOfNone, Page
  <2>6. Granting(Office, SettingsPage.acts)
    BY <2>4, Calls DEF Granting, SettingsForm, SettingsPage, PageOfNone, Page, Reaches
  <2> QED  BY <2>2, <2>3, <2>5, <2>6, EntitledPage
<1>6. Entitled(HolidaysPanel)
  <2>1. /\ HolidayAdd.call = "POST/holidays" /\ HolidayImport.call = "POST/holidays/national"
        /\ HolidayDelete.call = "DELETE/holidays/:id"
    BY DEF HolidayAdd, HolidayImport, HolidayDelete, Asks, On, Raises, Sends
  <2>2. \A r \in HolidaysLoad \cup {"POST/holidays", "POST/holidays/national",
                                    "DELETE/holidays/:id"} :
           Reaches(Office, r)
    BY OfficeReaches DEF HolidaysLoad, OfficeControllers, HolidaysController, OfficeOnly, Guarded
  <2>3. /\ Reaches(SettingsTabs, HolidayAdd.call) /\ Reaches(SettingsTabs, HolidayImport.call)
        /\ Reaches(SettingsTabs, HolidayDelete.call)
    BY <2>1, <2>2, TheOffice
  <2>4. /\ HolidaysPanel.who = SettingsTabs /\ HolidaysPanel.load = HolidaysLoad
        /\ HolidaysPanel.choice = NoChoice
    BY DEF HolidaysPanel, Page
  <2>5. Granting(SettingsTabs, HolidaysPanel.acts)
    BY <2>3, Calls DEF Granting, HolidaysPanel, Page, Reaches
  <2> QED  BY <2>2, <2>4, <2>5, TheOffice, EntitledPage
<1>7. Entitled(RoomsPanel)
  <2>1. RoomAdd.call = "POST/rooms" /\ RoomRemove.call = "DELETE/rooms/:id"
    BY DEF RoomAdd, RoomRemove, Asks, On, Sends
  <2>2. \A r \in RoomsLoad \cup {"POST/rooms", "DELETE/rooms/:id"} : Reaches(Office, r)
    BY OfficeReaches DEF RoomsLoad, OfficeControllers, RoomsController, OfficeOnly, Guarded
  <2>3. Reaches(SettingsTabs, RoomAdd.call) /\ Reaches(SettingsTabs, RoomRemove.call)
    BY <2>1, <2>2, TheOffice
  <2>4. /\ RoomsPanel.who = SettingsTabs /\ RoomsPanel.load = RoomsLoad
        /\ RoomsPanel.choice = NoChoice
    BY DEF RoomsPanel, Page
  <2>5. Granting(SettingsTabs, RoomsPanel.acts)
    BY <2>3, Calls DEF Granting, RoomsPanel, Page, Reaches
  <2> QED  BY <2>2, <2>4, <2>5, TheOffice, EntitledPage
<1>8. Entitled(TeamPanel)
  <2>1. TeamAdd.call = "POST/team" /\ TeamRemove.call = "DELETE/team/:id"
    BY DEF TeamAdd, TeamRemove, Asks, On, Raises, Sends
  <2>2. TeamController \in Controllers
    BY DEF Controllers
  <2>3. \A r \in TeamLoad \cup {"POST/team", "DELETE/team/:id"} : Reaches(SettingsTabs, r)
    BY <2>2 DEF TeamLoad, TeamController, Guarded, RolesGuard, Reaches, MayCall, SettingsTabs
  <2>4. Reaches(SettingsTabs, TeamAdd.call) /\ Reaches(SettingsTabs, TeamRemove.call)
    BY <2>1, <2>3, TheOffice
  <2>5. /\ TeamPanel.who = SettingsTabs /\ TeamPanel.load = TeamLoad
        /\ TeamPanel.choice = NoChoice
    BY DEF TeamPanel, Page
  <2>6. Granting(SettingsTabs, TeamPanel.acts)
    BY <2>4, Calls DEF Granting, TeamPanel, Page, Reaches
  <2> QED  BY <2>3, <2>5, <2>6, TheOffice, EntitledPage
<1> QED  BY <1>1, <1>2, <1>3, <1>4, <1>5, <1>6, <1>7, <1>8

(* The pages of families and teachers,                                     *)
LEMMA FamilyPagesAreEntitled ==
  /\ Entitled(PortalPage) /\ Entitled(TeacherHomePage) /\ Entitled(TakeAttendancePage)
  /\ Entitled(TeacherGradesPage) /\ Entitled(TeacherGradesEditor)
<1>1. Entitled(PortalPage)
  <2>1. PortalPay.call = "POST/portal/invoices/:id/checkout"
    BY DEF PortalPay, Leaves, On, Raises, Sends
  <2>2. PortalController \in Controllers
    BY DEF Controllers
  <2>3. \A r \in PortalLoad \cup {"POST/portal/invoices/:id/checkout"} :
           Reaches(PortalLayout, r)
    BY <2>2 DEF PortalLoad, PortalController, Guarded, RolesGuard, Reaches, MayCall,
       PortalLayout, UserRoles
  <2>4. Reaches(PortalLayout, PortalPay.call)
    BY <2>1, <2>3
  <2>5. /\ PortalPage.who = PortalLayout /\ PortalPage.load = PortalLoad
        /\ PortalPage.choice = NoChoice
    BY DEF PortalPage, Page
  <2>6. Granting(PortalLayout, PortalPage.acts)
    BY <2>4, Calls DEF Granting, StudentCard, PortalPage, Page, Reaches
  <2> QED  BY <2>3, <2>5, <2>6, EntitledPage
<1>2. Entitled(TeacherHomePage)
  <2>1. TeacherAppController \in Controllers
    BY DEF Controllers
  <2>2. \A r \in {"GET/teacher/sessions"} : Reaches(TeacherLayout, r)
    BY <2>1 DEF TeacherAppController, Guarded, RolesGuard, Reaches, MayCall, TeacherLayout,
       UserRoles
  <2>3. /\ TeacherHomePage.who = TeacherLayout /\ TeacherHomePage.load = {}
        /\ TeacherHomePage.acts = NoActs /\ TeacherHomePage.choice.call = "GET/teacher/sessions"
    BY DEF TeacherHomePage, Choosing, PageOfNone, Page, TeacherWeek, Effect, NoChoice, Unguarded
  <2> QED  BY <2>2, <2>3, NothingToCall, EntitledPage
<1>3. Entitled(TakeAttendancePage)
  <2>1. TakeAttendanceSave.call = "PUT/teacher/sessions/:id/attendance"
    BY DEF TakeAttendanceSave, On, Raises, Sends, Takes
  <2>2. TeacherAppController \in Controllers
    BY DEF Controllers
  <2>3. \A r \in TakeAttendanceLoad \cup {"PUT/teacher/sessions/:id/attendance"} :
           Reaches(TeacherLayout, r)
    BY <2>2 DEF TakeAttendanceLoad, TeacherAppController, Guarded, RolesGuard, Reaches, MayCall,
       TeacherLayout, UserRoles
  <2>4. Reaches(TeacherLayout, TakeAttendanceSave.call)
    BY <2>1, <2>3
  <2>5. /\ TakeAttendancePage.who = TeacherLayout /\ TakeAttendancePage.load = TakeAttendanceLoad
        /\ TakeAttendancePage.choice = NoChoice
    BY DEF TakeAttendancePage, Page
  <2>6. Granting(TeacherLayout, TakeAttendancePage.acts)
    BY <2>4, Calls DEF Granting, TakeAttendancePage, Page, Reaches
  <2> QED  BY <2>3, <2>5, <2>6, EntitledPage
<1>4. Entitled(TeacherGradesPage)
  <2>1. TeacherAssessmentsController \in Controllers
    BY DEF Controllers
  <2>2. \A r \in TeacherGradesLoad : Reaches(TeacherLayout, r)
    BY <2>1 DEF TeacherGradesLoad, TeacherAssessmentsController, Guarded, RolesGuard, Reaches,
       MayCall, TeacherLayout, UserRoles
  <2>3. /\ TeacherGradesPage.who = TeacherLayout /\ TeacherGradesPage.load = TeacherGradesLoad
        /\ TeacherGradesPage.acts = NoActs /\ TeacherGradesPage.choice = NoChoice
    BY DEF TeacherGradesPage, PageOfNone, Page
  <2> QED  BY <2>2, <2>3, NothingToCall, EntitledPage
<1>5. Entitled(TeacherGradesEditor)
  <2>1. /\ TeacherGradesCreate.call = "POST/teacher/groups/:id/assessments"
        /\ TeacherGradesSave.call = "PUT/teacher/assessments/:id/results"
        /\ TeacherGradesRemove.call = "DELETE/teacher/assessments/:id"
    BY DEF TeacherGradesCreate, TeacherGradesSave, TeacherGradesRemove, Asks, On, Raises, Sends,
       Takes
  <2>2. TeacherAssessmentsController \in Controllers
    BY DEF Controllers
  <2>3. \A r \in TeacherGradesEditorLoad \cup {"POST/teacher/groups/:id/assessments",
                                               "PUT/teacher/assessments/:id/results",
                                               "DELETE/teacher/assessments/:id"} :
           Reaches(TeacherLayout, r)
    BY <2>2 DEF TeacherGradesEditorLoad, TeacherAssessmentsController, Guarded, RolesGuard,
       Reaches, MayCall, TeacherLayout, UserRoles
  <2>4. /\ Reaches(TeacherLayout, TeacherGradesCreate.call)
        /\ Reaches(TeacherLayout, TeacherGradesSave.call)
        /\ Reaches(TeacherLayout, TeacherGradesRemove.call)
    BY <2>1, <2>3
  <2>5. /\ TeacherGradesEditor.who = TeacherLayout
        /\ TeacherGradesEditor.load = TeacherGradesEditorLoad
        /\ TeacherGradesEditor.choice = NoChoice
    BY DEF TeacherGradesEditor, Page
  <2>6. Granting(TeacherLayout, TeacherGradesEditor.acts)
    BY <2>4, Calls DEF Granting, TeacherGradesEditor, Page, Reaches
  <2> QED  BY <2>3, <2>5, <2>6, EntitledPage
<1> QED  BY <1>1, <1>2, <1>3, <1>4, <1>5

(* the ones anybody opens,                                                 *)
LEMMA PublicPagesAreEntitled ==
  /\ Entitled(LoginPage) /\ Entitled(SignupPage) /\ Entitled(ForgotPasswordPage)
  /\ Entitled(ResetPasswordPage) /\ Entitled(EnrollPage) /\ Entitled(TrialBookingForm)
  /\ Entitled(AcademyPrivacyPage)
<1>1. Entitled(LoginPage)
  <2>1. Login.call = "POST/auth/login"
    BY DEF Login, Leaves, Raises, Sends
  <2>2. AuthController \in Controllers
    BY DEF Controllers
  <2>3. \A r \in {"POST/auth/login"} : Reaches(Public, r)
    BY <2>2 DEF AuthController, Callers, PartlyOpen, RolesGuard, UserRoles, Reaches, MayCall,
       Public
  <2>4. Reaches(Public, Login.call)
    BY <2>1, <2>3
  <2>5. LoginPage.who = Public /\ LoginPage.load = {} /\ LoginPage.choice = NoChoice
    BY DEF LoginPage, PageOfNone, Page
  <2>6. Granting(Public, LoginPage.acts)
    BY <2>4, Calls DEF Granting, LoginPage, PageOfNone, Page, Reaches
  <2> QED  BY <2>3, <2>5, <2>6, EntitledPage
<1>2. Entitled(SignupPage)
  <2>1. Signup.call = "POST/auth/signup"
    BY DEF Signup, Leaves, Raises, Sends
  <2>2. AuthController \in Controllers
    BY DEF Controllers
  <2>3. \A r \in {"POST/auth/signup"} : Reaches(Public, r)
    BY <2>2 DEF AuthController, Callers, PartlyOpen, RolesGuard, UserRoles, Reaches, MayCall,
       Public
  <2>4. Reaches(Public, Signup.call)
    BY <2>1, <2>3
  <2>5. SignupPage.who = Public /\ SignupPage.load = {} /\ SignupPage.choice = NoChoice
    BY DEF SignupPage, PageOfNone, Page
  <2>6. Granting(Public, SignupPage.acts)
    BY <2>4, Calls DEF Granting, SignupPage, PageOfNone, Page, Reaches
  <2> QED  BY <2>3, <2>5, <2>6, EntitledPage
<1>3. Entitled(ForgotPasswordPage)
  <2>1. ForgotPassword.call = "POST/auth/forgot-password"
    BY DEF ForgotPassword, Leaves, Raises, Sends
  <2>2. AuthController \in Controllers
    BY DEF Controllers
  <2>3. \A r \in {"POST/auth/forgot-password"} : Reaches(Public, r)
    BY <2>2 DEF AuthController, Callers, PartlyOpen, RolesGuard, UserRoles, Reaches, MayCall,
       Public
  <2>4. Reaches(Public, ForgotPassword.call)
    BY <2>1, <2>3
  <2>5. /\ ForgotPasswordPage.who = Public /\ ForgotPasswordPage.load = {}
        /\ ForgotPasswordPage.choice = NoChoice
    BY DEF ForgotPasswordPage, PageOfNone, Page
  <2>6. Granting(Public, ForgotPasswordPage.acts)
    BY <2>4, Calls DEF Granting, ForgotPasswordPage, PageOfNone, Page, Reaches
  <2> QED  BY <2>3, <2>5, <2>6, EntitledPage
<1>4. Entitled(ResetPasswordPage)
  <2>1. ResetPassword.call = "POST/auth/reset-password"
    BY DEF ResetPassword, Leaves, Raises, Sends
  <2>2. AuthController \in Controllers
    BY DEF Controllers
  <2>3. \A r \in {"POST/auth/reset-password"} : Reaches(Public, r)
    BY <2>2 DEF AuthController, Callers, PartlyOpen, RolesGuard, UserRoles, Reaches, MayCall,
       Public
  <2>4. Reaches(Public, ResetPassword.call)
    BY <2>1, <2>3
  <2>5. /\ ResetPasswordPage.who = Public /\ ResetPasswordPage.load = {}
        /\ ResetPasswordPage.choice = NoChoice
    BY DEF ResetPasswordPage, PageOfNone, Page
  <2>6. Granting(Public, ResetPasswordPage.acts)
    BY <2>4, Calls DEF Granting, ResetPasswordPage, PageOfNone, Page, Reaches
  <2> QED  BY <2>3, <2>5, <2>6, EntitledPage
<1>5. Entitled(EnrollPage)
  <2>1. EnrollSubmit.call = "POST/public/academy/:slug/enroll"
    BY DEF EnrollSubmit, Leaves, Raises, Sends
  <2>2. PublicController \in Controllers
    BY DEF Controllers
  <2>3. \A r \in EnrollLoad \cup {"POST/public/academy/:slug/enroll"} : Reaches(Public, r)
    BY <2>2 DEF EnrollLoad, PublicController, Callers, Open, Reaches, MayCall, Public
  <2>4. Reaches(Public, EnrollSubmit.call)
    BY <2>1, <2>3
  <2>5. /\ EnrollPage.who = Public /\ EnrollPage.load = EnrollLoad
        /\ EnrollPage.choice = NoChoice
    BY DEF EnrollPage, PageOfNone, Page
  <2>6. Granting(Public, EnrollPage.acts)
    BY <2>4, Calls DEF Granting, EnrollPage, PageOfNone, Page, Reaches
  <2> QED  BY <2>3, <2>5, <2>6, EntitledPage
<1>6. Entitled(TrialBookingForm)
  <2>1. TrialSubmit.call = "POST/public/academy/:slug/trial"
    BY DEF TrialSubmit, Leaves, Raises, Sends
  <2>2. PublicController \in Controllers
    BY DEF Controllers
  <2>3. \A r \in EnrollLoad \cup {"POST/public/academy/:slug/trial",
                                  "GET/public/academy/:slug/groups/:id/trial-sessions"} :
           Reaches(Public, r)
    BY <2>2 DEF EnrollLoad, PublicController, Callers, Open, Reaches, MayCall, Public
  <2>4. Reaches(Public, TrialSubmit.call)
    BY <2>1, <2>3
  <2>5. /\ TrialBookingForm.who = Public /\ TrialBookingForm.load = EnrollLoad
        /\ TrialBookingForm.choice.call = "GET/public/academy/:slug/groups/:id/trial-sessions"
    BY DEF TrialBookingForm, Choosing, PageOfNone, Page, TrialSessions, Effect, NoChoice,
       Unguarded
  <2>6. Granting(Public, TrialBookingForm.acts)
    BY <2>4, Calls DEF Granting, TrialBookingForm, Choosing, PageOfNone, Page, Reaches
  <2> QED  BY <2>3, <2>5, <2>6, EntitledPage
<1>7. Entitled(AcademyPrivacyPage)
  <2>1. PublicController \in Controllers
    BY DEF Controllers
  <2>2. \A r \in EnrollLoad : Reaches(Public, r)
    BY <2>1 DEF EnrollLoad, PublicController, Callers, Open, Reaches, MayCall, Public
  <2>3. /\ AcademyPrivacyPage.who = Public /\ AcademyPrivacyPage.load = EnrollLoad
        /\ AcademyPrivacyPage.acts = NoActs /\ AcademyPrivacyPage.choice = NoChoice
    BY DEF AcademyPrivacyPage, PageOfNone, Page
  <2> QED  BY <2>2, <2>3, NothingToCall, EntitledPage
<1> QED  BY <1>1, <1>2, <1>3, <1>4, <1>5, <1>6, <1>7

(* and everybody's account.                                                *)
LEMMA AccountPagesAreEntitled ==
  \A layout \in {AppLayout, PortalLayout, TeacherLayout} : Entitled(AccountPage(layout))
<1> SUFFICES ASSUME NEW layout \in {AppLayout, PortalLayout, TeacherLayout}
             PROVE  Entitled(AccountPage(layout))
  OBVIOUS
<1>1. AuthController \in Controllers
  BY DEF Controllers
<1>2. layout \subseteq UserRoles
  BY DEF AppLayout, PortalLayout, TeacherLayout
<1>3. Reaches(layout, "POST/auth/change-password")
  BY <1>1, <1>2 DEF AuthController, PartlyOpen, RolesGuard, Reaches, MayCall
<1>4. ChangePassword.call = "POST/auth/change-password"
  BY DEF ChangePassword, Raises, Sends, Stays
<1>5. Reaches(layout, ChangePassword.call)
  BY <1>3, <1>4
<1>6. Granting(layout, ChangePasswordForm)
  BY <1>5, Calls DEF Granting, ChangePasswordForm, Reaches
<1>7. PICK p : p = AccountPage(layout)
  OBVIOUS
<1>8. p.who = layout /\ p.load = {} /\ p.acts = ChangePasswordForm /\ p.choice = NoChoice
  BY <1>7 DEF AccountPage, PageOfNone, Page
<1> QED  BY <1>6, <1>7, <1>8, EntitledPage

(* Every page there is.                                                    *)
LEMMA PagesAreEntitled ==
  ASSUME NEW n \in DOMAIN AllPages
  PROVE  Entitled(AllPages[n])
<1>1. CASE n \in {"group", "waitlist", "schedule", "chargeGroup", "grades", "groupReportCards",
               "groups"}
  BY <1>1, GroupPagesAreEntitled DEF AllPages
<1>2. CASE n \in {"session", "trials", "calendar", "courses"}
  BY <1>2, ClassPagesAreEntitled DEF AllPages
<1>3. CASE n \in {"invoice", "invoices", "billing", "remittances"}
  BY <1>3, MoneyPagesAreEntitled DEF AllPages
<1>4. CASE n \in {"students", "import", "student", "teachers", "teacher"}
  BY <1>4, PeoplePagesAreEntitled DEF AllPages
<1>5. CASE n \in {"messages", "dashboard", "reports", "search", "settings", "holidays", "rooms",
               "team"}
  BY <1>5, AcademyPagesAreEntitled DEF AllPages
<1>6. CASE n \in {"portal", "teacherHome", "takeAttendance", "teacherGroups", "teacherGrades"}
  BY <1>6, FamilyPagesAreEntitled DEF AllPages
<1>7. CASE n \in {"login", "signup", "forgotPassword", "resetPassword", "enroll", "trialBooking",
               "privacy"}
  BY <1>7, PublicPagesAreEntitled DEF AllPages
<1>8. CASE n \in {"officeAccount", "familyAccount", "teacherAccount"}
  BY <1>8, AccountPagesAreEntitled DEF AllPages
<1> QED  BY <1>1, <1>2, <1>3, <1>4, <1>5, <1>6, <1>7, <1>8 DEF AllPages

-----------------------------------------------------------------------------
(* Nothing forbidden is asked for.                                         *)

\* A user has only what was drawn to them: the forms that are open and the
\* calls that were pressed.
UnderWay == {"asking", "sent", "served", "refused"}
DrawnToUser(h) == h \in DOMAIN page.acts /\ user \in act(h).by
Drawing == /\ user \in page.who
           /\ \A h \in forms : DrawnToUser(h)
           /\ \A c \in Requests : calls[c].step \in UnderWay /\ calls[c].act # "look" =>
                DrawnToUser(calls[c].act)

\* No call begins but the ones the page makes by itself and its previews.
NothingPressed ==
  \A c \in Requests : \/ calls'[c].act = "look" \/ calls'[c].step \notin UnderWay
                      \/ calls'[c].act = calls[c].act /\ calls[c].step \in UnderWay

LEMMA OneFurther ==
  ASSUME CallsHold, NEW c \in Requests, NEW x, IsCall(x), calls' = [calls EXCEPT ![c] = x],
         UNCHANGED opened,
         \/ x.act = "look" \/ x.step \notin UnderWay
         \/ x.act = calls[c].act /\ calls[c].step \in UnderWay
  PROVE  NothingPressed
BY OneChanged DEF NothingPressed

(* All steps but the pressing of a control.                                *)
LEMMA TheRestPressNothing ==
  ASSUME CallsHold, [Next]_vars,
         ~ \E c \in Requests : \E h \in DOMAIN page.acts : Press(c, h)
  PROVE  NothingPressed
<1>1. CASE UNCHANGED calls
  BY <1>1 DEF NothingPressed
<1>2. ASSUME NEW c \in Requests, NEW z \in Choices, Choose(c, z)  PROVE NothingPressed
  <2> SUFFICES ASSUME NEW d \in Requests
               PROVE  \/ calls'[d].act = "look" \/ calls'[d].step \notin UnderWay
                      \/ calls'[d] = calls[d]
    BY DEF NothingPressed
  <2>1. calls'[d] \in {Looking(z), Idle, calls[d]}
    BY <1>2 DEF Choose
  <2>2. Idle.step \notin UnderWay
    BY DEF Idle, UnderWay
  <2> QED  BY <2>1, <2>2, LookingIsCall
<1>3. ASSUME NEW c \in Requests, Look(c)  PROVE NothingPressed
  <2>1. calls' = [calls EXCEPT ![c] = Looking(chosen)] /\ UNCHANGED opened
    BY <1>3 DEF Look
  <2> QED  BY <2>1, LookingIsCall, OneFurther
<1>4. ASSUME NEW c \in Requests, Confirm(c)  PROVE NothingPressed
  <2> PICK x : x = [calls[c] EXCEPT !.step = "sent"]
    OBVIOUS
  <2>1. IsCall(x) /\ x.act = calls[c].act /\ calls' = [calls EXCEPT ![c] = x]
    BY <1>4, Further DEF Confirm
  <2> QED  BY <1>4, <2>1, OneFurther DEF Confirm, UnderWay
<1>5. ASSUME NEW c \in Requests,
             \/ Dismiss(c) \/ AnswerLoad(c) \/ AnswerLook(c) \/ AnswerTake(c)
             \/ AnswerStay(c) \/ Fail(c)
      PROVE  NothingPressed
  <2>1. calls' = [calls EXCEPT ![c] = Idle] /\ UNCHANGED opened
    BY <1>5 DEF Dismiss, AnswerLoad, AnswerLook, AnswerTake, AnswerStay, Fail
  <2> QED  BY <2>1, IdleIsCall, OneFurther DEF UnderWay
<1>6. ASSUME NEW c \in Requests, ServeLoad(c) \/ AnswerReload(c)  PROVE NothingPressed
  <2> PICK x : \/ /\ ServeLoad(c)
                  /\ x = [calls[c] EXCEPT !.step = "loaded", !.got = row, !.current = TRUE]
               \/ AnswerReload(c) /\ x = [calls[c] EXCEPT !.step = "loading"]
    BY <1>6
  <2>1. IsCall(calls[c]) /\ calls = [d \in Requests |-> calls[d]]
    BY DEF CallsHold
  <2>2. IsCall(x) /\ x.step \in {"loaded", "loading"}
    BY <2>1 DEF IsCall, ServeLoad, AnswerReload
  <2>3. calls' = [calls EXCEPT ![c] = x] /\ UNCHANGED opened
    BY <2>1 DEF ServeLoad, AnswerReload
  <2> QED  BY <2>2, <2>3, OneFurther DEF UnderWay
<1>7. ASSUME NEW c \in Requests, Serve(c) \/ Refuse(c)  PROVE NothingPressed
  <2> PICK x : \/ Serve(c) /\ x = [calls[c] EXCEPT !.step = "served", !.got = row']
               \/ Refuse(c) /\ x = [calls[c] EXCEPT !.step = "refused"]
    BY <1>7
  <2>1. IsCall(calls[c]) /\ calls = [d \in Requests |-> calls[d]]
    BY DEF CallsHold
  <2>2. IsCall(x) /\ x.act = calls[c].act /\ calls[c].step \in UnderWay
    BY <2>1 DEF IsCall, Serve, Refuse, UnderWay
  <2>3. calls' = [calls EXCEPT ![c] = x] /\ UNCHANGED opened
    BY <2>1 DEF Serve, Refuse
  <2> QED  BY <2>2, <2>3, OneFurther
<1>8. ASSUME NEW c \in Requests, AnswerLeave(c)  PROVE NothingPressed
  <2>1. NothingSeen' /\ \A d \in Requests : calls'[d] \in {Idle, Loading}
    <3>1. calls' = FirstCalls /\ page' = page
      BY <1>8 DEF AnswerLeave, opened, page
    <3>2. CASE page.load = {}
      BY <3>1, <3>2, <1>8 DEF AnswerLeave, FirstCalls, NoCalls, NothingSeen
    <3>3. CASE page.load # {}
      BY <3>1, <3>3, <1>8 DEF AnswerLeave, FirstCalls, NoCalls, NothingSeen
    <3> QED  BY <3>2, <3>3
  <2> QED  BY <2>1, IdleIsCall, LoadingIsCall DEF NothingPressed, UnderWay
<1>9. CASE Move
  <2> SUFFICES ASSUME NEW d \in Requests
               PROVE  calls'[d].act = calls[d].act /\ calls'[d].step = calls[d].step
    BY DEF NothingPressed
  <2>1. CASE Free(d)
    BY <1>9, <2>1 DEF Move, Free
  <2>2. CASE ~Free(d)
    <3>1. calls'[d] = [calls[d] EXCEPT !.current = FALSE] /\ IsCall(calls[d])
      BY <1>9, <2>2 DEF Move, CallsHold
    <3> QED  BY <3>1 DEF IsCall
  <2> QED  BY <2>1, <2>2
<1>10. ASSUME NEW h, OpenForm(h) \/ CloseForm(h)  PROVE UNCHANGED calls
  BY <1>10 DEF OpenForm, CloseForm
<1> QED  BY <1>1, <1>2, <1>3, <1>4, <1>5, <1>6, <1>7, <1>8, <1>9, <1>10
         DEF Next, Decides, Settles, vars

(* The forms that are open were opened.                                    *)
LEMMA FormsAreOpened ==
  ASSUME [Next]_vars, ~ \E h \in DOMAIN page.acts : OpenForm(h)
  PROVE  forms' \subseteq forms
BY DEF Next, vars, view, Press, Choose, Look, Decides, Confirm, Dismiss, Settles, ServeLoad, Serve,
   Refuse, Fail, AnswerLoad, AnswerLook, AnswerReload, AnswerTake, AnswerStay, AnswerLeave, Closed,
   CloseForm, Move

LEMMA PageStays ==
  ASSUME [Next]_vars
  PROVE  name' = name /\ user' = user /\ kind' = kind /\ page' = page
BY DEF Next, vars, view, opened, page, Press, Choose, Look, Decides, Confirm, Dismiss, Settles,
   ServeLoad, Serve, Refuse, Fail, AnswerLoad, AnswerLook, AnswerReload, AnswerTake, AnswerStay,
   AnswerLeave, OpenForm, CloseForm, Move

(* What a user has is what was drawn to them.                              *)
LEMMA DrawingHolds == Spec => []Drawing
<1>1. ASSUME Init  PROVE Drawing
  <2>1. user \in page.who /\ forms = {}
    BY <1>1 DEF Init
  <2>2. \A c \in Requests : calls[c] \in {Idle, Loading}
    <3>1. CASE page.load = {}
      BY <1>1, <3>1 DEF Init, FirstCalls, NoCalls
    <3>2. CASE page.load # {}
      BY <1>1, <3>2 DEF Init, FirstCalls, NoCalls
    <3> QED  BY <3>1, <3>2
  <2> QED  BY <2>1, <2>2, IdleIsCall, LoadingIsCall DEF Drawing, UnderWay
<1>2. ASSUME CallsHold, Drawing, [Next]_vars  PROVE Drawing'
  <2>1. page' = page /\ user' = user
    BY <1>2, PageStays
  <2>2. \A h : DrawnToUser(h)' <=> DrawnToUser(h)
    BY <2>1 DEF DrawnToUser, act
  <2>3. \A h \in forms' : DrawnToUser(h)
    <3>1. ASSUME NEW h \in DOMAIN page.acts, OpenForm(h)
          PROVE  forms' = forms \cup {h} /\ DrawnToUser(h)
      BY <3>1 DEF OpenForm, Offered, DrawnToUser
    <3> QED  BY <1>2, <3>1, FormsAreOpened DEF Drawing
  <2>4. \A c \in Requests : calls'[c].step \in UnderWay /\ calls'[c].act # "look" =>
           DrawnToUser(calls'[c].act)
    <3>1. ASSUME NEW c \in Requests, NEW h \in DOMAIN page.acts, Press(c, h),
                 NEW d \in Requests, calls'[d].step \in UnderWay, calls'[d].act # "look"
          PROVE  DrawnToUser(calls'[d].act)
      <4> PICK x : x = [Idle EXCEPT !.step = IF act(h).asks # "no" THEN "asking" ELSE "sent",
                              !.act = h, !.current = current, !.choice = chosen, !.seen = preview]
        OBVIOUS
      <4>1. IsCall(x) /\ x.act = h
        BY DEF IsCall, Idle
      <4>2. calls' = [calls EXCEPT ![c] = x] /\ UNCHANGED opened
        BY <3>1 DEF Press
      <4>3. DrawnToUser(h)
        BY <1>2, <3>1 DEF Press, Offered, Drawing, DrawnToUser
      <4> QED  BY <1>2, <3>1, <4>1, <4>2, <4>3, OneChanged DEF Drawing
    <3>2. CASE NothingPressed
      BY <1>2, <3>2 DEF NothingPressed, Drawing
    <3> QED  BY <1>2, <3>1, <3>2, TheRestPressNothing
  <2>5. \A c \in Requests : (calls[c].step \in UnderWay /\ calls[c].act # "look" =>
           DrawnToUser(calls[c].act))'
    BY <2>1, <2>4 DEF DrawnToUser, act
  <2> QED  BY <1>2, <2>1, <2>2, <2>3, <2>5 DEF Drawing
<1> QED  BY <1>1, <1>2, CallsOwe, PTL DEF Spec, Owed

(* No page asks the API for what the roles it lets in may not have: neither *)
(* when it opens nor when one of its controls is used, whatever the user    *)
(* presses and whatever becomes of the calls.                               *)
THEOREM NothingForbiddenIsAsked == Spec => []NothingForbidden
<1>1. ASSUME CallsHold, Drawing  PROVE NothingForbidden
  <2>1. Entitled(page)
    BY <1>1, PagesAssumption, PagesAreEntitled DEF CallsHold, page
  <2>2. \A r \in page.load \cup ({page.choice.call} \ {""}) : MayCall(user, r)
    <3>1. user \in page.who /\ OpensWith(page)
      BY <1>1, <2>1 DEF Drawing, Entitled
    <3>2. ASSUME NEW r \in page.load  PROVE MayCall(user, r)
      BY <3>1, <3>2 DEF OpensWith, Reaches
    <3>3. ASSUME NEW r \in {page.choice.call} \ {""}  PROVE MayCall(user, r)
      <4>1. r = page.choice.call
        BY <3>3
      <4>2. page.choice # NoChoice
        <5>1. NoChoice.call = ""
          BY DEF NoChoice
        <5> QED  BY <3>3, <5>1
      <4> QED  BY <3>1, <4>1, <4>2 DEF OpensWith, Reaches
    <3> QED  BY <3>2, <3>3
  <2>3. ASSUME NEW c \in Requests, Sent(c), IsAct(c)
        PROVE  MayCall(user, act(calls[c].act).call)
    <3>1. calls[c].act # "look"
      BY <2>1, <2>3 DEF Entitled, Granting, IsAct
    <3>2. DrawnToUser(calls[c].act)
      BY <1>1, <2>3, <3>1 DEF Drawing, Sent, UnderWay
    <3> QED  BY <1>1, <2>1, <3>2 DEF Drawing, DrawnToUser, Entitled, Granting, Reaches, act
  <2> QED  BY <2>2, <2>3 DEF NothingForbidden
<1> QED  BY <1>1, CallsOwe, DrawingHolds, PTL DEF Owed

-----------------------------------------------------------------------------
(* What the controls are drawn for is what the API lets through.           *)

\* The handler d takes each of `rows`, leaves rows that are there or Gone, and
\* where nothing is shown anew leaves the row as it was.
Suits(d, of, rows) == \A r \in Rows[of] : /\ r \in rows => Does[d][r] # {}
                                          /\ Does[d][r] \subseteq Rows[of]
LeavesAlone(d, of) == \A r \in Rows[of] : Does[d][r] \subseteq {r}
Right(a) == a.does # "nothing" => /\ Suits(a.does, a.of, a.rows)
                                  /\ a.then = "stay" => LeavesAlone(a.does, a.of)
AllRight(acts) == \A h \in DOMAIN acts : Right(acts[h])
\* A page that loads nothing is about no row.
NoneOnRows(acts) == \A h \in DOMAIN acts : acts[h].does = "nothing"
Agreeing(p) == AllRight(p.acts) /\ (p.load = {} => NoneOnRows(p.acts))

(* The handlers that only check the row,                                   *)
LEMMA KeepersSuit ==
  ASSUME NEW d, NEW of, NEW refused,
         \A r \in Rows[of] : Does[d][r] = IF r = Gone \/ r \in refused THEN {} ELSE {r}
  PROVE  Suits(d, of, There(of) \ refused) /\ LeavesAlone(d, of)
BY DEF Suits, LeavesAlone, There

(* the ones that remove it,                                                *)
LEMMA RemoversSuit ==
  ASSUME NEW d, NEW of, Gone \in Rows[of],
         \A r \in Rows[of] : Does[d][r] = IF r = Gone THEN {} ELSE {Gone}
  PROVE  Suits(d, of, There(of))
BY DEF Suits, There

(* and the ones that change its status.                                    *)
At(r, s) == [r EXCEPT !.status = s]
LEMMA BecomingIs ==
  ASSUME NEW rows, NEW refused, NEW states, NEW r \in rows, NEW x
  PROVE  x \in Becomes(rows, refused, states)[r] <=>
           r # Gone /\ r \notin refused /\ \E s \in states : x = At(r, s)
<1>1. CASE r = Gone \/ r \in refused
  <2>1. Becomes(rows, refused, states)[r] = {}
    BY <1>1 DEF Becomes, Handler
  <2> QED  BY <1>1, <2>1
<1>2. CASE ~(r = Gone \/ r \in refused)
  <2>1. Becomes(rows, refused, states)[r] = {At(r, s) : s \in states}
    BY <1>2 DEF Becomes, Handler, At
  <2> QED  BY <1>2, <2>1
<1> QED  BY <1>1, <1>2

LEMMA BecomersSuit ==
  ASSUME NEW d, NEW of, NEW refused, NEW states, states # {},
         Does[d] = Becomes(Rows[of], refused, states),
         \A r \in There(of) : \A s \in states : At(r, s) \in Rows[of]
  PROVE  Suits(d, of, There(of) \ refused)
<1>1. ASSUME NEW r \in Rows[of], NEW x \in Does[d][r]  PROVE x \in Rows[of]
  <2>1. r \in There(of) /\ \E s \in states : x = At(r, s)
    BY <1>1, BecomingIs DEF There
  <2> QED  BY <2>1
<1>2. ASSUME NEW r \in There(of) \ refused  PROVE Does[d][r] # {}
  <2>1. PICK s \in states : TRUE
    OBVIOUS
  <2>2. r \in Rows[of] /\ r # Gone
    BY DEF There
  <2>3. At(r, s) \in Does[d][r]
    BY <2>2, BecomingIs
  <2> QED  BY <2>3
<1> QED  BY <1>1, <1>2 DEF Suits

LEMMA SuitsFewer ==
  ASSUME NEW d, NEW of, NEW rows, NEW fewer, Suits(d, of, rows),
         fewer \cap Rows[of] \subseteq rows
  PROVE  Suits(d, of, fewer)
BY DEF Suits

LEMMA RowsOfAKind ==
  /\ Rows["invoice"] = InvoiceRows /\ Rows["enrollment"] = EnrollmentRows
  /\ Rows["session"] = SessionRows /\ Rows["trial"] = TrialRows
  /\ Rows["remittance"] = RemittanceRows /\ Rows["student"] = StudentRows
  /\ Rows["teacher"] = TeacherRows /\ Rows["member"] = MemberRows /\ Rows["plain"] = PlainRows
BY DEF Rows

LEMMA AnyMayBeGone ==
  \A of \in {"invoice", "enrollment", "session", "trial", "remittance", "student", "teacher",
             "member", "plain"} : Gone \in Rows[of]
BY RowsOfAKind DEF InvoiceRows, EnrollmentRows, SessionRows, TrialRows, RemittanceRows, StudentRows,
   TeacherRows, MemberRows, PlainRows

LEMMA KeepsAndRemoves ==
  ASSUME NEW rows
  PROVE  /\ Keeps(rows) = [r \in rows |-> IF r = Gone THEN {} ELSE {r}]
         /\ Removes(rows) = [r \in rows |-> IF r = Gone THEN {} ELSE {Gone}]
BY DEF Keeps, Removes, Handler

LEMMA TheyKeep ==
  ASSUME NEW d, NEW of, Does[d] = Keeps(Rows[of])
  PROVE  Suits(d, of, There(of)) /\ LeavesAlone(d, of)
<1>1. Does[d] = [r \in Rows[of] |-> IF r = Gone THEN {} ELSE {r}]
  BY KeepsAndRemoves
<1> QED  BY <1>1 DEF Suits, LeavesAlone, There

LEMMA TheyRemove ==
  ASSUME NEW d, NEW of, Gone \in Rows[of], Does[d] = Removes(Rows[of])
  PROVE  Suits(d, of, There(of))
<1>1. Does[d] = [r \in Rows[of] |-> IF r = Gone THEN {} ELSE {Gone}]
  BY KeepsAndRemoves
<1>2. \A r \in Rows[of] : Does[d][r] = IF r = Gone THEN {} ELSE {Gone}
  BY <1>1
<1> QED  BY <1>2, RemoversSuit

(* Students and plain rows: a handler keeps them or removes them.          *)
LEMMA StudentHandlersSuit ==
  /\ Suits("updateStudent", "student", There("student"))
  /\ Suits("removeStudent", "student", There("student"))
  /\ \A d \in {"grantPortalAccess", "revokePortalAccess", "exportStudent", "reportCard"} :
       Suits(d, "student", notErased) /\ LeavesAlone(d, "student")
  /\ Suits("erase", "student", notErased)
<1>1. /\ Does["updateStudent"] = Keeps(Rows["student"])
      /\ Does["grantPortalAccess"] = Keeps(Rows["student"])
      /\ Does["revokePortalAccess"] = Keeps(Rows["student"])
      /\ Does["exportStudent"] = Keeps(Rows["student"])
      /\ Does["reportCard"] = Keeps(Rows["student"])
      /\ Does["removeStudent"] = Removes(Rows["student"])
  BY RowsOfAKind DEF Does, updateStudent, grantPortalAccess, revokePortalAccess, exportStudent,
     reportCard, removeStudent
<1>2. notErased \cap Rows["student"] \subseteq There("student")
  BY DEF notErased, With, There, Gone
<1>3. Suits("erase", "student", notErased)
  <2>1. Does["erase"] = [r \in StudentRows |->
                           IF r = Gone THEN {} ELSE {Gone, [status |-> "ERASED"]}]
    BY DEF Does, erase, Handler
  <2>2. Gone \in StudentRows /\ [status |-> "ERASED"] \in StudentRows
    BY DEF StudentRows
  <2> QED  BY <1>2, <2>1, <2>2, RowsOfAKind DEF Suits, There
<1> QED  BY <1>1, <1>2, <1>3, TheyKeep, TheyRemove, SuitsFewer, AnyMayBeGone

LEMMA PlainHandlersSuit ==
  /\ \A d \in {"updateTeacher", "updateGroup", "updateCourse", "saveResults"} :
       Suits(d, "plain", There("plain")) /\ LeavesAlone(d, "plain")
  /\ \A d \in {"removeTeacher", "removeGroup", "removeCourse", "removeHoliday", "removeRoom",
               "removeAssessment"} : Suits(d, "plain", There("plain"))
<1>1. \A d \in {"updateTeacher", "updateGroup", "updateCourse", "saveResults"} :
         Does[d] = Keeps(Rows["plain"])
  BY RowsOfAKind DEF Does, updateTeacher, updateGroup, updateCourse, saveResults
<1>2. \A d \in {"removeTeacher", "removeGroup", "removeCourse", "removeHoliday", "removeRoom",
                "removeAssessment"} : Does[d] = Removes(Rows["plain"])
  BY RowsOfAKind DEF Does, removeTeacher, removeGroup, removeCourse, removeHoliday, removeRoom,
     removeAssessment
<1> QED  BY <1>1, <1>2, TheyKeep, TheyRemove, AnyMayBeGone

(* Enrollments and sessions: any status may become any other.              *)
LEMMA EnrollmentHandlersSuit ==
  /\ \A d \in {"updateEnrollment", "keepEnrollment", "removeEnrollment"} :
       /\ Suits(d, "enrollment", Enrolled)
       /\ Suits(d, "enrollment", With(EnrollmentRows, {"WAITLIST"}))
  /\ Suits("offerSpot", "enrollment", With(EnrollmentRows, {"WAITLIST"}))
<1>1. /\ Does["updateEnrollment"] = Becomes(Rows["enrollment"], {},
                                    {"ACTIVE", "COMPLETED", "DROPPED", "PENDING", "WAITLIST"})
      /\ Does["keepEnrollment"] = Keeps(Rows["enrollment"])
      /\ Does["removeEnrollment"] = Removes(Rows["enrollment"])
  BY RowsOfAKind DEF Does, updateEnrollment, keepEnrollment, removeEnrollment
<1>2. \A r \in There("enrollment") :
         \A s \in {"ACTIVE", "COMPLETED", "DROPPED", "PENDING", "WAITLIST"} :
            At(r, s) \in Rows["enrollment"]
  BY RowsOfAKind DEF There, EnrollmentRows, At
<1>3. Suits("offerSpot", "enrollment", With(EnrollmentRows, {"WAITLIST"}))
  <2>1. \A r \in Rows["enrollment"] :
           Does["offerSpot"][r] =
             IF r = Gone \/ r \in EnrollmentRows \ With(EnrollmentRows, {"WAITLIST"})
             THEN {} ELSE {r}
    BY RowsOfAKind DEF Does, offerSpot, Handler
  <2>2. With(EnrollmentRows, {"WAITLIST"}) \subseteq
          There("enrollment") \ (EnrollmentRows \ With(EnrollmentRows, {"WAITLIST"}))
    BY RowsOfAKind DEF With, There, Gone
  <2>3. Suits("offerSpot", "enrollment",
              There("enrollment") \ (EnrollmentRows \ With(EnrollmentRows, {"WAITLIST"})))
    BY <2>1, KeepersSuit
  <2> QED  BY <2>2, <2>3, SuitsFewer
<1>4. Suits("updateEnrollment", "enrollment", There("enrollment"))
  <2> DEFINE states == {"ACTIVE", "COMPLETED", "DROPPED", "PENDING", "WAITLIST"}
  <2>1. /\ states # {}
        /\ \A r \in There("enrollment") : \A s \in states : At(r, s) \in Rows["enrollment"]
        /\ Does["updateEnrollment"] = Becomes(Rows["enrollment"], {}, states)
    BY <1>1, <1>2
  <2> HIDE DEF states
  <2>2. Suits("updateEnrollment", "enrollment", There("enrollment") \ {})
    BY <2>1, BecomersSuit
  <2> QED  BY <2>2, SuitsFewer
<1>5. /\ Suits("keepEnrollment", "enrollment", There("enrollment"))
      /\ Suits("removeEnrollment", "enrollment", There("enrollment"))
  BY <1>1, TheyKeep, TheyRemove, AnyMayBeGone
<1>6. /\ Enrolled \subseteq There("enrollment")
      /\ With(EnrollmentRows, {"WAITLIST"}) \subseteq There("enrollment")
  BY RowsOfAKind DEF Enrolled, With, There, Gone
<1> QED  BY <1>3, <1>4, <1>5, <1>6, SuitsFewer

LEMMA SessionHandlersSuit ==
  /\ Suits("updateSession", "session", There("session"))
  /\ Suits("editSession", "session", There("session"))
  /\ Suits("removeSession", "session", There("session"))
  /\ Suits("bulkUpsert", "session", There("session")) /\ LeavesAlone("bulkUpsert", "session")
  /\ Suits("saveAttendance", "session", There("session") \ With(SessionRows, {"CANCELLED"}))
  /\ LeavesAlone("saveAttendance", "session")
<1>1. /\ Does["updateSession"] = Becomes(Rows["session"], {},
                                         {"SCHEDULED", "COMPLETED", "CANCELLED"})
      /\ Does["editSession"] = Keeps(Rows["session"])
      /\ Does["bulkUpsert"] = Keeps(Rows["session"])
      /\ Does["removeSession"] = Removes(Rows["session"])
  BY RowsOfAKind DEF Does, updateSession, editSession, bulkUpsert, removeSession
<1>2. \A r \in There("session") : \A s \in {"SCHEDULED", "COMPLETED", "CANCELLED"} :
         At(r, s) \in Rows["session"]
  BY RowsOfAKind DEF There, SessionRows, At
<1>3. \A r \in Rows["session"] :
         Does["saveAttendance"][r] =
           IF r = Gone \/ r \in With(SessionRows, {"CANCELLED"}) THEN {} ELSE {r}
  BY RowsOfAKind DEF Does, saveAttendance, Handler
<1>4. Suits("updateSession", "session", There("session"))
  <2> DEFINE states == {"SCHEDULED", "COMPLETED", "CANCELLED"}
  <2>1. /\ states # {} /\ \A r \in There("session") : \A s \in states : At(r, s) \in Rows["session"]
        /\ Does["updateSession"] = Becomes(Rows["session"], {}, states)
    BY <1>1, <1>2
  <2> HIDE DEF states
  <2>2. Suits("updateSession", "session", There("session") \ {})
    BY <2>1, BecomersSuit
  <2> QED  BY <2>2, SuitsFewer
<1> QED  BY <1>1, <1>3, <1>4, KeepersSuit, TheyKeep, TheyRemove, AnyMayBeGone

(* Invoices.                                                               *)
InvoiceStates == {"PENDING", "PARTIAL", "PAID", "OVERDUE", "CANCELLED"}
LEMMA InvoiceRowsAre ==
  InvoiceRows = {Gone}
    \cup [status : InvoiceStates, type : {"ORIGINAL", "RECTIFICATIVA"}, rectified : {FALSE}]
    \cup [status : InvoiceStates, type : {"ORIGINAL"}, rectified : {TRUE}]
BY DEF InvoiceRows, InvoiceStates

LEMMA AnyInvoiceStatus ==
  \A r \in There("invoice") : \A s \in InvoiceStates : At(r, s) \in Rows["invoice"]
<1>1. \A r \in [status : InvoiceStates, type : {"ORIGINAL", "RECTIFICATIVA"},
                rectified : {FALSE}] :
         \A s \in InvoiceStates :
            At(r, s) \in [status : InvoiceStates, type : {"ORIGINAL", "RECTIFICATIVA"},
                          rectified : {FALSE}]
  BY DEF At
<1>2. \A r \in [status : InvoiceStates, type : {"ORIGINAL"}, rectified : {TRUE}] :
         \A s \in InvoiceStates :
            At(r, s) \in [status : InvoiceStates, type : {"ORIGINAL"}, rectified : {TRUE}]
  BY DEF At
<1> QED  BY <1>1, <1>2, InvoiceRowsAre, RowsOfAKind DEF There

(* An invoice that a rectification replaces.                               *)
LEMMA RectifyingSuits == Suits("createRectification", "invoice", canRectify)
<1> DEFINE refused == {r \in InvoiceRows \ {Gone} :
                         r.type = "RECTIFICATIVA" \/ r.status = "CANCELLED" \/ r.rectified}
           Replaced(r) == [r EXCEPT !.status = "CANCELLED", !.rectified = TRUE]
<1>1. Does["createRectification"] =
        [r \in InvoiceRows |-> IF r = Gone \/ r \in refused THEN {} ELSE {Replaced(r)}]
  BY DEF Does, createRectification, Handler
<1>2. \A r \in InvoiceRows : r # Gone /\ r \notin refused => Replaced(r) \in InvoiceRows
  BY InvoiceRowsAre DEF InvoiceStates
<1>3. \A r \in canRectify : r # Gone /\ r \notin refused
  BY DEF canRectify, There
<1> HIDE DEF refused, Replaced
<1> QED  BY <1>1, <1>2, <1>3, RowsOfAKind DEF Suits

LEMMA InvoiceHandlersSuit ==
  /\ Suits("addPayment", "invoice", canRegisterPayment)
  /\ Suits("createCheckout", "invoice", canRegisterPayment)
  /\ Suits("createCheckout", "invoice", With(InvoiceRows, {"PENDING", "PARTIAL", "OVERDUE"}))
  /\ LeavesAlone("createCheckout", "invoice")
  /\ Suits("generatePdf", "invoice", There("invoice")) /\ LeavesAlone("generatePdf", "invoice")
  /\ Suits("cancelInvoice", "invoice", canCancel)
  /\ Suits("removePayment", "invoice", There("invoice") \ With(InvoiceRows, {"PENDING"}))
<1> DEFINE paid == With(InvoiceRows, {"CANCELLED", "PAID"})
           cancelled == With(InvoiceRows, {"CANCELLED"})
<1>1. /\ Does["addPayment"] = Becomes(Rows["invoice"], paid, SomePaid)
      /\ Does["removePayment"] = Becomes(Rows["invoice"], {}, SomeOwed)
      /\ Does["cancelInvoice"] = Becomes(Rows["invoice"], cancelled, {"CANCELLED"})
      /\ Does["generatePdf"] = Keeps(Rows["invoice"])
  BY RowsOfAKind DEF Does, addPayment, removePayment, cancelInvoice, generatePdf
<1>2. \A r \in Rows["invoice"] :
         Does["createCheckout"][r] = IF r = Gone \/ r \in paid THEN {} ELSE {r}
  BY RowsOfAKind DEF Does, createCheckout, Handler
<1>3. /\ canRegisterPayment = There("invoice") \ paid
      /\ canCancel \subseteq There("invoice") \ cancelled
      /\ With(InvoiceRows, {"PENDING", "PARTIAL", "OVERDUE"}) \subseteq There("invoice") \ paid
  BY RowsOfAKind DEF canRegisterPayment, canCancel, There, With, Gone
<1> HIDE DEF paid, cancelled
<1>4. Suits("addPayment", "invoice", There("invoice") \ paid)
  <2>1. SomePaid # {} /\ SomePaid \subseteq InvoiceStates
    BY DEF SomePaid, InvoiceStates
  <2> QED  BY <1>1, <2>1, AnyInvoiceStatus, BecomersSuit
<1>5. Suits("removePayment", "invoice", There("invoice") \ {})
  <2>1. SomeOwed # {} /\ SomeOwed \subseteq InvoiceStates
    BY DEF SomeOwed, InvoiceStates
  <2> QED  BY <1>1, <2>1, AnyInvoiceStatus, BecomersSuit
<1>6. Suits("cancelInvoice", "invoice", There("invoice") \ cancelled)
  <2> DEFINE states == {"CANCELLED"}
  <2>1. states # {} /\ states \subseteq InvoiceStates
    BY DEF InvoiceStates
  <2>2. Does["cancelInvoice"] = Becomes(Rows["invoice"], cancelled, states)
    BY <1>1
  <2> HIDE DEF states
  <2> QED  BY <2>1, <2>2, AnyInvoiceStatus, BecomersSuit
<1>7. /\ Suits("createCheckout", "invoice", There("invoice") \ paid)
      /\ LeavesAlone("createCheckout", "invoice")
  BY <1>2, KeepersSuit
<1> QED  BY <1>1, <1>3, <1>4, <1>5, <1>6, <1>7, TheyKeep, SuitsFewer

(* Trial classes.                                                          *)
LEMMA TrialHandlersSuit ==
  /\ Suits("convertTrial", "trial", With(TrialRows, {"BOOKED"}))
  /\ Suits("cancelTrial", "trial", With(TrialRows, {"BOOKED"}))
<1>1. With(TrialRows, {"BOOKED"}) \subseteq There("trial")
  BY RowsOfAKind DEF With, There, Gone
<1>2. Suits("convertTrial", "trial", With(TrialRows, {"BOOKED"}))
  <2> DEFINE refused == {r \in TrialRows \ {Gone} :
                           r.status = "CANCELLED" \/ (r.status = "CONVERTED" /\ r.enrolled)}
             converted == [status |-> "CONVERTED", enrolled |-> TRUE]
  <2>1. Does["convertTrial"] =
          [r \in TrialRows |-> IF r = Gone \/ r \in refused THEN {} ELSE {converted}]
    BY DEF Does, convertTrial, Handler
  <2>2. converted \in TrialRows
    BY DEF TrialRows
  <2>3. \A r \in With(TrialRows, {"BOOKED"}) : r # Gone /\ r \notin refused
    BY DEF With, Gone
  <2> HIDE DEF refused, converted
  <2> QED  BY <2>1, <2>2, <2>3, RowsOfAKind DEF Suits
<1>3. Suits("cancelTrial", "trial", With(TrialRows, {"BOOKED"}))
  <2> DEFINE refused == TrialRows \ With(TrialRows, {"BOOKED"})
             states == {"CANCELLED"}
  <2>1. Does["cancelTrial"] = Becomes(Rows["trial"], refused, states)
    BY RowsOfAKind DEF Does, cancelTrial
  <2>2. states # {} /\ \A r \in There("trial") : \A s \in states : At(r, s) \in Rows["trial"]
    BY RowsOfAKind DEF There, TrialRows, At
  <2>3. With(TrialRows, {"BOOKED"}) \subseteq There("trial") \ refused
    BY <1>1
  <2> HIDE DEF refused, states
  <2>4. Suits("cancelTrial", "trial", There("trial") \ refused)
    BY <2>1, <2>2, BecomersSuit
  <2> QED  BY <2>3, <2>4, SuitsFewer
<1> QED  BY <1>2, <1>3

(* Remittances and their receipts.                                         *)
LEMMA RemittanceHandlersSuit ==
  /\ Suits("collect", "remittance", With(RemittanceRows, {"SENT"}))
  /\ Suits("keepRemittance", "remittance", There("remittance"))
  /\ LeavesAlone("keepRemittance", "remittance")
  /\ Suits("voidRemittance", "remittance",
           {r \in With(RemittanceRows, {"SENT"}) : r.item # "RETURNED" /\ ~r.returned})
  /\ Suits("returnReceipt", "remittance", {r \in There("remittance") : r.item # "RETURNED"})
<1> DEFINE open == [status : {"SENT"}, item : {"SENT", "RETURNED"}, returned : BOOLEAN]
           closed == [status : {"COLLECTED"}, item : {"COLLECTED", "RETURNED"}, returned : BOOLEAN]
<1>1. RemittanceRows = {Gone} \cup open \cup closed
  BY DEF RemittanceRows
<1>2. Suits("collect", "remittance", With(RemittanceRows, {"SENT"}))
  <2> DEFINE Collected(r) == [r EXCEPT !.status = "COLLECTED",
                                       !.item = IF @ = "SENT" THEN "COLLECTED" ELSE @]
  <2>1. Does["collect"] = [r \in RemittanceRows |-> IF r = Gone THEN {} ELSE {Collected(r)}]
    BY DEF Does, collect, Handler
  <2>2. \A r \in open : Collected(r) \in closed
    OBVIOUS
  <2>3. \A r \in closed : Collected(r) \in closed
    OBVIOUS
  <2>4. \A r \in With(RemittanceRows, {"SENT"}) : r # Gone
    BY DEF With, Gone
  <2> HIDE DEF Collected, open, closed
  <2>5. \A r \in Rows["remittance"] :
           Does["collect"][r] = IF r = Gone THEN {} ELSE {Collected(r)}
    BY <2>1, RowsOfAKind
  <2>6. \A r \in Rows["remittance"] : r # Gone => Collected(r) \in Rows["remittance"]
    BY <1>1, <2>2, <2>3, RowsOfAKind
  <2> QED  BY <2>4, <2>5, <2>6 DEF Suits
<1>3. /\ Suits("keepRemittance", "remittance", There("remittance"))
      /\ LeavesAlone("keepRemittance", "remittance")
  <2>1. Does["keepRemittance"] = Keeps(Rows["remittance"])
    BY RowsOfAKind DEF Does, keepRemittance
  <2> QED  BY <2>1, TheyKeep
<1>4. Suits("voidRemittance", "remittance",
            {r \in With(RemittanceRows, {"SENT"}) : r.item # "RETURNED" /\ ~r.returned})
  <2> DEFINE refused == {r \in RemittanceRows \ {Gone} :
                           r.status # "SENT" \/ r.item # "SENT" \/ r.returned}
             drawn == {r \in With(RemittanceRows, {"SENT"}) : r.item # "RETURNED" /\ ~r.returned}
  <2>1. Does["voidRemittance"] =
          [r \in RemittanceRows |-> IF r = Gone \/ r \in refused THEN {} ELSE {Gone}]
    BY DEF Does, voidRemittance, Handler
  <2>2. \A r \in drawn : r # Gone /\ r \in open
    BY <1>1 DEF With, Gone
  <2>3. \A r \in drawn : r \notin refused
    BY <2>2
  <2> HIDE DEF refused, drawn
  <2>4. Suits("voidRemittance", "remittance", drawn)
    BY <1>1, <2>1, <2>2, <2>3, RowsOfAKind DEF Suits
  <2> QED  BY <2>4 DEF drawn
<1>5. Suits("returnReceipt", "remittance", {r \in There("remittance") : r.item # "RETURNED"})
  <2> DEFINE refused == {r \in RemittanceRows \ {Gone} : r.item = "RETURNED"}
             Returned(r) == [r EXCEPT !.item = "RETURNED"]
             drawn == {r \in There("remittance") : r.item # "RETURNED"}
  <2>1. Does["returnReceipt"] =
          [r \in RemittanceRows |-> IF r = Gone \/ r \in refused THEN {} ELSE {Returned(r)}]
    BY DEF Does, returnReceipt, Handler
  <2>2. \A r \in open : Returned(r) \in open
    OBVIOUS
  <2>3. \A r \in closed : Returned(r) \in closed
    OBVIOUS
  <2>4. \A r \in drawn : r # Gone /\ r \notin refused
    BY DEF There
  <2> HIDE DEF refused, drawn, Returned, open, closed
  <2>5. Suits("returnReceipt", "remittance", drawn)
    BY <1>1, <2>1, <2>2, <2>3, <2>4, RowsOfAKind DEF Suits
  <2> QED  BY <2>5 DEF drawn
<1> QED  BY <1>2, <1>3, <1>4, <1>5

(* Teachers' access and the team.                                          *)
LEMMA AccessHandlersSuit ==
  /\ Suits("grantAccess", "teacher", With(TeacherRows, {"NO_LOGIN"}) \cup {NoRow})
  /\ Suits("revokeAccess", "teacher", With(TeacherRows, {"LOGIN"}))
<1> DEFINE without == With(TeacherRows, {"NO_LOGIN"})
           login == With(TeacherRows, {"LOGIN"})
           granted == {"LOGIN"}
           revoked == {"NO_LOGIN"}
<1>1. /\ Does["grantAccess"] = Becomes(Rows["teacher"], login, granted)
      /\ Does["revokeAccess"] = Becomes(Rows["teacher"], without, revoked)
  BY RowsOfAKind DEF Does, grantAccess, revokeAccess
<1>2. /\ granted # {} /\ \A r \in There("teacher") : \A s \in granted : At(r, s) \in Rows["teacher"]
      /\ revoked # {} /\ \A r \in There("teacher") : \A s \in revoked : At(r, s) \in Rows["teacher"]
  BY RowsOfAKind DEF There, TeacherRows, At
<1>3. /\ (without \cup {NoRow}) \cap Rows["teacher"] \subseteq There("teacher") \ login
      /\ login \cap Rows["teacher"] \subseteq There("teacher") \ without
  <2>1. NoRow \notin Rows["teacher"]
    BY RowsOfAKind DEF TeacherRows, NoRow, Gone
  <2>2. \A r \in without : r # Gone /\ r \notin login /\ r \in Rows["teacher"]
    BY RowsOfAKind DEF With, Gone
  <2>3. \A r \in login : r # Gone /\ r \notin without /\ r \in Rows["teacher"]
    BY RowsOfAKind DEF With, Gone
  <2> HIDE DEF without, login
  <2> QED  BY <2>1, <2>2, <2>3 DEF There
<1> HIDE DEF without, login, granted, revoked
<1>4. Suits("grantAccess", "teacher", There("teacher") \ login)
  BY <1>1, <1>2, BecomersSuit
<1>5. Suits("revokeAccess", "teacher", There("teacher") \ without)
  BY <1>1, <1>2, BecomersSuit
<1>6. Suits("grantAccess", "teacher", without \cup {NoRow}) /\ Suits("revokeAccess", "teacher", login)
  BY <1>3, <1>4, <1>5, SuitsFewer
<1> QED  BY <1>6 DEF without, login

LEMMA TeamHandlersSuit == Suits("removeMember", "member", With(MemberRows, {"staff"}))
<1> DEFINE admins == With(MemberRows, {"admin"})
           staff == With(MemberRows, {"staff"})
<1>1. Does["removeMember"] = [r \in MemberRows |-> IF r = Gone \/ r \in admins THEN {} ELSE {Gone}]
  BY DEF Does, removeMember, Handler
<1>2. \A r \in staff : r # Gone /\ r \notin admins
  BY DEF With, Gone
<1>3. Gone \in MemberRows
  BY DEF MemberRows
<1> HIDE DEF admins, staff
<1>4. Suits("removeMember", "member", staff)
  BY <1>1, <1>2, <1>3, RowsOfAKind DEF Suits
<1> QED  BY <1>4 DEF staff

(* The controls drawn for a row and the others, on their own and together.  *)
LEMMA RightControls ==
  ASSUME NEW h, NEW of, NEW rows, Suits(h.does, of, rows),
         h.then = "stay" => LeavesAlone(h.does, of)
  PROVE  /\ Right(Drawn(h, of, rows)) /\ Right(Form(h, of, rows))
         /\ \A who : Right(Only(who, Drawn(h, of, rows))) /\ Right(Only(who, Form(h, of, rows)))
BY DEF Right, Drawn, Form, Only

LEMMA RightWithoutRow ==
  ASSUME NEW h, h.does = "nothing"
  PROVE  /\ Right(Always(h)) /\ Right(FormFor(h))
         /\ Always(h).does = "nothing" /\ FormFor(h).does = "nothing"
         /\ \A who : Only(who, Always(h)).does = "nothing"
BY DEF Right, Always, FormFor, Drawn, Form, Only

LEMMA TogetherRight ==
  ASSUME NEW parts, \A p \in parts : AllRight(p)
  PROVE  AllRight(Together(parts))
BY InOneOfThem DEF AllRight

LEMMA AgreeingAboutNothing ==
  ASSUME NEW p, NoneOnRows(p.acts)
  PROVE  Agreeing(p)
BY DEF Agreeing, AllRight, NoneOnRows, Right

(* The pages about one of these rows: those of a group and its classes,    *)
LEMMA GroupPagesAgree ==
  /\ Agreeing(GroupPage) /\ Agreeing(GroupWaitlist) /\ Agreeing(GradesEditor)
  /\ Agreeing(GroupsPage) /\ Agreeing(CoursesPage) /\ Agreeing(SessionPage)
  /\ Agreeing(TrialsPage)
<1>1. Agreeing(GroupPage)
  <2>1. /\ GroupEnroll.does = "nothing"
        /\ GroupEnrollmentStatus.does = "updateEnrollment"
        /\ GroupUnenroll.does = "removeEnrollment"
        /\ GroupFeeOverrideSave.does = "keepEnrollment"
        /\ GroupSessionSubmit.does = "editSession"
        /\ GroupSessionCreate.does = "nothing"
        /\ GroupDeleteSession.does = "removeSession"
    BY DEF GroupEnroll, GroupEnrollmentStatus, GroupUnenroll, GroupFeeOverrideSave,
       GroupSessionSubmit, GroupSessionCreate, GroupDeleteSession, Sends, On, Raises, Asks,
       AsksFee, Early
  <2>2. /\ GroupEnrollmentStatus.then # "stay"
        /\ GroupUnenroll.then # "stay"
        /\ GroupFeeOverrideSave.then # "stay"
        /\ GroupSessionSubmit.then # "stay"
        /\ GroupDeleteSession.then # "stay"
    BY DEF GroupEnrollmentStatus, GroupUnenroll, GroupFeeOverrideSave, GroupSessionSubmit,
       GroupDeleteSession, Sends, On, Raises, Asks, AsksFee
  <2>3. /\ Suits(GroupEnrollmentStatus.does, "enrollment", Enrolled)
        /\ Suits(GroupUnenroll.does, "enrollment", Enrolled)
        /\ Suits(GroupFeeOverrideSave.does, "enrollment", Enrolled)
        /\ Suits(GroupSessionSubmit.does, "session", There("session"))
        /\ Suits(GroupDeleteSession.does, "session", There("session"))
    BY <2>1, EnrollmentHandlersSuit, SessionHandlersSuit
  <2>4. /\ GroupPage.acts = Together({EnrollForm, EnrolledTable, SessionForm, SessionsTable})
        /\ GroupPage.load # {}
    BY DEF GroupPage, Page, GroupLoad
  <2>5. AllRight(EnrollForm)
    BY <2>1, <2>2, <2>3, RightControls, RightWithoutRow DEF AllRight, EnrollForm
  <2>6. AllRight(EnrolledTable)
    BY <2>1, <2>2, <2>3, RightControls, RightWithoutRow DEF AllRight, EnrolledTable
  <2>7. AllRight(SessionForm)
    BY <2>1, <2>2, <2>3, RightControls, RightWithoutRow DEF AllRight, SessionForm
  <2>8. AllRight(SessionsTable)
    BY <2>1, <2>2, <2>3, RightControls, RightWithoutRow DEF AllRight, SessionsTable
  <2> QED  BY <2>4, <2>5, <2>6, <2>7, <2>8, TogetherRight DEF Agreeing
<1>2. Agreeing(GroupWaitlist)
  <2>1. /\ WaitlistOffer.does = "offerSpot"
        /\ WaitlistGiveFull.does = "updateEnrollment"
        /\ WaitlistGive.does = "updateEnrollment"
        /\ WaitlistRemove.does = "removeEnrollment"
    BY DEF WaitlistOffer, WaitlistGiveFull, WaitlistGive, WaitlistRemove, Sends, On, Raises,
       Asks, AsksFee
  <2>2. /\ WaitlistOffer.then # "stay"
        /\ WaitlistGiveFull.then # "stay"
        /\ WaitlistGive.then # "stay"
        /\ WaitlistRemove.then # "stay"
    BY DEF WaitlistOffer, WaitlistGiveFull, WaitlistGive, WaitlistRemove, Sends, On, Raises,
       Asks, AsksFee
  <2>3. /\ Suits(WaitlistOffer.does, "enrollment", With(EnrollmentRows, {"WAITLIST"}))
        /\ Suits(WaitlistGiveFull.does, "enrollment", With(EnrollmentRows, {"WAITLIST"}))
        /\ Suits(WaitlistGive.does, "enrollment", With(EnrollmentRows, {"WAITLIST"}))
        /\ Suits(WaitlistRemove.does, "enrollment", With(EnrollmentRows, {"WAITLIST"}))
    BY <2>1, EnrollmentHandlersSuit
  <2>4. GroupWaitlist.load # {}
    BY DEF GroupWaitlist, Page, GroupLoad
  <2>5. AllRight(GroupWaitlist.acts)
    BY <2>1, <2>2, <2>3, RightControls, RightWithoutRow DEF AllRight, GroupWaitlist, Page
  <2> QED  BY <2>4, <2>5 DEF Agreeing
<1>3. Agreeing(GradesEditor)
  <2>1. /\ GradesCreate.does = "nothing"
        /\ GradesSave.does = "saveResults"
        /\ GradesRemove.does = "removeAssessment"
    BY DEF GradesCreate, GradesSave, GradesRemove, Sends, On, Raises, Asks, Takes
  <2>2. /\ GradesSave.then # "stay"
        /\ GradesRemove.then # "stay"
    BY DEF GradesSave, GradesRemove, Sends, On, Raises, Asks, Takes
  <2>3. /\ Suits(GradesSave.does, "plain", There("plain"))
        /\ Suits(GradesRemove.does, "plain", There("plain"))
    BY <2>1, PlainHandlersSuit
  <2>4. GradesEditor.acts = Together({GradesList, GradeSheet}) /\ GradesEditor.load # {}
    BY DEF GradesEditor, Page, GradesLoad
  <2>5. AllRight(GradesList)
    BY <2>1, <2>2, <2>3, RightControls, RightWithoutRow DEF AllRight, GradesList
  <2>6. AllRight(GradeSheet)
    BY <2>1, <2>2, <2>3, RightControls, RightWithoutRow DEF AllRight, GradeSheet
  <2> QED  BY <2>4, <2>5, <2>6, TogetherRight DEF Agreeing
<1>4. Agreeing(GroupsPage)
  <2>1. /\ GroupCreate.does = "nothing"
        /\ GroupSubmit.does = "updateGroup"
        /\ GroupDelete.does = "removeGroup"
    BY DEF GroupCreate, GroupSubmit, GroupDelete, Sends, On, Raises, Asks
  <2>2. /\ GroupSubmit.then # "stay"
        /\ GroupDelete.then # "stay"
    BY DEF GroupSubmit, GroupDelete, Sends, On, Raises, Asks
  <2>3. /\ Suits(GroupSubmit.does, "plain", There("plain"))
        /\ Suits(GroupDelete.does, "plain", There("plain"))
    BY <2>1, PlainHandlersSuit
  <2>4. GroupsPage.acts = Together({GroupForm, GroupList}) /\ GroupsPage.load # {}
    BY DEF GroupsPage, Page, GroupsLoad
  <2>5. AllRight(GroupForm)
    BY <2>1, <2>2, <2>3, RightControls, RightWithoutRow DEF AllRight, GroupForm
  <2>6. AllRight(GroupList)
    BY <2>1, <2>2, <2>3, RightControls, RightWithoutRow DEF AllRight, GroupList
  <2> QED  BY <2>4, <2>5, <2>6, TogetherRight DEF Agreeing
<1>5. Agreeing(CoursesPage)
  <2>1. /\ CourseCreate.does = "nothing"
        /\ CourseSubmit.does = "updateCourse"
        /\ CourseDelete.does = "removeCourse"
    BY DEF CourseCreate, CourseSubmit, CourseDelete, Sends, On, Raises, Asks
  <2>2. /\ CourseSubmit.then # "stay"
        /\ CourseDelete.then # "stay"
    BY DEF CourseSubmit, CourseDelete, Sends, On, Raises, Asks
  <2>3. /\ Suits(CourseSubmit.does, "plain", There("plain"))
        /\ Suits(CourseDelete.does, "plain", There("plain"))
    BY <2>1, PlainHandlersSuit
  <2>4. CoursesPage.acts = Together({CourseForm, CourseList}) /\ CoursesPage.load # {}
    BY DEF CoursesPage, Page, CoursesLoad
  <2>5. AllRight(CourseForm)
    BY <2>1, <2>2, <2>3, RightControls, RightWithoutRow DEF AllRight, CourseForm
  <2>6. AllRight(CourseList)
    BY <2>1, <2>2, <2>3, RightControls, RightWithoutRow DEF AllRight, CourseList
  <2> QED  BY <2>4, <2>5, <2>6, TogetherRight DEF Agreeing
<1>6. Agreeing(SessionPage)
  <2>1. /\ SessionStatus.does = "updateSession"
        /\ SaveAttendance.does = "bulkUpsert"
    BY DEF SessionStatus, SaveAttendance, Sends, On, Raises, Takes, Stays
  <2>2. SessionStatus.then # "stay"
    BY DEF SessionStatus, Sends, On, Raises, Takes
  <2>3. /\ Suits(SessionStatus.does, "session", There("session"))
        /\ Suits(SaveAttendance.does, "session", There("session"))
        /\ LeavesAlone(SaveAttendance.does, "session")
    BY <2>1, SessionHandlersSuit
  <2>4. SessionPage.load # {}
    BY DEF SessionPage, Page, SessionLoad
  <2>5. AllRight(SessionPage.acts)
    BY <2>1, <2>2, <2>3, RightControls, RightWithoutRow DEF AllRight, SessionPage, Page
  <2> QED  BY <2>4, <2>5 DEF Agreeing
<1>7. Agreeing(TrialsPage)
  <2>1. /\ TrialConvert.does = "convertTrial"
        /\ TrialCancel.does = "cancelTrial"
    BY DEF TrialConvert, TrialCancel, Sends, On, Raises, Asks, AsksFee
  <2>2. /\ TrialConvert.then # "stay"
        /\ TrialCancel.then # "stay"
    BY DEF TrialConvert, TrialCancel, Sends, On, Raises, Asks, AsksFee
  <2>3. /\ Suits(TrialConvert.does, "trial", With(TrialRows, {"BOOKED"}))
        /\ Suits(TrialCancel.does, "trial", With(TrialRows, {"BOOKED"}))
    BY <2>1, TrialHandlersSuit
  <2>4. TrialsPage.load # {}
    BY DEF TrialsPage, Page, TrialsLoad
  <2>5. AllRight(TrialsPage.acts)
    BY <2>1, <2>2, <2>3, RightControls, RightWithoutRow DEF AllRight, TrialsPage, Page, TrialRow
  <2> QED  BY <2>4, <2>5 DEF Agreeing
<1> QED  BY <1>1, <1>2, <1>3, <1>4, <1>5, <1>6, <1>7

(* those of what is owed,                                                  *)
LEMMA MoneyPagesAgree ==
  /\ Agreeing(InvoicePage) /\ Agreeing(RemittanceHistory) /\ Agreeing(PortalPage)
<1>1. Agreeing(InvoicePage)
  <2>1. /\ PayOnline.does = "createCheckout"
        /\ DownloadPdf.does = "generatePdf"
        /\ CancelInvoice.does = "cancelInvoice"
        /\ RectSubmit.does = "createRectification"
        /\ PaymentSubmit.does = "addPayment"
        /\ DeletePayment.does = "removePayment"
    BY DEF PayOnline, DownloadPdf, CancelInvoice, RectSubmit, PaymentSubmit, DeletePayment,
       Sends, On, Raises, Asks, Stays, Leaves
  <2>2. /\ PayOnline.then # "stay"
        /\ CancelInvoice.then # "stay"
        /\ RectSubmit.then # "stay"
        /\ PaymentSubmit.then # "stay"
        /\ DeletePayment.then # "stay"
    BY DEF PayOnline, CancelInvoice, RectSubmit, PaymentSubmit, DeletePayment, Sends, On,
       Raises, Asks, Leaves
  <2>3. /\ Suits(PayOnline.does, "invoice", canRegisterPayment)
        /\ Suits(DownloadPdf.does, "invoice", There("invoice"))
        /\ Suits(CancelInvoice.does, "invoice", canCancel)
        /\ Suits(RectSubmit.does, "invoice", canRectify)
        /\ Suits(PaymentSubmit.does, "invoice", canRegisterPayment)
        /\ Suits(DeletePayment.does, "invoice", There("invoice") \ With(InvoiceRows, {"PENDING"}))
        /\ LeavesAlone(DownloadPdf.does, "invoice")
    BY <2>1, InvoiceHandlersSuit, RectifyingSuits
  <2>4. /\ InvoicePage.acts = Together({InvoiceButtons, RectForm, PaymentForm, PaymentsTable})
        /\ InvoicePage.load # {}
    BY DEF InvoicePage, Page, InvoiceLoad
  <2>5. AllRight(InvoiceButtons)
    BY <2>1, <2>2, <2>3, RightControls, RightWithoutRow DEF AllRight, InvoiceButtons
  <2>6. AllRight(RectForm)
    BY <2>1, <2>2, <2>3, RightControls, RightWithoutRow DEF AllRight, RectForm
  <2>7. AllRight(PaymentForm)
    BY <2>1, <2>2, <2>3, RightControls, RightWithoutRow DEF AllRight, PaymentForm
  <2>8. AllRight(PaymentsTable)
    BY <2>1, <2>2, <2>3, RightControls, RightWithoutRow DEF AllRight, PaymentsTable
  <2> QED  BY <2>4, <2>5, <2>6, <2>7, <2>8, TogetherRight DEF Agreeing
<1>2. Agreeing(RemittanceHistory)
  <2>1. /\ RemittanceCollect.does = "collect"
        /\ RemittanceXml.does = "keepRemittance"
        /\ RemittanceVoid.does = "voidRemittance"
        /\ ReturnForm.does = "returnReceipt"
    BY DEF RemittanceCollect, RemittanceXml, RemittanceVoid, ReturnForm, Sends, On, Raises,
       Asks, Stays
  <2>2. /\ RemittanceCollect.then # "stay"
        /\ RemittanceVoid.then # "stay"
        /\ ReturnForm.then # "stay"
    BY DEF RemittanceCollect, RemittanceVoid, ReturnForm, Sends, On, Raises, Asks
  <2>3. /\ Suits(RemittanceCollect.does, "remittance", With(RemittanceRows, {"SENT"}))
        /\ Suits(RemittanceXml.does, "remittance", There("remittance"))
        /\ Suits(RemittanceVoid.does, "remittance",
                 {r \in With(RemittanceRows, {"SENT"}) : r.item # "RETURNED" /\ ~r.returned})
        /\ Suits(ReturnForm.does, "remittance", {r \in There("remittance") : r.item # "RETURNED"})
        /\ LeavesAlone(RemittanceXml.does, "remittance")
    BY <2>1, RemittanceHandlersSuit
  <2>4. /\ RemittanceHistory.acts = Together({RemittanceButtons, RemittanceItems})
        /\ RemittanceHistory.load # {}
    BY DEF RemittanceHistory, Page, RemittancesLoad
  <2>5. AllRight(RemittanceButtons)
    BY <2>1, <2>2, <2>3, RightControls, RightWithoutRow DEF AllRight, RemittanceButtons
  <2>6. AllRight(RemittanceItems)
    BY <2>1, <2>2, <2>3, RightControls, RightWithoutRow DEF AllRight, RemittanceItems
  <2> QED  BY <2>4, <2>5, <2>6, TogetherRight DEF Agreeing
<1>3. Agreeing(PortalPage)
  <2>1. PortalPay.does = "createCheckout"
    BY DEF PortalPay, Sends, On, Raises, Leaves
  <2>2. PortalPay.then # "stay"
    BY DEF PortalPay, Sends, On, Raises, Leaves
  <2>3. Suits(PortalPay.does, "invoice", With(InvoiceRows, {"PENDING", "PARTIAL", "OVERDUE"}))
    BY <2>1, InvoiceHandlersSuit, RectifyingSuits
  <2>4. PortalPage.load # {}
    BY DEF PortalPage, Page, PortalLoad
  <2>5. AllRight(PortalPage.acts)
    BY <2>1, <2>2, <2>3, RightControls, RightWithoutRow DEF AllRight, PortalPage, Page,
       StudentCard
  <2> QED  BY <2>4, <2>5 DEF Agreeing
<1> QED  BY <1>1, <1>2, <1>3

(* those of people,                                                        *)
LEMMA PeoplePagesAgree ==
  /\ Agreeing(StudentsPage) /\ Agreeing(StudentPage) /\ Agreeing(TeachersPage)
  /\ Agreeing(TeacherPage) /\ Agreeing(TeamPanel)
<1>1. Agreeing(StudentsPage)
  <2>1. /\ StudentSubmit.does = "updateStudent"
        /\ StudentDelete.does = "removeStudent"
        /\ StudentCreate.does = "nothing"
    BY DEF StudentSubmit, StudentDelete, StudentCreate, Sends, On, Raises, Asks
  <2>2. /\ StudentSubmit.then # "stay"
        /\ StudentDelete.then # "stay"
    BY DEF StudentSubmit, StudentDelete, Sends, On, Raises, Asks
  <2>3. /\ Suits(StudentSubmit.does, "student", There("student"))
        /\ Suits(StudentDelete.does, "student", There("student"))
    BY <2>1, StudentHandlersSuit
  <2>4. StudentsPage.acts = Together({StudentList, StudentForm}) /\ StudentsPage.load # {}
    BY DEF StudentsPage, Page, StudentsLoad
  <2>5. AllRight(StudentList)
    BY <2>1, <2>2, <2>3, RightControls, RightWithoutRow DEF AllRight, StudentList
  <2>6. AllRight(StudentForm)
    BY <2>1, <2>2, <2>3, RightControls, RightWithoutRow DEF AllRight, StudentForm
  <2> QED  BY <2>4, <2>5, <2>6, TogetherRight DEF Agreeing
<1>2. Agreeing(StudentPage)
  <2>1. /\ InviteSubmit.does = "grantPortalAccess"
        /\ InviteRevoke.does = "revokePortalAccess"
        /\ ReportCardDownload.does = "reportCard"
        /\ GdprDownload.does = "exportStudent"
        /\ GdprErase.does = "erase"
    BY DEF InviteSubmit, InviteRevoke, ReportCardDownload, GdprDownload, GdprErase, Sends, On,
       Raises, Asks, Stays
  <2>2. GdprErase.then # "stay"
    BY DEF GdprErase, Sends, On, Raises, Asks
  <2>3. /\ Suits(InviteSubmit.does, "student", notErased)
        /\ Suits(InviteRevoke.does, "student", notErased)
        /\ Suits(ReportCardDownload.does, "student", notErased)
        /\ Suits(GdprDownload.does, "student", notErased)
        /\ Suits(GdprErase.does, "student", notErased)
        /\ LeavesAlone(InviteSubmit.does, "student")
        /\ LeavesAlone(InviteRevoke.does, "student")
        /\ LeavesAlone(ReportCardDownload.does, "student")
        /\ LeavesAlone(GdprDownload.does, "student")
    BY <2>1, StudentHandlersSuit
  <2>4. /\ StudentPage.acts = Together({InviteFamily, StudentReportCard, GdprPanel})
        /\ StudentPage.load # {}
    BY DEF StudentPage, Page, StudentLoad, InviteLoad
  <2>5. AllRight(InviteFamily)
    BY <2>1, <2>2, <2>3, RightControls, RightWithoutRow DEF AllRight, InviteFamily
  <2>6. AllRight(StudentReportCard)
    BY <2>1, <2>2, <2>3, RightControls, RightWithoutRow DEF AllRight, StudentReportCard
  <2>7. AllRight(GdprPanel)
    BY <2>1, <2>2, <2>3, RightControls, RightWithoutRow DEF AllRight, GdprPanel
  <2> QED  BY <2>4, <2>5, <2>6, <2>7, TogetherRight DEF Agreeing
<1>3. Agreeing(TeachersPage)
  <2>1. /\ TeacherCreate.does = "nothing"
        /\ TeacherSubmit.does = "updateTeacher"
        /\ TeacherDelete.does = "removeTeacher"
    BY DEF TeacherCreate, TeacherSubmit, TeacherDelete, Sends, On, Raises, Asks
  <2>2. /\ TeacherSubmit.then # "stay"
        /\ TeacherDelete.then # "stay"
    BY DEF TeacherSubmit, TeacherDelete, Sends, On, Raises, Asks
  <2>3. /\ Suits(TeacherSubmit.does, "plain", There("plain"))
        /\ Suits(TeacherDelete.does, "plain", There("plain"))
    BY <2>1, PlainHandlersSuit
  <2>4. TeachersPage.acts = Together({TeacherForm, TeacherList}) /\ TeachersPage.load # {}
    BY DEF TeachersPage, Page, TeachersLoad
  <2>5. AllRight(TeacherForm)
    BY <2>1, <2>2, <2>3, RightControls, RightWithoutRow DEF AllRight, TeacherForm
  <2>6. AllRight(TeacherList)
    BY <2>1, <2>2, <2>3, RightControls, RightWithoutRow DEF AllRight, TeacherList
  <2> QED  BY <2>4, <2>5, <2>6, TogetherRight DEF Agreeing
<1>4. Agreeing(TeacherPage)
  <2>1. /\ AccessGrant.does = "grantAccess"
        /\ AccessRevoke.does = "revokeAccess"
    BY DEF AccessGrant, AccessRevoke, Sends, On, Raises, Asks, Takes
  <2>2. /\ AccessGrant.then # "stay"
        /\ AccessRevoke.then # "stay"
    BY DEF AccessGrant, AccessRevoke, Sends, On, Raises, Asks, Takes
  <2>3. /\ Suits(AccessGrant.does, "teacher", With(TeacherRows, {"NO_LOGIN"}) \cup {NoRow})
        /\ Suits(AccessRevoke.does, "teacher", With(TeacherRows, {"LOGIN"}))
    BY <2>1, AccessHandlersSuit
  <2>4. TeacherPage.load # {}
    BY DEF TeacherPage, Page, TeacherLoad, AccessLoad
  <2>5. AllRight(TeacherPage.acts)
    BY <2>1, <2>2, <2>3, RightControls, RightWithoutRow DEF AllRight, TeacherPage, Page,
       TeacherAccessPanel
  <2> QED  BY <2>4, <2>5 DEF Agreeing
<1>5. Agreeing(TeamPanel)
  <2>1. /\ TeamAdd.does = "nothing"
        /\ TeamRemove.does = "removeMember"
    BY DEF TeamAdd, TeamRemove, Sends, On, Raises, Asks
  <2>2. TeamRemove.then # "stay"
    BY DEF TeamRemove, Sends, On, Asks
  <2>3. Suits(TeamRemove.does, "member", With(MemberRows, {"staff"}))
    BY <2>1, TeamHandlersSuit
  <2>4. TeamPanel.load # {}
    BY DEF TeamPanel, Page, TeamLoad
  <2>5. AllRight(TeamPanel.acts)
    BY <2>1, <2>2, <2>3, RightControls, RightWithoutRow DEF AllRight, TeamPanel, Page
  <2> QED  BY <2>4, <2>5 DEF Agreeing
<1> QED  BY <1>1, <1>2, <1>3, <1>4, <1>5

(* and the rest.                                                           *)
LEMMA OtherPagesAgree ==
  /\ Agreeing(HolidaysPanel) /\ Agreeing(RoomsPanel) /\ Agreeing(TakeAttendancePage)
  /\ Agreeing(TeacherGradesEditor)
<1>1. Agreeing(HolidaysPanel)
  <2>1. /\ HolidayAdd.does = "nothing"
        /\ HolidayImport.does = "nothing"
        /\ HolidayDelete.does = "removeHoliday"
    BY DEF HolidayAdd, HolidayImport, HolidayDelete, Sends, On, Raises, Asks
  <2>2. HolidayDelete.then # "stay"
    BY DEF HolidayDelete, Sends, On, Asks
  <2>3. Suits(HolidayDelete.does, "plain", There("plain"))
    BY <2>1, PlainHandlersSuit
  <2>4. HolidaysPanel.load # {}
    BY DEF HolidaysPanel, Page, HolidaysLoad
  <2>5. AllRight(HolidaysPanel.acts)
    BY <2>1, <2>2, <2>3, RightControls, RightWithoutRow DEF AllRight, HolidaysPanel, Page
  <2> QED  BY <2>4, <2>5 DEF Agreeing
<1>2. Agreeing(RoomsPanel)
  <2>1. /\ RoomAdd.does = "nothing"
        /\ RoomRemove.does = "removeRoom"
    BY DEF RoomAdd, RoomRemove, Sends, On, Asks
  <2>2. RoomRemove.then # "stay"
    BY DEF RoomRemove, Sends, On, Asks
  <2>3. Suits(RoomRemove.does, "plain", There("plain"))
    BY <2>1, PlainHandlersSuit
  <2>4. RoomsPanel.load # {}
    BY DEF RoomsPanel, Page, RoomsLoad
  <2>5. AllRight(RoomsPanel.acts)
    BY <2>1, <2>2, <2>3, RightControls, RightWithoutRow DEF AllRight, RoomsPanel, Page
  <2> QED  BY <2>4, <2>5 DEF Agreeing
<1>3. Agreeing(TakeAttendancePage)
  <2>1. TakeAttendanceSave.does = "saveAttendance"
    BY DEF TakeAttendanceSave, Sends, On, Raises, Takes
  <2>2. TakeAttendanceSave.then # "stay"
    BY DEF TakeAttendanceSave, Sends, On, Raises, Takes
  <2>3. Suits(TakeAttendanceSave.does, "session",
              There("session") \ With(SessionRows, {"CANCELLED"}))
    BY <2>1, SessionHandlersSuit
  <2>4. TakeAttendancePage.load # {}
    BY DEF TakeAttendancePage, Page, TakeAttendanceLoad
  <2>5. AllRight(TakeAttendancePage.acts)
    BY <2>1, <2>2, <2>3, RightControls, RightWithoutRow DEF AllRight, TakeAttendancePage, Page
  <2> QED  BY <2>4, <2>5 DEF Agreeing
<1>4. Agreeing(TeacherGradesEditor)
  <2>1. /\ TeacherGradesCreate.does = "nothing"
        /\ TeacherGradesSave.does = "saveResults"
        /\ TeacherGradesRemove.does = "removeAssessment"
    BY DEF TeacherGradesCreate, TeacherGradesSave, TeacherGradesRemove, Sends, On, Raises, Asks,
       Takes
  <2>2. /\ TeacherGradesSave.then # "stay"
        /\ TeacherGradesRemove.then # "stay"
    BY DEF TeacherGradesSave, TeacherGradesRemove, Sends, On, Raises, Asks, Takes
  <2>3. /\ Suits(TeacherGradesSave.does, "plain", There("plain"))
        /\ Suits(TeacherGradesRemove.does, "plain", There("plain"))
    BY <2>1, PlainHandlersSuit
  <2>4. TeacherGradesEditor.load # {}
    BY DEF TeacherGradesEditor, Page, TeacherGradesEditorLoad
  <2>5. AllRight(TeacherGradesEditor.acts)
    BY <2>1, <2>2, <2>3, RightControls, RightWithoutRow DEF AllRight, TeacherGradesEditor, Page
  <2> QED  BY <2>4, <2>5 DEF Agreeing
<1> QED  BY <1>1, <1>2, <1>3, <1>4

(* Every page that is about no row in particular.                          *)
LEMMA OthersAreAboutNothing ==
  /\ NoneOnRows(GroupSchedule.acts) /\ NoneOnRows(ChargeGroupPanel.acts)
  /\ NoneOnRows(GroupReportCards.acts) /\ NoneOnRows(CalendarPage.acts)
  /\ NoneOnRows(InvoicesPage.acts) /\ NoneOnRows(BillingPage.acts)
  /\ NoneOnRows(StudentImportPanel.acts) /\ NoneOnRows(MessagesPage.acts)
  /\ NoneOnRows(DashboardPage.acts) /\ NoneOnRows(ReportsPage.acts)
  /\ NoneOnRows(CommandPalette.acts) /\ NoneOnRows(SettingsPage.acts)
  /\ NoneOnRows(TeacherHomePage.acts) /\ NoneOnRows(TeacherGradesPage.acts)
  /\ NoneOnRows(LoginPage.acts) /\ NoneOnRows(SignupPage.acts)
  /\ NoneOnRows(ForgotPasswordPage.acts) /\ NoneOnRows(ResetPasswordPage.acts)
  /\ NoneOnRows(EnrollPage.acts) /\ NoneOnRows(TrialBookingForm.acts)
  /\ NoneOnRows(AcademyPrivacyPage.acts) /\ NoneOnRows(ChangePasswordForm)
<1> DEFINE handlers == {ScheduleSave, ScheduleGenerate, GroupCharge, ReportCardsSend,
                          InvoiceCreate, SepaPreview, SepaDownload, StudentImport, MessageSend,
                          ExportInvoices, ExportPayments, SettingsSubmit, Login, Signup,
                          ForgotPassword, ResetPassword, EnrollSubmit, TrialSubmit, BillingRun,
                          ChangePassword}
<1>1. \A h \in handlers : h.does = "nothing"
  BY DEF ScheduleSave, ScheduleGenerate, GroupCharge, ReportCardsSend, InvoiceCreate,
     SepaPreview, SepaDownload, StudentImport, MessageSend, ExportInvoices, ExportPayments,
     SettingsSubmit, Login, Signup, ForgotPassword, ResetPassword, EnrollSubmit, TrialSubmit,
     BillingRun, ChangePassword, Sends, Raises, Asks, Takes, Stays, Leaves
<1>2. \A h : h.does = "nothing" => Asks(h).does = "nothing"
  BY DEF Asks
<1>3. NoneOnRows(GroupSchedule.acts)
  BY <1>1, <1>2, RightWithoutRow DEF NoneOnRows, GroupSchedule, Choosing, PageOfNone, Page
<1>4. NoneOnRows(ChargeGroupPanel.acts)
  BY <1>1, <1>2, RightWithoutRow DEF NoneOnRows, ChargeGroupPanel, Choosing, PageOfNone, Page
<1>5. NoneOnRows(GroupReportCards.acts)
  BY <1>1, <1>2, RightWithoutRow DEF NoneOnRows, GroupReportCards, PageOfNone, Page
<1>6. NoneOnRows(InvoicesPage.acts)
  BY <1>1, <1>2, RightWithoutRow DEF NoneOnRows, InvoicesPage, PageOfNone, Page, InvoiceForm
<1>7. NoneOnRows(BillingPage.acts)
  BY <1>1, <1>2, RightWithoutRow DEF NoneOnRows, BillingPage, Choosing, PageOfNone, Page,
     BillingGenerate, BillingGenerateBlind
<1>8. NoneOnRows(StudentImportPanel.acts)
  BY <1>1, <1>2, RightWithoutRow DEF NoneOnRows, StudentImportPanel, PageOfNone, Page
<1>9. NoneOnRows(MessagesPage.acts)
  BY <1>1, <1>2, RightWithoutRow DEF NoneOnRows, MessagesPage, Choosing, PageOfNone, Page
<1>10. NoneOnRows(ReportsPage.acts)
  BY <1>1, <1>2, RightWithoutRow DEF NoneOnRows, ReportsPage, Choosing, PageOfNone, Page
<1>11. NoneOnRows(SettingsPage.acts)
  BY <1>1, <1>2, RightWithoutRow DEF NoneOnRows, SettingsPage, PageOfNone, Page, SettingsForm
<1>12. NoneOnRows(LoginPage.acts)
  BY <1>1, <1>2, RightWithoutRow DEF NoneOnRows, LoginPage, PageOfNone, Page
<1>13. NoneOnRows(SignupPage.acts)
  BY <1>1, <1>2, RightWithoutRow DEF NoneOnRows, SignupPage, PageOfNone, Page
<1>14. NoneOnRows(ForgotPasswordPage.acts)
  BY <1>1, <1>2, RightWithoutRow DEF NoneOnRows, ForgotPasswordPage, PageOfNone, Page
<1>15. NoneOnRows(ResetPasswordPage.acts)
  BY <1>1, <1>2, RightWithoutRow DEF NoneOnRows, ResetPasswordPage, PageOfNone, Page
<1>16. NoneOnRows(EnrollPage.acts)
  BY <1>1, <1>2, RightWithoutRow DEF NoneOnRows, EnrollPage, PageOfNone, Page
<1>17. NoneOnRows(TrialBookingForm.acts)
  BY <1>1, <1>2, RightWithoutRow DEF NoneOnRows, TrialBookingForm, Choosing, PageOfNone, Page
<1>18. NoneOnRows(ChangePasswordForm)
  BY <1>1, RightWithoutRow DEF NoneOnRows, ChangePasswordForm
<1>19. /\ NoneOnRows(CalendarPage.acts)
       /\ NoneOnRows(DashboardPage.acts)
       /\ NoneOnRows(CommandPalette.acts)
       /\ NoneOnRows(TeacherHomePage.acts)
       /\ NoneOnRows(TeacherGradesPage.acts)
       /\ NoneOnRows(AcademyPrivacyPage.acts)
  BY DEF NoneOnRows, NoActs, CalendarPage, DashboardPage, CommandPalette, TeacherHomePage,
     TeacherGradesPage, AcademyPrivacyPage, Choosing, PageOfNone, Page
<1> QED  BY <1>3, <1>4, <1>5, <1>6, <1>7, <1>8, <1>9, <1>10, <1>11, <1>12, <1>13, <1>14, <1>15,
         <1>16, <1>17, <1>18, <1>19
(* Every page there is.                                                    *)
AboutNothing == {"schedule", "chargeGroup", "groupReportCards", "calendar", "invoices", "billing",
                 "import", "messages", "dashboard", "reports", "search", "settings",
                 "officeAccount", "familyAccount", "teacherAccount", "teacherHome",
                 "teacherGroups", "login", "signup", "forgotPassword", "resetPassword", "enroll",
                 "trialBooking", "privacy"}
LEMMA NoneAboutNothing == \A n \in AboutNothing : NoneOnRows(AllPages[n].acts)
<1>1. \A layout : AccountPage(layout).acts = ChangePasswordForm
  BY DEF AccountPage, PageOfNone, Page
<1>2. \A n \in {"officeAccount", "familyAccount", "teacherAccount"} :
         NoneOnRows(AllPages[n].acts)
  BY <1>1, OthersAreAboutNothing DEF AllPages
<1>3. \A n \in AboutNothing \ {"officeAccount", "familyAccount", "teacherAccount"} :
         NoneOnRows(AllPages[n].acts)
  BY OthersAreAboutNothing DEF AllPages, AboutNothing
<1> QED  BY <1>2, <1>3

LEMMA PagesAgree ==
  ASSUME NEW n \in DOMAIN AllPages
  PROVE  Agreeing(AllPages[n])
<1>1. CASE n \in AboutNothing
  BY <1>1, NoneAboutNothing, AgreeingAboutNothing
<1>2. CASE n \in {"group", "waitlist", "grades", "groups", "courses", "session", "trials"}
  BY <1>2, GroupPagesAgree DEF AllPages
<1>3. CASE n \in {"invoice", "remittances", "portal"}
  BY <1>3, MoneyPagesAgree DEF AllPages
<1>4. CASE n \in {"students", "student", "teachers", "teacher", "team"}
  BY <1>4, PeoplePagesAgree DEF AllPages
<1>5. CASE n \in {"holidays", "rooms", "takeAttendance", "teacherGrades"}
  BY <1>5, OtherPagesAgree DEF AllPages
<1> QED  BY <1>1, <1>2, <1>3, <1>4, <1>5 DEF AllPages, AboutNothing

\* What a user in a hurry may have: nothing one call does to the row makes the
\* API refuse another, no form is left open, and before the first load there is
\* nothing to press.
Undisturbed(a, b) == a.does # "nothing" /\ b.does # "nothing" /\ a.of = b.of =>
  \A r \in Rows[a.of] : Does[a.does][r] # {} => \A s \in Does[b.does][r] : Does[a.does][s] # {}
Steady(p) == \A h \in DOMAIN p.acts :
  /\ p.acts[h].does # "nothing" => ~p.acts[h].form /\ NoRow \notin p.acts[h].rows
  /\ \A g \in DOMAIN p.acts : Undisturbed(p.acts[h], p.acts[g])

(* The pages that are about no row are such, and three of the others.      *)
SteadyNames == AboutNothing \cup {"session", "portal", "takeAttendance"}
LEMMA SteadyPages == \A n \in SteadyNames : Steady(AllPages[n])
<1>1. ASSUME NEW n \in AboutNothing  PROVE Steady(AllPages[n])
  BY <1>1, NoneAboutNothing DEF NoneOnRows, Steady, Undisturbed
<1>2. \A a, b : a.does = b.does /\ LeavesAlone(a.does, a.of) => Undisturbed(a, b)
  BY DEF LeavesAlone, Undisturbed
<1>3. \A h, of, rows : /\ Drawn(h, of, rows).does = h.does /\ Drawn(h, of, rows).of = of
                       /\ Drawn(h, of, rows).rows = rows /\ Drawn(h, of, rows).form = FALSE
  BY DEF Drawn
<1>4. /\ NoRow \notin With(InvoiceRows, {"PENDING", "PARTIAL", "OVERDUE"})
      /\ NoRow \notin There("session")
  BY RowsOfAKind DEF There, With, NoRow, SessionRows, Gone
<1>5. Steady(PortalPage)
  <2>1. PortalPay.does = "createCheckout"
    BY DEF PortalPay, Sends, On, Raises, Leaves
  <2>2. /\ DOMAIN PortalPage.acts = {"pay"}
        /\ PortalPage.acts["pay"] =
             Drawn(PortalPay, "invoice", With(InvoiceRows, {"PENDING", "PARTIAL", "OVERDUE"}))
    BY DEF PortalPage, Page, StudentCard
  <2> QED  BY <1>2, <1>3, <1>4, <2>1, <2>2, InvoiceHandlersSuit DEF Steady
<1>6. Steady(TakeAttendancePage)
  <2>1. TakeAttendanceSave.does = "saveAttendance"
    BY DEF TakeAttendanceSave, Sends, On, Raises, Takes
  <2>2. /\ DOMAIN TakeAttendancePage.acts = {"save"}
        /\ TakeAttendancePage.acts["save"] =
             Drawn(TakeAttendanceSave, "session",
                   There("session") \ With(SessionRows, {"CANCELLED"}))
    BY DEF TakeAttendancePage, Page
  <2> QED  BY <1>2, <1>3, <1>4, <2>1, <2>2, SessionHandlersSuit DEF Steady
<1>7. Steady(SessionPage)
  <2>1. SessionStatus.does = "updateSession" /\ SaveAttendance.does = "bulkUpsert"
    BY DEF SessionStatus, SaveAttendance, Sends, On, Raises, Takes, Stays
  <2>2. /\ DOMAIN SessionPage.acts = {"handleSessionStatus", "handleSaveAttendance"}
        /\ SessionPage.acts["handleSessionStatus"] =
             Drawn(SessionStatus, "session", There("session"))
        /\ SessionPage.acts["handleSaveAttendance"] =
             Drawn(SaveAttendance, "session", There("session"))
    BY DEF SessionPage, Page
  <2>3. \A d \in {"updateSession", "bulkUpsert"} :
           \A r \in Rows["session"] : /\ Does[d][r] \subseteq There("session")
                                      /\ r \in There("session") => Does[d][r] # {}
                                      /\ r = Gone => Does[d][r] = {}
    <3>1. /\ Does["updateSession"] = Becomes(Rows["session"], {},
                                             {"SCHEDULED", "COMPLETED", "CANCELLED"})
          /\ Does["bulkUpsert"] = Keeps(Rows["session"])
      BY RowsOfAKind DEF Does, updateSession, bulkUpsert
    <3>2. ASSUME NEW r \in Rows["session"], NEW s \in Does["updateSession"][r]
          PROVE  s # Gone /\ r # Gone
      <4> DEFINE states == {"SCHEDULED", "COMPLETED", "CANCELLED"}
      <4>1. "GONE" \notin states
        OBVIOUS
      <4>2. Does["updateSession"] = Becomes(Rows["session"], {}, states)
        BY <3>1
      <4> HIDE DEF states
      <4>3. r # Gone /\ \E t \in states : s = At(r, t)
        BY <3>2, <4>2, BecomingIs
      <4>4. \A t \in states : r \in There("session") => At(r, t).status = t
        BY RowsOfAKind DEF There, SessionRows, At
      <4> QED  BY <4>1, <4>3, <4>4 DEF There, Gone
    <3>3. \A r \in Rows["session"] : Does["bulkUpsert"][r] = IF r = Gone THEN {} ELSE {r}
      <4>1. Does["bulkUpsert"] = [r \in Rows["session"] |-> IF r = Gone THEN {} ELSE {r}]
        BY <3>1, KeepsAndRemoves
      <4> QED  BY <4>1
    <3>4. Suits("updateSession", "session", There("session"))
      BY SessionHandlersSuit
    <3> QED  BY <3>2, <3>3, <3>4 DEF There, Suits
  <2>4. \A a, b : a.of = "session" /\ a.does \in {"updateSession", "bulkUpsert"}
                   /\ b.does \in {"updateSession", "bulkUpsert"} => Undisturbed(a, b)
    BY <2>3 DEF Undisturbed, There
  <2> QED  BY <1>3, <1>4, <2>1, <2>2, <2>4 DEF Steady
<1> QED  BY <1>1, <1>5, <1>6, <1>7 DEF AllPages, SteadyNames

-----------------------------------------------------------------------------
(* The API refuses only what was drawn for a row that has moved since.     *)

\* A call about the row, and whether the API lets it through when the row is r.
OfTheRow(h) == h \in DOMAIN page.acts /\ act(h).of = kind /\ act(h).does # "nothing"
LetsThrough(h, r) == Does[act(h).does][r] # {}
\* A page that shows x draws what the API lets through.
Fits(x, r) == \A h : OfTheRow(h) /\ x \in act(h).rows => LetsThrough(h, r)

\* The call x leaves the page and the row as they are, or brings the row anew.
EndsAsItWas(x) == x.act = "look" \/ act(x.act).then = "stay"
Brings(x) == \/ x.step = "loaded"
             \/ x.step = "served" /\ x.act # "look" /\ act(x.act).then = "answer"
Quiet(x) == \/ x.step \in {"idle", "asking", "sent", "refused"}
            \/ x.step = "served" /\ EndsAsItWas(x)
\* Nothing that the user has set off is about to change what the page shows.
Settled == name \in Hasty \/ \A c \in Requests : Quiet(calls[c])

\* A page that is up to date draws what the API lets through; a call that is,
\* brings a row to show or is let through.
ViewFits == current /\ Settled => /\ Fits(shown, row)
                                  /\ \A h \in forms : OfTheRow(h) => LetsThrough(h, row)
CallFits(x, r) == x.current =>
  /\ Brings(x) => Fits(x.got, r)
  /\ x.step \in {"asking", "sent"} /\ OfTheRow(x.act) => LetsThrough(x.act, r)
  /\ x.step # "refused"
\* A patient user has one thing in hand.
OneInHand == name \notin Hasty =>
  /\ \A c, d \in Requests : c # d => Free(c) \/ Free(d)
  /\ \A c \in Requests : ~Free(c) => forms \subseteq {calls[c].act}
  /\ \A c \in Requests : calls[c].step \in OfLoad => forms = {}
Agreement == /\ row \in Rows[kind]
             /\ \A h \in forms : act(h).form
             /\ ViewFits
             /\ \A c \in Requests : CallFits(calls[c], row)
             /\ OneInHand
\* The user of a page that is not steady waits.
HurryIsSteady == \A n \in Hasty : Steady(AllPages[n])
LEMMA SteadyPagesAreEnough == Hasty \subseteq SteadyNames => HurryIsSteady
BY SteadyPages DEF HurryIsSteady

LEMMA ThePageAgrees ==
  ASSUME CallsHold
  PROVE  /\ Agreeing(page) /\ "look" \notin DOMAIN page.acts
         /\ HurryIsSteady /\ name \in Hasty => Steady(page)
<1>1. name \in DOMAIN AllPages
  BY PagesAssumption DEF CallsHold
<1> QED  BY <1>1, PagesAgree, PagesAreEntitled DEF Entitled, Granting, HurryIsSteady, page

(* A page that shows the row as it is.                                     *)
LEMMA TheRowFits ==
  ASSUME CallsHold, NEW r \in Rows[kind]
  PROVE  Fits(r, r)
<1> SUFFICES ASSUME NEW h, OfTheRow(h), r \in act(h).rows  PROVE LetsThrough(h, r)
  BY DEF Fits
<1>1. Right(act(h))
  BY ThePageAgrees DEF Agreeing, AllRight, OfTheRow, act
<1> QED  BY <1>1 DEF Right, Suits, OfTheRow, LetsThrough

(* What is said of a row and of a call stays true of them.                 *)
LEMMA SameWords ==
  ASSUME UNCHANGED opened
  PROVE  /\ page' = page /\ name' = name /\ kind' = kind /\ \A h : act(h)' = act(h)
         /\ \A h : OfTheRow(h)' <=> OfTheRow(h)
         /\ \A h, r : LetsThrough(h, r)' <=> LetsThrough(h, r)
         /\ \A x, r : Fits(x, r)' <=> Fits(x, r)
         /\ \A x : Quiet(x)' <=> Quiet(x)
         /\ \A x, r : CallFits(x, r)' <=> CallFits(x, r)
<1>1. page' = page /\ name' = name /\ kind' = kind
  BY DEF opened, page
<1>2. \A h : act(h)' = act(h)
  BY <1>1 DEF act
<1>3. \A h : OfTheRow(h)' <=> OfTheRow(h)
  BY <1>1, <1>2 DEF OfTheRow
<1>4. \A h, r : LetsThrough(h, r)' <=> LetsThrough(h, r)
  BY <1>2 DEF LetsThrough
<1>5. \A x, r : Fits(x, r)' <=> Fits(x, r)
  BY <1>2, <1>3, <1>4 DEF Fits
<1>6. \A x : Quiet(x)' <=> Quiet(x)
  BY <1>2 DEF Quiet, EndsAsItWas
<1>7. \A x : Brings(x)' <=> Brings(x)
  BY <1>2 DEF Brings
<1>8. \A x, r : CallFits(x, r)' <=> CallFits(x, r)
  BY <1>3, <1>4, <1>5, <1>7 DEF CallFits
<1> QED  BY <1>1, <1>2, <1>3, <1>4, <1>5, <1>6, <1>8

LEMMA IdleFits == \A r : CallFits(Idle, r) /\ Quiet(Idle)
BY IdleIsCall DEF CallFits, Quiet, Brings

(* One call more, or one that gets further, of a user with one in hand.    *)
LEMMA StillOneInHand ==
  ASSUME CallsHold, OneInHand, NEW c \in Requests, NEW x, IsCall(x),
         calls' = [calls EXCEPT ![c] = x], UNCHANGED opened,
         name \notin Hasty =>
           /\ \/ x = Idle /\ forms' \subseteq forms
              \/ ~Free(c) /\ x.act = calls[c].act /\ forms' \subseteq forms
              \/ (\A d \in Requests : Free(d)) /\ forms' \subseteq {x.act}
           /\ x.step \in OfLoad => calls[c].step \in OfLoad \/ forms' = {}
  PROVE  OneInHand'
<1>1. calls'[c] = x /\ (\A d \in Requests \ {c} : calls'[d] = calls[d]) /\ name' = name
  BY OneChanged DEF opened
<1> SUFFICES ASSUME name \notin Hasty
             PROVE  /\ \A a, b \in Requests : a # b => calls'[a] = Idle \/ calls'[b] = Idle
                    /\ \A d \in Requests : calls'[d] # Idle => forms' \subseteq {calls'[d].act}
                    /\ \A d \in Requests : calls'[d].step \in OfLoad => forms' = {}
  BY <1>1 DEF OneInHand, Free
<1>2. /\ \A a, b \in Requests : a # b => calls[a] = Idle \/ calls[b] = Idle
      /\ \A d \in Requests : calls[d] # Idle => forms \subseteq {calls[d].act}
      /\ \A d \in Requests : calls[d].step \in OfLoad => forms = {}
  BY DEF OneInHand, Free
<1>3. Idle.step \notin OfLoad
  BY IdleIsCall DEF OfLoad
<1>4. CASE x = Idle /\ forms' \subseteq forms
  <2>1. \A d \in Requests : calls'[d] = Idle \/ calls'[d] = calls[d]
    BY <1>1, <1>4
  <2> QED  BY <1>2, <1>3, <1>4, <2>1
<1>5. CASE ~Free(c) /\ x.act = calls[c].act /\ forms' \subseteq forms
  <2>1. \A d \in Requests \ {c} : calls'[d] = Idle
    BY <1>1, <1>2, <1>5 DEF Free
  <2>2. forms' \subseteq {x.act}
    BY <1>2, <1>5 DEF Free
  <2>3. x.step \in OfLoad => forms' = {}
    BY <1>2, <1>5
  <2> QED  BY <1>1, <1>3, <2>1, <2>2, <2>3
<1>6. CASE (\A d \in Requests : Free(d)) /\ forms' \subseteq {x.act}
  <2>1. \A d \in Requests \ {c} : calls'[d] = Idle
    BY <1>1, <1>6 DEF Free
  <2>2. x.step \in OfLoad => forms' = {}
    BY <1>3, <1>6 DEF Free
  <2> QED  BY <1>1, <1>3, <1>6, <2>1, <2>2
<1> QED  BY <1>4, <1>5, <1>6

(* A step of one call that leaves the row and what is shown of it alone.   *)
LEMMA OneStepAgrees ==
  ASSUME CallsHold, Agreement, NEW c \in Requests, NEW x, IsCall(x),
         calls' = [calls EXCEPT ![c] = x], UNCHANGED <<opened, row, shown>>,
         forms' \subseteq forms, CallFits(x, row),
         current' => current /\ (Quiet(x) => Quiet(calls[c]) \/ name \in Hasty),
         OneInHand'
  PROVE  Agreement'
<1>1. calls'[c] = x /\ \A d \in Requests \ {c} : calls'[d] = calls[d]
  BY OneChanged
<1>2. row' = row /\ shown' = shown /\ name' = name /\ kind' = kind
  BY DEF opened
<1>3. row' \in Rows[kind'] /\ \A h \in forms' : act(h)'.form
  BY <1>2, SameWords DEF Agreement
<1>4. ViewFits'
  <2>1. current' /\ Settled' => current /\ Settled
    BY <1>1, <1>2, SameWords DEF Settled
  <2> QED  BY <1>2, <2>1, SameWords DEF Agreement, ViewFits
<1>5. \A d \in Requests : CallFits(calls'[d], row)
  BY <1>1 DEF Agreement
<1>6. \A d \in Requests : CallFits(calls[d], row)'
  BY <1>2, <1>5, SameWords DEF CallFits
<1> QED  BY <1>3, <1>4, <1>6 DEF Agreement

(* The user presses what the page offers, confirms, dismisses or looks.    *)
LEMMA PressAgrees ==
  ASSUME CallsHold, Drawing, Agreement, HurryIsSteady,
         NEW c \in Requests, NEW h \in DOMAIN page.acts, Press(c, h)
  PROVE  Agreement'
<1> DEFINE toast == act(h).asks # "no"
<1> PICK x : x = [Idle EXCEPT !.step = IF toast THEN "asking" ELSE "sent", !.act = h,
                              !.current = current, !.choice = chosen, !.seen = preview]
  OBVIOUS
<1>1. IsCall(x) /\ x.step \in {"asking", "sent"} /\ x.act = h /\ x.current = current
  BY DEF IsCall, Idle
<1>2. /\ calls' = [calls EXCEPT ![c] = x]
      /\ UNCHANGED <<opened, row, shown, current, forms>>
  BY DEF Press
<1>3. name \in Hasty \/ (forms \subseteq {h} /\ \A d \in Requests : Free(d))
  BY DEF Press, Waits
<1>4. Settled
  BY <1>3, IdleFits DEF Settled, Free
<1>5. current /\ OfTheRow(h) => LetsThrough(h, row)
  <2>1. CASE act(h).form
    BY <1>4, <2>1 DEF Press, Agreement, ViewFits
  <2>2. CASE ~act(h).form
    BY <1>4, <2>2 DEF Press, Offered, OfTheRow, Agreement, ViewFits, Fits
  <2> QED  BY <2>1, <2>2
<1>6. CallFits(x, row)
  BY <1>1, <1>5 DEF CallFits, Brings
<1>7. Quiet(calls[c])
  BY IdleFits DEF Press, Unused, Free
<1>8. OneInHand'
  BY <1>1, <1>2, <1>3, StillOneInHand DEF Agreement, OfLoad
<1> QED  BY <1>1, <1>2, <1>6, <1>7, <1>8, OneStepAgrees

LEMMA DecisionAgrees ==
  ASSUME CallsHold, Agreement, NEW c \in Requests, Decides(c)
  PROVE  Agreement'
<1>1. UNCHANGED <<opened, row, shown, current, forms>> /\ Quiet(calls[c]) /\ calls[c].step = "asking"
  BY DEF Decides, Confirm, Dismiss, Quiet
<1>2. CASE Confirm(c)
  <2> PICK x : x = [calls[c] EXCEPT !.step = "sent"]
    OBVIOUS
  <2>1. IsCall(x) /\ x.step = "sent" /\ x.act = calls[c].act /\ calls' = [calls EXCEPT ![c] = x]
    BY <1>2, Further DEF Confirm
  <2>2. x.current = calls[c].current
    BY DEF CallsHold, IsCall
  <2>3. CallFits(x, row)
    BY <1>1, <2>1, <2>2 DEF Agreement, CallFits, Brings
  <2>4. ~Free(c)
    BY <1>1, IdleIsCall DEF Free
  <2>5. OneInHand'
    BY <1>1, <2>1, <2>4, StillOneInHand DEF Agreement, OfLoad
  <2> QED  BY <1>1, <2>1, <2>3, <2>5, OneStepAgrees
<1>3. CASE Dismiss(c)
  <2>1. calls' = [calls EXCEPT ![c] = Idle]
    BY <1>3 DEF Dismiss
  <2>2. OneInHand'
    BY <1>1, <2>1, IdleIsCall, StillOneInHand DEF Agreement, OfLoad
  <2> QED  BY <1>1, <2>1, <2>2, IdleIsCall, IdleFits, OneStepAgrees
<1> QED  BY <1>2, <1>3 DEF Decides

LEMMA LookAgrees ==
  ASSUME CallsHold, Agreement, NEW c \in Requests, Look(c)
  PROVE  Agreement'
<1>1. /\ UNCHANGED <<opened, row, shown, current, forms>> /\ Free(c)
      /\ calls' = [calls EXCEPT ![c] = Looking(chosen)]
      /\ name \in Hasty \/ (forms \subseteq {} /\ \A d \in Requests : Free(d))
  BY DEF Look, Unused, Waits
<1>2. CallFits(Looking(chosen), row)
  BY LookingIsCall, ThePageAgrees DEF CallFits, Brings, OfTheRow
<1>3. Quiet(calls[c])
  BY <1>1, IdleFits DEF Free
<1>4. OneInHand'
  BY <1>1, LookingIsCall, StillOneInHand DEF Agreement, OfLoad
<1> QED  BY <1>1, <1>2, <1>3, <1>4, LookingIsCall, OneStepAgrees

LEMMA ChoiceAgrees ==
  ASSUME CallsHold, Agreement, NEW c \in Requests, NEW z \in Choices, Choose(c, z)
  PROVE  Agreement'
<1>1. /\ UNCHANGED <<opened, row, shown, current, forms>>
      /\ name \in Hasty \/ (forms = {} /\ \A d \in Requests : Free(d))
  BY DEF Choose, Waits
<1>2. ASSUME NEW d \in Requests
      PROVE  calls'[d] \in {calls[d], Idle} \/ (d = c /\ calls'[d] = Looking(z))
  <2>1. CASE d = c /\ page.choice.by = "effect"
    BY <2>1 DEF Choose
  <2>2. CASE ~(d = c /\ page.choice.by = "effect")
    BY <2>2 DEF Choose
  <2> QED  BY <2>1, <2>2
<1>3. \A r : CallFits(Looking(z), r) /\ Quiet(Looking(z))
  BY LookingIsCall, ThePageAgrees DEF CallFits, Brings, OfTheRow, Quiet
<1>4. \A d \in Requests : CallFits(calls'[d], row)
  BY <1>2, <1>3, IdleFits DEF Agreement
<1>5. Settled
  BY <1>1, IdleFits DEF Settled, Free
<1>6. row' = row /\ shown' = shown /\ name' = name /\ kind' = kind
  BY <1>1 DEF opened
<1>7. row' \in Rows[kind'] /\ \A h \in forms' : act(h)'.form
  BY <1>1, <1>6, SameWords DEF Agreement
<1>8. ViewFits'
  BY <1>1, <1>5, <1>6, SameWords DEF Agreement, ViewFits
<1>9. \A d \in Requests : CallFits(calls[d], row)'
  BY <1>1, <1>4, <1>6, SameWords DEF CallFits
<1>10. OneInHand'
  <2> SUFFICES ASSUME name \notin Hasty
               PROVE  /\ forms' = {}
                      /\ \A a, b \in Requests : a # b => calls'[a] = Idle \/ calls'[b] = Idle
    BY <1>6 DEF OneInHand, Free
  <2>1. \A d \in Requests \ {c} : calls'[d] = Idle
    BY <1>1, <1>2 DEF Free
  <2> QED  BY <1>1, <2>1
<1> QED  BY <1>7, <1>8, <1>9, <1>10 DEF Agreement

(* Forms are opened and closed.                                            *)
LEMMA FormAgrees ==
  ASSUME CallsHold, Drawing, Agreement, NEW h \in DOMAIN page.acts, OpenForm(h) \/ CloseForm(h)
  PROVE  Agreement'
<1>1. UNCHANGED <<opened, row, shown, current, calls>>
  BY DEF OpenForm, CloseForm
<1>2. row' = row /\ shown' = shown /\ name' = name /\ kind' = kind /\ current' = current
      /\ calls' = calls
  BY <1>1 DEF opened
<1>3. Settled' <=> Settled
  BY <1>1, <1>2, SameWords DEF Settled
<1>4. \A d \in Requests : CallFits(calls[d], row)'
  <2>1. \A d \in Requests : CallFits(calls'[d], row)
    BY <1>2 DEF Agreement
  <2> QED  BY <1>1, <1>2, <2>1, SameWords DEF CallFits
<1>5. row' \in Rows[kind'] /\ \A g \in forms' : act(g)'.form
  BY <1>1, <1>2, SameWords DEF Agreement, OpenForm, CloseForm
<1>6. ViewFits'
  <2>1. ASSUME current, Settled, NEW g \in forms', OfTheRow(g)  PROVE LetsThrough(g, row)
    <3>1. CASE g \in forms
      BY <2>1, <3>1 DEF Agreement, ViewFits
    <3>2. CASE g \notin forms
      <4>1. g = h /\ OpenForm(h)
        BY <2>1, <3>2 DEF OpenForm, CloseForm
      <4> QED  BY <2>1, <4>1 DEF OpenForm, Offered, OfTheRow, Agreement, ViewFits, Fits
    <3> QED  BY <3>1, <3>2
  <2>2. current /\ Settled => Fits(shown, row)
    BY DEF Agreement, ViewFits
  <2> QED  BY <1>1, <1>2, <1>3, <2>1, <2>2, SameWords DEF ViewFits
<1>7. OneInHand'
  <2> SUFFICES ASSUME name \notin Hasty
               PROVE  /\ \A a, b \in Requests : a # b => Free(a) \/ Free(b)
                      /\ \A d \in Requests : ~Free(d) => forms' \subseteq {calls[d].act}
                      /\ \A d \in Requests : calls[d].step \in OfLoad => forms' = {}
    BY <1>2 DEF OneInHand, Free
  <2>1. CASE OpenForm(h)
    <3>1. \A d \in Requests : Free(d)
      BY <2>1 DEF OpenForm, Waits
    <3> QED  BY <3>1, IdleIsCall DEF Free, OfLoad
  <2>2. CASE CloseForm(h)
    BY <2>2 DEF CloseForm, Agreement, OneInHand
  <2> QED  BY <2>1, <2>2
<1> QED  BY <1>4, <1>5, <1>6, <1>7 DEF Agreement

(* Somebody else moves the row: nothing is up to date.                     *)
LEMMA MoveAgrees ==
  ASSUME CallsHold, Agreement, Move
  PROVE  Agreement'
<1>1. UNCHANGED <<opened, forms>> /\ current' = FALSE /\ row' \in Rows[kind]
  BY DEF Move
<1>2. name' = name /\ kind' = kind
  BY <1>1 DEF opened
<1>3. ASSUME NEW d \in Requests
      PROVE  \/ Free(d) /\ calls'[d] = Idle
             \/ /\ calls'[d].current = FALSE /\ calls'[d].step = calls[d].step
                /\ calls'[d].act = calls[d].act /\ ~Free(d)
  <2>1. CASE Free(d)
    BY <2>1 DEF Move
  <2>2. CASE ~Free(d)
    <3>1. calls'[d] = [calls[d] EXCEPT !.current = FALSE] /\ IsCall(calls[d])
      BY <2>2 DEF Move, CallsHold
    <3> QED  BY <2>2, <3>1 DEF IsCall
  <2> QED  BY <2>1, <2>2
<1>4. \A d \in Requests : CallFits(calls[d], row)'
  <2>1. \A r : \A d \in Requests : CallFits(calls'[d], r)
    BY <1>3, IdleFits DEF CallFits
  <2> QED  BY <1>1, <2>1, SameWords DEF CallFits
<1>5. row' \in Rows[kind'] /\ \A h \in forms' : act(h)'.form
  BY <1>1, <1>2, SameWords DEF Agreement
<1>6. OneInHand'
  <2> SUFFICES ASSUME name \notin Hasty
               PROVE  /\ \A a, b \in Requests : a # b => calls'[a] = Idle \/ calls'[b] = Idle
                      /\ \A d \in Requests : calls'[d] # Idle => forms \subseteq {calls'[d].act}
                      /\ \A d \in Requests : calls'[d].step \in OfLoad => forms = {}
    BY <1>1, <1>2 DEF OneInHand, Free
  <2>1. \A a, b \in Requests : a # b => Free(a) \/ Free(b)
    BY DEF Agreement, OneInHand
  <2>2. \A d \in Requests : calls'[d] # Idle => forms \subseteq {calls'[d].act}
    BY <1>3 DEF Agreement, OneInHand
  <2>3. \A d \in Requests : calls'[d].step \in OfLoad => forms = {}
    BY <1>3, IdleIsCall DEF Agreement, OneInHand, OfLoad
  <2> QED  BY <1>3, <2>1, <2>2, <2>3
<1> QED  BY <1>1, <1>4, <1>5, <1>6 DEF Agreement, ViewFits

(* The API serves a call about the row: the row stays as it is, what a user *)
(* in a hurry is offered is let through still, and one who waits has        *)
(* nothing to press until the answer.                                       *)
LEMMA ServingTheRow ==
  ASSUME CallsHold, HurryIsSteady, row \in Rows[kind], NEW c \in Requests, Serve(c)
  PROVE  /\ row' \in Rows[kind]
         /\ \/ row' = row
            \/ /\ name \in Hasty
               /\ \A h : OfTheRow(h) /\ LetsThrough(h, row) => LetsThrough(h, row')
            \/ name \notin Hasty /\ ~EndsAsItWas(calls[c])
<1> DEFINE g == calls[c].act
<1>1. row' \in Left(g)
  BY DEF Serve
<1>2. CASE ~OfTheRow(g)
  BY <1>1, <1>2 DEF Left, OfTheRow
<1>3. CASE OfTheRow(g)
  <2>1. row' \in Does[act(g).does][row]
    BY <1>1, <1>3 DEF Left, OfTheRow
  <2>2. Right(act(g)) /\ g # "look"
    BY <1>3, ThePageAgrees DEF Agreeing, AllRight, OfTheRow, act
  <2>3. /\ row' \in Rows[kind]
        /\ act(g).then = "stay" => row' = row
    BY <1>3, <2>1, <2>2 DEF Right, Suits, LeavesAlone, OfTheRow
  <2>4. ASSUME name \in Hasty, NEW h, OfTheRow(h), LetsThrough(h, row)
        PROVE  LetsThrough(h, row')
    <3>1. Undisturbed(act(h), act(g))
      BY <1>3, <2>4, ThePageAgrees DEF Steady, OfTheRow, act
    <3> QED  BY <1>3, <2>1, <2>4, <3>1 DEF Undisturbed, LetsThrough, OfTheRow
  <2> QED  BY <2>2, <2>3, <2>4 DEF EndsAsItWas
<1> QED  BY <1>2, <1>3

LEMMA ServeAgrees ==
  ASSUME CallsHold, Agreement, HurryIsSteady, NEW c \in Requests, Serve(c)
  PROVE  Agreement'
<1> PICK x : x = [calls[c] EXCEPT !.step = "served", !.got = row']
  OBVIOUS
<1>1. IsCall(calls[c]) /\ calls = [d \in Requests |-> calls[d]]
  BY DEF CallsHold
<1>2. /\ IsCall(x) /\ x.step = "served" /\ x.act = calls[c].act /\ x.got = row'
      /\ x.current = calls[c].current
  BY <1>1 DEF IsCall
<1>3. /\ calls' = [calls EXCEPT ![c] = x] /\ UNCHANGED <<opened, shown, current, forms>>
      /\ calls[c].step = "sent"
  BY <1>1 DEF Serve, view
<1>4. calls'[c] = x /\ \A d \in Requests \ {c} : calls'[d] = calls[d]
  BY <1>2, <1>3, OneChanged
<1>5. ~Free(c) /\ Quiet(calls[c])
  BY <1>3, IdleIsCall DEF Free, Quiet
<1>6. OneInHand'
  BY <1>2, <1>3, <1>5, StillOneInHand DEF Agreement, OfLoad
<1>7. /\ row' \in Rows[kind]
      /\ \/ row' = row
         \/ /\ name \in Hasty
            /\ \A h : OfTheRow(h) /\ LetsThrough(h, row) => LetsThrough(h, row')
         \/ name \notin Hasty /\ ~EndsAsItWas(calls[c])
  BY ServingTheRow DEF Agreement
<1>8. CallFits(x, row')
  <2>1. Fits(row', row')
    BY <1>7, TheRowFits
  <2> QED  BY <1>2, <2>1 DEF CallFits
<1>9. CASE row' = row
  BY <1>2, <1>3, <1>5, <1>6, <1>8, <1>9, OneStepAgrees
<1>10. name' = name /\ kind' = kind /\ shown' = shown
  BY <1>3 DEF opened
<1>11. row' \in Rows[kind'] /\ \A h \in forms' : act(h)'.form
  BY <1>3, <1>7, <1>10, SameWords DEF Agreement
<1>12. CASE /\ name \in Hasty
            /\ \A h : OfTheRow(h) /\ LetsThrough(h, row) => LetsThrough(h, row')
  <2>1. \A z : Fits(z, row) => Fits(z, row')
    BY <1>12 DEF Fits
  <2>2. \A z : CallFits(z, row) => CallFits(z, row')
    BY <1>12, <2>1 DEF CallFits
  <2>3. \A d \in Requests : CallFits(calls'[d], row')
    BY <1>4, <1>8, <2>2 DEF Agreement
  <2>4. \A d \in Requests : CallFits(calls[d], row)'
    BY <1>3, <2>3, SameWords DEF CallFits
  <2>5. current => Fits(shown, row') /\ \A h \in forms : OfTheRow(h) => LetsThrough(h, row')
    BY <1>12, <2>1 DEF Agreement, ViewFits, Settled
  <2>6. ViewFits'
    BY <1>3, <1>10, <2>5, SameWords DEF ViewFits
  <2> QED  BY <1>6, <1>11, <2>4, <2>6 DEF Agreement
<1>13. CASE name \notin Hasty /\ ~EndsAsItWas(calls[c])
  <2>1. \A d \in Requests \ {c} : calls'[d] = Idle
    BY <1>4, <1>5, <1>13 DEF Agreement, OneInHand, Free
  <2>2. \A d \in Requests : CallFits(calls'[d], row')
    BY <1>4, <1>8, <2>1, IdleFits
  <2>3. \A d \in Requests : CallFits(calls[d], row)'
    BY <1>3, <2>2, SameWords DEF CallFits
  <2>4. ~Quiet(x)
    BY <1>2, <1>13 DEF Quiet, EndsAsItWas
  <2>5. ~Settled'
    BY <1>3, <1>4, <1>10, <1>13, <2>4, SameWords DEF Settled
  <2> QED  BY <1>6, <1>11, <2>3, <2>5 DEF Agreement, ViewFits
<1> QED  BY <1>7, <1>9, <1>12, <1>13

(* It refuses only a call that is about a row that has moved.              *)
LEMMA RefusalAgrees ==
  ASSUME CallsHold, Drawing, Agreement, NEW c \in Requests, Refuse(c)
  PROVE  Agreement'
<1> PICK x : x = [calls[c] EXCEPT !.step = "refused"]
  OBVIOUS
<1>1. IsCall(x) /\ x.step = "refused" /\ x.act = calls[c].act /\ calls' = [calls EXCEPT ![c] = x]
  BY Further DEF Refuse
<1>2. x.current = calls[c].current
  BY DEF CallsHold, IsCall
<1>3. UNCHANGED <<opened, row, shown, current, forms>> /\ calls[c].step = "sent"
  BY DEF Refuse, view
<1>4. ~Free(c) /\ Quiet(calls[c])
  BY <1>3, IdleIsCall DEF Free, Quiet
<1>5. ~x.current
  <2>1. OfTheRow(calls[c].act) /\ ~LetsThrough(calls[c].act, row)
    BY DEF Refuse, Left, OfTheRow, LetsThrough
  <2> QED  BY <1>2, <1>3, <2>1 DEF Agreement, CallFits
<1>6. OneInHand'
  BY <1>1, <1>3, <1>4, StillOneInHand DEF Agreement, OfLoad
<1> QED  BY <1>1, <1>3, <1>4, <1>5, <1>6, OneStepAgrees DEF CallFits

(* The page loads: the row as it is now.                                   *)
LEMMA LoadAgrees ==
  ASSUME CallsHold, Agreement, NEW c \in Requests, ServeLoad(c)
  PROVE  Agreement'
<1> PICK x : x = [calls[c] EXCEPT !.step = "loaded", !.got = row, !.current = TRUE]
  OBVIOUS
<1>1. IsCall(calls[c]) /\ calls = [d \in Requests |-> calls[d]]
  BY DEF CallsHold
<1>2. IsCall(x) /\ x.step = "loaded" /\ x.act = calls[c].act /\ x.got = row
  BY <1>1 DEF IsCall
<1>3. calls' = [calls EXCEPT ![c] = x] /\ UNCHANGED <<opened, row, shown, current, forms>>
  BY <1>1 DEF ServeLoad, view
<1>4. ~Free(c) /\ calls[c].step \in OfLoad
  BY IdleIsCall DEF ServeLoad, Free, OfLoad
<1>5. CallFits(x, row) /\ ~Quiet(x)
  <2>1. Fits(row, row)
    BY TheRowFits DEF Agreement
  <2> QED  BY <1>2, <2>1 DEF CallFits, Quiet
<1>6. OneInHand'
  BY <1>2, <1>3, <1>4, StillOneInHand DEF Agreement
<1> QED  BY <1>2, <1>3, <1>5, <1>6, OneStepAgrees

(* The answers that leave what is shown of the row as it is, or are lost.  *)
LEMMA EndAgrees ==
  ASSUME CallsHold, LoadingHolds, Agreement, NEW c \in Requests,
         AnswerLook(c) \/ AnswerStay(c) \/ Fail(c)
  PROVE  Agreement'
<1>1. /\ calls' = [calls EXCEPT ![c] = Idle] /\ UNCHANGED <<opened, row, shown>>
      /\ forms' \subseteq forms
  BY DEF AnswerLook, AnswerStay, Fail, Closed
<1>2. current' => current /\ Quiet(calls[c])
  <2>1. CASE AnswerLook(c) \/ AnswerStay(c)
    BY <2>1 DEF AnswerLook, AnswerStay, Served, Quiet, EndsAsItWas
  <2>2. CASE Fail(c)
    BY <2>2 DEF Fail, Quiet, EndsAsItWas, LoadingHolds, OfLoad
  <2> QED  BY <2>1, <2>2
<1>3. OneInHand'
  BY <1>1, IdleIsCall, StillOneInHand DEF Agreement, OfLoad
<1> QED  BY <1>1, <1>2, <1>3, IdleIsCall, IdleFits, OneStepAgrees

(* The answer after which the page loads again.                            *)
LEMMA ReloadAgrees ==
  ASSUME CallsHold, Agreement, NEW c \in Requests, AnswerReload(c)
  PROVE  Agreement'
<1> PICK x : x = [calls[c] EXCEPT !.step = "loading"]
  OBVIOUS
<1>1. IsCall(x) /\ x.step = "loading" /\ x.act = calls[c].act /\ calls' = [calls EXCEPT ![c] = x]
  BY Further DEF AnswerReload
<1>2. UNCHANGED <<opened, row, shown, current>> /\ forms' = forms \ {calls[c].act}
  BY DEF AnswerReload, Closed
<1>3. ~Free(c)
  BY IdleIsCall DEF AnswerReload, Served, Free
<1>4. CallFits(x, row) /\ ~Quiet(x)
  BY <1>1 DEF CallFits, Brings, Quiet
<1>5. name \notin Hasty => forms' = {}
  BY <1>2, <1>3 DEF Agreement, OneInHand
<1>6. OneInHand'
  BY <1>1, <1>2, <1>3, <1>5, StillOneInHand DEF Agreement
<1> QED  BY <1>1, <1>2, <1>4, <1>6, OneStepAgrees

(* The answers that bring the row.                                         *)
LEMMA BringingAgrees ==
  ASSUME CallsHold, Drawing, Agreement, HurryIsSteady, NEW c \in Requests,
         AnswerLoad(c) \/ AnswerTake(c)
  PROVE  Agreement'
<1>1. /\ calls' = [calls EXCEPT ![c] = Idle] /\ UNCHANGED <<opened, row>>
      /\ forms' \subseteq forms /\ shown' = calls[c].got /\ current' = calls[c].current
  BY DEF AnswerLoad, AnswerTake, Closed
<1>2. calls'[c] = Idle /\ \A d \in Requests \ {c} : calls'[d] = calls[d]
  BY <1>1, IdleIsCall, OneChanged
<1>3. Brings(calls[c]) /\ ~Free(c)
  BY IdleIsCall DEF AnswerLoad, AnswerTake, Served, Brings, Free
<1>4. current' => Fits(shown', row)
  BY <1>1, <1>3 DEF Agreement, CallFits
<1>5. \A h \in forms' : ~OfTheRow(h)
  <2>1. CASE name \in Hasty
    BY <1>1, <2>1, ThePageAgrees DEF Steady, OfTheRow, Agreement, act
  <2>2. CASE name \notin Hasty
    <3>1. forms' = {}
      <4>1. CASE AnswerLoad(c)
        BY <1>1, <2>2, <4>1 DEF AnswerLoad, OfLoad, Agreement, OneInHand
      <4>2. CASE AnswerTake(c)
        BY <1>3, <2>2, <4>2 DEF AnswerTake, Closed, Agreement, OneInHand
      <4> QED  BY <4>1, <4>2
    <3> QED  BY <3>1
  <2> QED  BY <2>1, <2>2
<1>6. row' = row /\ name' = name /\ kind' = kind
  BY <1>1 DEF opened
<1>7. row' \in Rows[kind'] /\ \A h \in forms' : act(h)'.form
  BY <1>1, <1>6, SameWords DEF Agreement
<1>8. ViewFits'
  BY <1>1, <1>4, <1>5, <1>6, SameWords DEF ViewFits
<1>9. \A d \in Requests : CallFits(calls[d], row)'
  <2>1. \A d \in Requests : CallFits(calls'[d], row)
    BY <1>2, IdleFits DEF Agreement
  <2> QED  BY <1>1, <1>6, <2>1, SameWords DEF CallFits
<1>10. OneInHand'
  BY <1>1, IdleIsCall, StillOneInHand DEF Agreement, OfLoad
<1> QED  BY <1>7, <1>8, <1>9, <1>10 DEF Agreement

(* The page as it opens, the first time and again.                         *)
Anew == /\ name \in Names /\ row \in Rows[kind] /\ shown = NoRow /\ forms = {}
        /\ calls = FirstCalls
LEMMA OpeningAgrees == HurryIsSteady /\ Anew => Agreement
<1> SUFFICES ASSUME HurryIsSteady, Anew  PROVE Agreement
  OBVIOUS
<1>1. 1 \in Requests
  BY PagesAssumption DEF Requests
<1>2. calls = [c \in Requests |-> IF c = 1 /\ page.load # {} THEN Loading ELSE Idle]
  <2>1. CASE page.load = {}
    BY <2>1 DEF Anew, FirstCalls, NoCalls
  <2>2. CASE page.load # {}
    BY <1>1, <2>2 DEF Anew, FirstCalls, NoCalls
  <2> QED  BY <2>1, <2>2
<1>3. CallsHold
  BY <1>2, IdleIsCall, LoadingIsCall DEF CallsHold, Anew
<1>4. \A r : CallFits(Loading, r) /\ ~Quiet(Loading)
  BY LoadingIsCall DEF CallFits, Brings, Quiet
<1>5. \A c \in Requests : CallFits(calls[c], row)
  BY <1>2, <1>4, IdleFits
<1>6. OneInHand
  BY <1>2 DEF Anew, OneInHand, Free
<1>7. Settled => Fits(shown, row)
  <2>1. CASE page.load = {}
    BY <1>3, <2>1, ThePageAgrees DEF Agreeing, NoneOnRows, OfTheRow, Fits, act
  <2>2. CASE name \in Hasty
    BY <1>3, <2>2, ThePageAgrees DEF Steady, OfTheRow, Fits, Anew, act
  <2>3. CASE page.load # {} /\ name \notin Hasty
    BY <1>1, <1>2, <1>4, <2>3 DEF Settled
  <2> QED  BY <2>1, <2>2, <2>3
<1> QED  BY <1>5, <1>6, <1>7 DEF Agreement, Anew, ViewFits

LEMMA LeavingAgrees ==
  ASSUME CallsHold, Agreement, HurryIsSteady, NEW c \in Requests, AnswerLeave(c)
  PROVE  Agreement'
<1>1. /\ name' = name /\ kind' = kind /\ row' = row /\ shown' = NoRow /\ forms' = {}
      /\ calls' = FirstCalls
  BY DEF AnswerLeave, opened
<1>2. FirstCalls' = FirstCalls
  BY <1>1 DEF FirstCalls, page
<1>3. Anew'
  BY <1>1, <1>2 DEF Anew, CallsHold, Agreement
<1>4. HurryIsSteady'
  BY DEF HurryIsSteady
<1> QED  BY <1>3, <1>4, OpeningAgrees, PTL

(* What is drawn is let through, in every state.                           *)
LEMMA AgreementHolds ==
  ASSUME HurryIsSteady
  PROVE  Spec => []Agreement
<1>1. ASSUME Init  PROVE Agreement
  BY <1>1, OpeningAgrees DEF Init, Anew
<1>2. ASSUME CallsHold, LoadingHolds, Drawing, Agreement, [Next]_vars  PROVE Agreement'
  <2>1. CASE UNCHANGED vars
    <3>1. UNCHANGED <<opened, row, shown, current, forms, calls>>
      BY <2>1 DEF vars, view
    <3>2. row' = row /\ shown' = shown /\ name' = name /\ kind' = kind /\ current' = current
          /\ calls' = calls /\ forms' = forms
      BY <3>1 DEF opened
    <3>3. \A d \in Requests : CallFits(calls'[d], row)
      BY <1>2, <3>2 DEF Agreement
    <3>4. \A d \in Requests : CallFits(calls[d], row)'
      BY <3>1, <3>2, <3>3, SameWords DEF CallFits
    <3>5. row' \in Rows[kind'] /\ \A h \in forms' : act(h)'.form
      BY <1>2, <3>1, <3>2, SameWords DEF Agreement
    <3>6. (Settled' <=> Settled) /\ OneInHand'
      BY <1>2, <3>1, <3>2, SameWords DEF Settled, Agreement, OneInHand, Free
    <3>7. ViewFits'
      BY <1>2, <3>1, <3>2, <3>6, SameWords DEF Agreement, ViewFits
    <3> QED  BY <3>4, <3>5, <3>6, <3>7 DEF Agreement
  <2>2. ASSUME NEW c \in Requests, NEW h \in DOMAIN page.acts, Press(c, h)  PROVE Agreement'
    BY <1>2, <2>2, PressAgrees
  <2>3. ASSUME NEW c \in Requests, NEW z \in Choices, Choose(c, z)  PROVE Agreement'
    BY <1>2, <2>3, ChoiceAgrees
  <2>4. ASSUME NEW c \in Requests, Look(c) \/ Decides(c)  PROVE Agreement'
    BY <1>2, <2>4, LookAgrees, DecisionAgrees
  <2>5. ASSUME NEW c \in Requests, Settles(c)  PROVE Agreement'
    <3>1. CASE ServeLoad(c) \/ Serve(c) \/ Refuse(c)
      BY <1>2, <3>1, LoadAgrees, ServeAgrees, RefusalAgrees
    <3>2. CASE AnswerLook(c) \/ AnswerStay(c) \/ Fail(c)
      BY <1>2, <3>2, EndAgrees
    <3>3. CASE AnswerLoad(c) \/ AnswerTake(c)
      BY <1>2, <3>3, BringingAgrees
    <3>4. CASE AnswerReload(c) \/ AnswerLeave(c)
      BY <1>2, <3>4, ReloadAgrees, LeavingAgrees
    <3> QED  BY <2>5, <3>1, <3>2, <3>3, <3>4 DEF Settles
  <2>6. ASSUME NEW h \in DOMAIN page.acts, OpenForm(h) \/ CloseForm(h)  PROVE Agreement'
    BY <1>2, <2>6, FormAgrees
  <2>7. CASE Move
    BY <1>2, <2>7, MoveAgrees
  <2> QED  BY <1>2, <2>1, <2>2, <2>3, <2>4, <2>5, <2>6, <2>7 DEF Next
<1>3. Owed => CallsHold /\ LoadingHolds
  BY DEF Owed
<1> QED  BY <1>1, <1>2, <1>3, CallsOwe, DrawingHolds, PTL DEF Spec

(* The API refuses a call because of its row only if somebody else has     *)
(* moved the row since the page read it: on every page a user waits on,    *)
(* and to a user who does not wait on the pages that are steady.           *)
THEOREM OnlyMovedRowsAreRefused ==
  ASSUME HurryIsSteady
  PROVE  Spec => []RefusedOnlyIfMoved
<1>1. Agreement => RefusedOnlyIfMoved
  BY DEF Agreement, CallFits, RefusedOnlyIfMoved
<1> QED  BY <1>1, AgreementHolds, PTL
=============================================================================
