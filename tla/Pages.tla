-------------------------------- MODULE Pages --------------------------------
(* The words of the tables that say what a page does: the calls it makes when  *)
(* it opens, the controls it draws for the row it shows, and what a handler    *)
(* does around its call: the toast that asks first, the flag that disables its *)
(* button while the call is in flight, and what happens with the answer. The   *)
(* tables are in OfficePages and FamilyPages; Screens gives them meaning.      *)
EXTENDS Rows, Routes

\* Flags are named as in the code; those of two panels of one page that have the
\* same name there are told apart.
\* A handler that sends a call: it raises no flag, asks nothing, and loads the
\* page again when the answer comes.
Sends(route) ==
  [call |-> route, does |-> "nothing", asks |-> "no", flag |-> "", early |-> FALSE,
   then |-> "reload"]
\* A call about the row the page shows, which the API handles as Does[handler].
On(route, handler) == [Sends(route) EXCEPT !.does = handler]
Raises(h, flag) == [h EXCEPT !.flag = flag]
\* confirmToast: the call is sent only if the user confirms.
Asks(h) == [h EXCEPT !.asks = "stops"]
\* askChargeEnrollmentFee: whatever the user answers, the call is sent.
AsksFee(h) == [h EXCEPT !.asks = "picks"]
\* The flag goes up before the toast, not after it.
Early(h) == [h EXCEPT !.early = TRUE]
\* The answer is all the page needs: it takes the row from it, shows nothing
\* new, or goes to another page.
Takes(h) == [h EXCEPT !.then = "answer"]
Stays(h) == [h EXCEPT !.then = "stay"]
Leaves(h) == [h EXCEPT !.then = "leave"]

\* A control drawn for the rows in `rows`; a form is opened by a control drawn
\* for them and stays open until its call is answered or the user closes it.
Drawn(h, of, rows) ==
  [call |-> h.call, does |-> h.does, asks |-> h.asks, flag |-> h.flag, early |-> h.early,
   then |-> h.then, of |-> of, rows |-> rows, form |-> FALSE, by |-> Callers]
Form(h, of, rows) == [Drawn(h, of, rows) EXCEPT !.form = TRUE]
Always(h) == Drawn(h, "nothing", {NoRow})            \* whatever the page shows
FormFor(h) == Form(h, "nothing", {NoRow})
Only(who, control) == [control EXCEPT !.by = who]
There(of) == Rows[of] \ {Gone}

\* What the user chooses on a page, and the call that previews it: made by the
\* effect that follows the choice or by a button, which raises `flag`; guarded
\* if the answer to an earlier choice is dropped (let cancelled = false);
\* cleared if a new choice takes the old preview away. The handlers in `acts`
\* are offered with a preview only, the ones in `blind` without one; a preview
\* that is spent goes when one of them has done its work.
NoChoice == [call |-> "", by |-> "nobody", flag |-> "", guarded |-> FALSE, clears |-> TRUE,
             acts |-> {}, blind |-> {}, spent |-> FALSE]
Effect(route, acts) ==
  [NoChoice EXCEPT !.call = route, !.by = "effect", !.guarded = TRUE, !.acts = acts]
Button(route, flag, acts) ==
  [NoChoice EXCEPT !.call = route, !.by = "button", !.flag = flag, !.acts = acts, !.spent = TRUE]
Unguarded(choice) == [choice EXCEPT !.guarded = FALSE]
Keeping(choice) == [choice EXCEPT !.clears = FALSE]

\* lib/home: where each role lands, and is sent back to from the other areas.
homeFor(role) == CASE role = "guardian" -> "/portal"
                   [] role = "teacher" -> "/teacher"
                   [] OTHER -> "/"
isAdminAppRole(role) == homeFor(role) = "/"

\* Whom the layout of each area lets in; the public pages have none.
AppLayout == {role \in UserRoles : isAdminAppRole(role)}
PortalLayout == {role \in UserRoles : role = "guardian"}
TeacherLayout == {role \in UserRoles : role = "teacher"}
Public == {"nobody"}

\* A page: who is let in, the calls it opens with, when "Cargando" replaces its
\* controls (for every load, for the first one, or never; "list": for every load,
\* but only the controls in the list), and the kinds of row it may be about.
Page(who, load, hides, of, acts) ==
  [who |-> who, load |-> load, hides |-> hides, of |-> of, acts |-> acts, choice |-> NoChoice]
\* A page that is about no row in particular.
PageOfNone(who, load, hides, acts) == Page(who, load, hides, {"nothing"}, acts)
\* The controls of a page that are in several places of it.
Together(parts) == [h \in UNION {DOMAIN p : p \in parts} |->
                      (CHOOSE p \in parts : h \in DOMAIN p)[h]]
NoActs == [h \in {} |-> Sends("")]
Choosing(p, choice) == [p EXCEPT !.choice = choice]
=============================================================================
