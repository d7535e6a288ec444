---------------------------- MODULE AuthSessions ----------------------------
(***************************************************************************)
(* Signing in: one account's sessions in the API, and the browsers and     *)
(* tabs that hold their tokens.                                            *)
(*                                                                         *)
(* A tab keeps its access token in memory; the refresh token is a cookie   *)
(* that the tabs of a browser share and that the API replaces when it is   *)
(* used.  A request is handled statement by statement, its answer arrives  *)
(* in any order relative to those of other tabs, or never, and the cookie  *)
(* it sets is stored on arrival.                                           *)
(*                                                                         *)
(* Refresh tokens are numbered as they are signed; a session is named by   *)
(* its first token, passwords by their order.  The clock counts in units   *)
(* of the grace period.                                                    *)
(***************************************************************************)
EXTENDS Naturals, FiniteSets

CONSTANTS Browsers, Tabs,
          Homes,             \* ways to open the tabs in the browsers
          ROTATION_GRACE,    \* ROTATION_GRACE_MS
          AccessLife,        \* JWT_ACCESS_EXPIRES_IN
          RefreshLife,       \* JWT_REFRESH_EXPIRES_IN
          RESET_TTL,         \* RESET_TTL_MINUTES
          Asks,              \* what people ask for
          Networks,          \* "prompt": every request is answered before time
                             \* passes; "lossy": late, or never
          Overlapping,       \* may logins, changes and resets overlap?
          LastTime, MaxTokens, MaxPasswords, MaxLinks   \* bounds

ASSUME AuthAssumption ==
  /\ IsFiniteSet(Browsers) /\ Browsers = 1..Cardinality(Browsers)
  /\ Homes \subseteq [Tabs -> Browsers]
  /\ {ROTATION_GRACE, AccessLife, RefreshLife, RESET_TTL} \subseteq Nat
  /\ Asks \subseteq {"login", "logout", "change", "reset", "reload"}
  /\ Networks \subseteq {"prompt", "lossy"} /\ Overlapping \in BOOLEAN
  /\ {LastTime, MaxTokens, MaxPasswords, MaxLinks} \subseteq Nat
  /\ IsFiniteSet(Tabs) /\ Cardinality(Browsers) + Cardinality(Tabs) <= MaxTokens

VARIABLES network,    \* how the requests travel, and
          home,       \* the browser of each tab: both stay as they are
          clock,
          password,   \* the account's password
          link,       \* the reset link whose hash the account keeps
          sessions,   \* the rows of auth_sessions
          cookie,     \* each browser's refresh token
          tab,        \* what each tab shows, and its access token
          request,    \* each tab's request to the API
          signed,     \* refresh tokens signed so far
          links,      \* reset links sent so far
          ended       \* history: when and why sessions ended

accounts == <<password, link, links>>
world == <<network, home>>
vars == <<world, clock, password, link, sessions, cookie, tab, request, signed, links, ended>>

NoToken == [number |-> 0]
NoLink == [number |-> 0]
NoRequest == [kind |-> "none"]
Live == DOMAIN sessions

(* Tokens differ, even two signed in the same second (jwtid).              *)
Sign == signed' = signed + 1

(* The row and the refresh token of a session that is opened or rotated.   *)
Signed(s) == [number |-> signed + 1, session |-> s, expiresAt |-> clock + RefreshLife]
In(s) == [page |-> "in", session |-> s, expiresAt |-> clock + AccessLife]
Out == [page |-> "out"]
NewSession(n, p) ==
  [token |-> n, previous |-> 0, rotatedAt |-> 0, expiresAt |-> clock + RefreshLife, provedBy |-> p]

Init ==
  /\ network \in Networks /\ home \in Homes
  /\ clock = 0 /\ password = 1 /\ link = NoLink
  /\ sessions = [b \in Browsers |-> NewSession(b, 1)]
  /\ cookie = [b \in Browsers |-> [number |-> b, session |-> b, expiresAt |-> RefreshLife]]
  /\ tab = [t \in Tabs |-> [page |-> "loading"]]
  /\ request = [t \in Tabs |-> NoRequest]
  /\ signed = Cardinality(Browsers)
  /\ links = 0 /\ ended = [s \in {} |-> 0]

-----------------------------------------------------------------------------
(* Asking.  A tab has one refresh in flight at a time, however many of its *)
(* calls met an expired access token.  Each ask may sign a token, and the  *)
(* bounds leave room for those under way.                                  *)

Credentials == {"login", "change", "reset"}
UnderWay == {t \in Tabs : request[t] # NoRequest \/ tab[t].page = "loading"}
Choosing == {t \in Tabs : request[t].kind \in {"change", "reset"}}

Ask(t, kind) ==
  /\ kind \in Asks /\ request[t] = NoRequest
  /\ signed + Cardinality(UnderWay) < MaxTokens
  /\ (kind \in Credentials /\ ~Overlapping) => \A u \in Tabs : request[u].kind \notin Credentials
  /\ kind \in {"change", "reset"} => password + Cardinality(Choosing) < MaxPasswords

Send(t, r) == /\ request' = [request EXCEPT ![t] = r]
              /\ UNCHANGED <<world, clock, accounts, sessions, cookie, tab, signed, ended>>

Refresh(t) == [kind |-> "refresh", at |-> "sent", token |-> cookie[home[t]]]

bootstrapSession(t) ==
  /\ tab[t].page = "loading" /\ request[t] = NoRequest
  /\ Send(t, Refresh(t))

Expired(t) == tab[t].page = "in" /\ tab[t].expiresAt <= clock

tryRefresh(t) ==
  /\ Expired(t) /\ request[t] = NoRequest
  /\ signed + Cardinality(UnderWay) < MaxTokens
  /\ Send(t, Refresh(t))

SubmitLogin(t) ==
  /\ tab[t].page = "out" /\ Ask(t, "login")
  /\ Send(t, [kind |-> "login", at |-> "verify", password |-> password])

SubmitLogout(t) ==
  /\ tab[t].page = "in" /\ ~Expired(t) /\ Ask(t, "logout")
  /\ Send(t, [kind |-> "logout", at |-> "delete", session |-> tab[t].session])

SubmitChange(t) ==
  /\ tab[t].page = "in" /\ ~Expired(t) /\ Ask(t, "change")
  /\ Send(t, [kind |-> "change", at |-> "verify", password |-> password])

SubmitReset(t) ==
  /\ tab[t].page = "out" /\ Ask(t, "reset")
  /\ \E l \in 1..links : Send(t, [kind |-> "reset", at |-> "read", link |-> l])

(* Reloading a page forgets its access token.  With a prompt network pages *)
(* stay open: each tab refreshes at most once within a grace period.       *)
Reload(t) ==
  /\ network = "lossy" /\ tab[t].page # "loading" /\ Ask(t, "reload")
  /\ tab' = [tab EXCEPT ![t] = [page |-> "loading"]]
  /\ UNCHANGED <<world, clock, accounts, sessions, cookie, request, signed, ended>>

-----------------------------------------------------------------------------
(* Answering.                                                              *)

At(t, kind, step) == request[t].kind = kind /\ request[t].at = step
Proceed(t, step) == request' = [request EXCEPT ![t].at = step]
Answer(t, status, token, s) ==
  request' = [request EXCEPT ![t] =
    [kind |-> @.kind, at |-> "answered", status |-> status, token |-> token, access |-> In(s)]]
Refuse(t) == request' = [request EXCEPT ![t] =
    [kind |-> @.kind, at |-> "answered", status |-> "refused",
     presented |-> IF @.kind = "refresh" THEN @.token ELSE NoToken]]

End(S, why) ==
  /\ sessions' = [s \in Live \ S |-> sessions[s]]
  /\ ended' = [s \in DOMAIN ended \cup (S \cap Live) |->
                 IF s \in DOMAIN ended THEN ended[s] ELSE [at |-> clock, why |-> why]]

(* The decision once the presented token is not the current one: the token *)
(* that was replaced a moment ago gets an access token, and no cookie.     *)
\* Mutant: no grace period
NeverJustRotated(row, n, now) == FALSE
JustRotated(row, n, now) == row.previous = n /\ now <= row.rotatedAt + ROTATION_GRACE

Decide(t, now) ==
  LET token == request[t].token IN
  IF JustRotated(sessions[token.session], token.number, now)
  THEN Answer(t, "ok", NoToken, token.session)
  ELSE Proceed(t, "revoke")

(* The guard, which checks the token's own expiry, and the first read.     *)
ReadRefresh(t) ==
  LET token == request[t].token IN
  /\ At(t, "refresh", "sent")
  /\ IF \/ token = NoToken
        \/ token.expiresAt <= clock
        \/ token.session \notin Live
        \/ sessions[token.session].expiresAt <= clock
     THEN Refuse(t)
     ELSE IF sessions[token.session].token = token.number
     THEN request' = [request EXCEPT ![t] = [kind |-> "refresh", at |-> "swap", token |-> token, now |-> clock]]
     ELSE Decide(t, clock)
  /\ UNCHANGED <<world, clock, accounts, sessions, cookie, tab, signed, ended>>

(* The compare-and-swap: where the token is still the current one.         *)
Swappable(token) == token.session \in Live /\ sessions[token.session].token = token.number

SwapToken(t) ==
  LET token == request[t].token  s == token.session IN
  /\ At(t, "refresh", "swap")
  /\ IF Swappable(token)
     THEN /\ sessions' = [sessions EXCEPT ![s] =
               [@ EXCEPT !.token = signed + 1, !.previous = token.number,
                         !.rotatedAt = request[t].now, !.expiresAt = clock + RefreshLife]]
          /\ Sign
          /\ Answer(t, "ok", Signed(s), s)
     ELSE /\ Proceed(t, "reload")
          /\ UNCHANGED <<sessions, signed>>
  /\ UNCHANGED <<world, clock, accounts, cookie, tab, ended>>

ReloadSession(t) ==
  /\ At(t, "refresh", "reload")
  /\ IF request[t].token.session \in Live THEN Decide(t, request[t].now) ELSE Refuse(t)
  /\ UNCHANGED <<world, clock, accounts, sessions, cookie, tab, signed, ended>>

Revoke(t) ==
  /\ At(t, "refresh", "revoke")
  /\ End({request[t].token.session}, "reuse")
  /\ Refuse(t)
  /\ UNCHANGED <<world, clock, accounts, cookie, tab, signed>>

VerifyPassword(t) ==
  /\ \E kind \in {"login", "change"} : At(t, kind, "verify")
  /\ IF request[t].password = password
     THEN Proceed(t, IF request[t].kind = "login" THEN "start" ELSE "update")
     ELSE Refuse(t)
  /\ UNCHANGED <<world, clock, accounts, sessions, cookie, tab, signed, ended>>

(* One update writes the password, forgets the link and ends the sessions. *)
\* Mutant: the sessions stay
NewPasswordOnly == password' = password + 1 /\ link' = NoLink /\ UNCHANGED <<sessions, ended>>
NewPassword == /\ password' = password + 1
               /\ link' = NoLink
               /\ End(Live, "password")

changePassword(t) ==
  /\ At(t, "change", "update") /\ NewPassword
  /\ request' = [request EXCEPT ![t].at = "start", ![t].password = password + 1]
  /\ UNCHANGED <<world, clock, links, cookie, tab, signed>>

(* startSession: the caller's expired rows go first, then the new one.     *)
DeleteExpired(t) ==
  /\ \E kind \in {"login", "change"} : At(t, kind, "start")
  /\ End({s \in Live : sessions[s].expiresAt <= clock}, "expired")
  /\ Proceed(t, "create")
  /\ UNCHANGED <<world, clock, accounts, cookie, tab, signed>>

\* Mutant: a device signs in again to the session it had
sessionIdOfDevice(t) == IF cookie[home[t]] = NoToken THEN signed + 1 ELSE cookie[home[t]].session
sessionId(t) == signed + 1

startSession(t) ==
  LET s == sessionId(t) IN
  /\ \E kind \in {"login", "change"} : At(t, kind, "create")
  /\ sessions' = [x \in Live \cup {s} |->
                    IF x = s THEN NewSession(signed + 1, request[t].password) ELSE sessions[x]]
  /\ Sign
  /\ Answer(t, "ok", Signed(s), s)
  /\ UNCHANGED <<world, clock, accounts, cookie, tab, ended>>

logout(t) ==
  /\ At(t, "logout", "delete")
  /\ End({request[t].session}, "logout")
  /\ Answer(t, "ok", NoToken, request[t].session)
  /\ UNCHANGED <<world, clock, accounts, cookie, tab, signed>>

(* A new link replaces the one before.                                     *)
forgotPassword(t) ==
  /\ tab[t].page = "out" /\ request[t] = NoRequest /\ "reset" \in Asks
  /\ links < MaxLinks
  /\ link' = [number |-> links + 1, expiresAt |-> clock + RESET_TTL]
  /\ links' = links + 1
  /\ UNCHANGED <<world, clock, password, sessions, cookie, tab, request, signed, ended>>

ReadLink(t) ==
  /\ At(t, "reset", "read")
  /\ IF link.number = request[t].link /\ clock <= link.expiresAt
     THEN Proceed(t, "update") ELSE Refuse(t)
  /\ UNCHANGED <<world, clock, accounts, sessions, cookie, tab, signed, ended>>

resetPassword(t) ==
  /\ At(t, "reset", "update") /\ NewPassword
  /\ Answer(t, "ok", NoToken, 0)
  /\ UNCHANGED <<world, clock, links, cookie, tab, signed>>

-----------------------------------------------------------------------------
(* Answers arrive.  A refresh that is refused shows the sign-in page and   *)
(* leaves the cookie where it is.                                          *)

\* Mutant: the page waits for a session that never comes
ShownUnlessRefused(t, answer) ==
  CASE answer.kind \in {"refresh", "login", "change"} /\ answer.status = "ok" -> answer.access
    [] answer.kind = "logout" -> Out
    [] OTHER -> tab[t]
Shown(t, answer) ==
  CASE answer.kind \in {"refresh", "login", "change"} /\ answer.status = "ok" -> answer.access
    [] answer.kind = "refresh" /\ answer.status = "refused" -> Out
    [] answer.kind = "logout" -> Out
    [] OTHER -> tab[t]

Receive(t) ==
  LET answer == request[t]  b == home[t] IN
  /\ answer # NoRequest /\ answer.at = "answered"
  /\ request' = [request EXCEPT ![t] = NoRequest]
  /\ tab' = [tab EXCEPT ![t] = Shown(t, answer)]
  /\ cookie' = [cookie EXCEPT ![b] =
       CASE answer.status = "ok" /\ answer.kind = "logout" -> NoToken
         [] answer.status = "ok" /\ answer.token # NoToken -> answer.token
         [] OTHER -> @]
  /\ UNCHANGED <<world, clock, accounts, sessions, signed, ended>>

(* A request or an answer is lost and fetch throws: nobody catches it when *)
(* the page is loading; signing out always forgets the user.               *)
Lose(t) ==
  /\ network = "lossy" /\ request[t] # NoRequest
  /\ request[t].at \in {"sent", "verify", "delete", "read", "answered"}
  /\ request' = [request EXCEPT ![t] = NoRequest]
  /\ tab' = [tab EXCEPT ![t] =
       CASE request[t].kind = "logout" -> Out
         [] @.page = "loading" -> [page |-> "stuck"]
         [] OTHER -> @]
  /\ UNCHANGED <<world, clock, accounts, sessions, cookie, signed, ended>>

Tick == /\ clock < LastTime
        /\ network = "prompt" => \A t \in Tabs : request[t] = NoRequest
        /\ clock' = clock + 1
        /\ UNCHANGED <<world, accounts, sessions, cookie, tab, request, signed, ended>>

Client(t) == \/ bootstrapSession(t) \/ tryRefresh(t) \/ Reload(t)
             \/ SubmitLogin(t) \/ SubmitLogout(t) \/ SubmitChange(t) \/ SubmitReset(t)

Server(t) == \/ ReadRefresh(t) \/ SwapToken(t) \/ ReloadSession(t) \/ Revoke(t)
             \/ VerifyPassword(t) \/ changePassword(t) \/ DeleteExpired(t) \/ startSession(t) \/ logout(t)
             \/ ReadLink(t) \/ resetPassword(t)

Next == \/ \E t \in Tabs : Client(t) \/ Server(t) \/ forgotPassword(t) \/ Receive(t) \/ Lose(t)
        \/ Tick

(* The API answers what it has received, and a page that opens asks who is *)
(* signed in.  Nobody has to sign in, and time need not pass.              *)
Fairness == \A t \in Tabs : WF_vars(Server(t)) /\ WF_vars(Receive(t)) /\ WF_vars(bootstrapSession(t))

Spec == Init /\ [][Next]_vars /\ Fairness

-----------------------------------------------------------------------------
(* Properties.                                                             *)

Token == [number : {0}] \cup
         [number : 1..MaxTokens, session : 1..MaxTokens, expiresAt : 0..(LastTime + RefreshLife)]
Access == [page : {"in"}, session : 0..MaxTokens, expiresAt : 0..(LastTime + AccessLife)]

TypeOK ==
  /\ clock \in 0..LastTime /\ password \in 1..MaxPasswords /\ signed \in 0..MaxTokens
  /\ link = NoLink \/ link \in [number : 1..links, expiresAt : Nat]
  /\ links \in 0..MaxLinks
  /\ Live \subseteq 1..signed
  /\ \A s \in Live : sessions[s] \in [token : 1..signed, previous : 0..signed, rotatedAt : Nat, expiresAt : Nat, provedBy : 1..password]
  /\ cookie \in [Browsers -> Token]
  /\ tab \in [Tabs -> Access \cup [page : {"loading", "stuck", "out"}]]
  /\ DOMAIN request = Tabs
  /\ DOMAIN ended \subseteq 1..signed

(* Two tabs that refresh at once do not sign each other out: a refresh is  *)
(* refused only when the session it names has expired or was ended on      *)
(* purpose, if answers come promptly (AuthService.refresh).  With three    *)
(* tabs two of them can replace the token twice before the third's first   *)
(* one arrives, and it is taken for a copy.                                *)
RefusedOnlyWhenEnded == \A t \in Tabs :
  (network = "prompt" /\ At(t, "refresh", "answered") /\ request[t].status = "refused") =>
    LET token == request[t].presented IN
    \/ token = NoToken
    \/ token.expiresAt <= clock
    \/ token.session \in DOMAIN ended /\ ended[token.session].why # "reuse"

(* Changing or resetting the password ends the sessions that the old one   *)
(* opened (AuthService.changePassword, resetPassword).                     *)
NoneOutlivesPassword == \A s \in Live : sessions[s].provedBy = password

(* Sessions open once and never come back (SessionRegister).               *)
Register == INSTANCE SessionRegister WITH
  Sessions <- 1..MaxTokens, open <- Live, closed <- DOMAIN ended, password <- password
ImplementsRegister == Register!Spec

(* A page that opens ends up signed in or at the sign-in page              *)
(* (AuthProvider): isLoading becomes false if no answer is lost.           *)
LoadingEnds == \A t \in Tabs : (network = "prompt" /\ tab[t].page = "loading") ~> (tab[t].page \in {"in", "out"})
=============================================================================
