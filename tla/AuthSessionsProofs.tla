------------------------- MODULE AuthSessionsProofs -------------------------
(***************************************************************************)
(* What holds of AuthSessions for every number of browsers, tabs, tokens,  *)
(* passwords and links, of any lifetimes.                                  *)
(*                                                                         *)
(* Each action is first said in terms of the record it leaves in its tab's *)
(* request; the invariants are then about those records.                   *)
(***************************************************************************)
EXTENDS AuthSessions, TLAPS, FiniteSetTheorems

(* What is passed around.                                                  *)
Given == [number : Nat \ {0}, session : Nat, expiresAt : Nat]
Tokens == {NoToken} \cup Given
AccessTokens == [page : {"in"}, session : Nat, expiresAt : Nat]
Shows == AccessTokens \cup [page : {"loading", "stuck", "out"}]
SessionRows == [token : Nat, previous : Nat, rotatedAt : Nat, expiresAt : Nat, provedBy : Nat]

(* The requests, by what they are about and how far they got.              *)
Kinds == {"refresh", "login", "logout", "change", "reset"}
Renewals == [kind : {"refresh"}, at : {"sent"}, token : Tokens]
              \cup [kind : {"refresh"}, at : {"revoke"}, token : Given]
              \cup [kind : {"refresh"}, at : {"swap", "reload", "revoke"}, token : Given, now : Nat]
Proofs == [kind : {"login"}, at : {"verify", "start", "create"}, password : Nat]
            \cup [kind : {"change"}, at : {"verify", "update", "start", "create"}, password : Nat]
Departures == [kind : {"logout"}, at : {"delete"}, session : Nat]
Recoveries == [kind : {"reset"}, at : {"read", "update"}, link : Nat]
Opening == {"refresh", "login", "change"}
Grants == [kind : Opening, at : {"answered"}, status : {"ok"}, token : Tokens, access : AccessTokens]
            \cup [kind : {"logout", "reset"}, at : {"answered"}, status : {"ok"}, token : {NoToken}, access : AccessTokens]
Refusals == [kind : Kinds, at : {"answered"}, status : {"refused"}, presented : Tokens]
Pending == Renewals \cup Proofs \cup Departures \cup Recoveries
Requests == {NoRequest} \cup Pending \cup Grants \cup Refusals

(* The tabs that may still have a token signed.                            *)
Signing == {t \in Tabs : \/ request[t] \in Pending
                         \/ request[t] = NoRequest /\ tab[t].page = "loading"}

RowsHold ==
  /\ network \in Networks /\ home \in [Tabs -> Browsers]
  /\ clock \in Nat /\ password \in Nat /\ signed \in Nat /\ links \in Nat
  /\ link \in {NoLink} \cup [number : Nat, expiresAt : Nat]
  /\ Live \subseteq 1..signed /\ DOMAIN ended \subseteq 1..signed
  /\ \A s \in Live : sessions[s] \in SessionRows
  /\ cookie \in [Browsers -> Tokens] /\ tab \in [Tabs -> Shows] /\ request \in [Tabs -> Requests]
  /\ \A t \in Tabs : tab[t].page = "loading" => request[t].kind \in {"none", "refresh"}
  /\ signed + Cardinality(Signing) <= MaxTokens

-----------------------------------------------------------------------------
(* Records.                                                                *)

(* What a request holds.                                                   *)
LEMMA RequestFields ==
  ASSUME NEW r \in Requests
  PROVE  /\ r.kind = "none" <=> r = NoRequest
         /\ r.kind \in Kinds \cup {"none"}
         /\ r \in Pending <=> r # NoRequest /\ r.at # "answered"
         /\ (r # NoRequest /\ r.at = "answered") <=> r \in Grants \cup Refusals
         /\ r \in Grants => /\ r.status = "ok" /\ r.kind \in Kinds /\ r.token \in Tokens
                            /\ r.access \in AccessTokens
                            /\ r.kind \notin Opening => r.token = NoToken
         /\ r \in Refusals => r.status = "refused" /\ r.kind \in Kinds /\ r.presented \in Tokens
BY DEF Requests, NoRequest, Pending, Renewals, Proofs, Departures, Recoveries, Grants, Refusals, Kinds, Opening, Given, Tokens

(* What a request that is not answered yet carries,                        *)
LEMMA PendingFields ==
  ASSUME NEW r \in Pending
  PROVE  /\ r \in Requests /\ r # NoRequest /\ r.kind \in Kinds /\ r.at # "answered"
         /\ r.kind = "refresh" => r \in Renewals /\ r.token \in Tokens
         /\ (r.kind = "refresh" /\ r.at # "sent") => r.token \in Given
         /\ (r.kind = "refresh" /\ r.at \in {"swap", "reload"}) => r.now \in Nat
         /\ r.kind \in {"login", "change"} => r \in Proofs /\ r.password \in Nat
         /\ r.kind = "logout" => r \in Departures /\ r.session \in Nat
         /\ r.kind = "reset" => r \in Recoveries /\ r.link \in Nat
BY DEF Requests, NoRequest, Pending, Renewals, Proofs, Departures, Recoveries, Kinds, Tokens

(* A request takes its next step.                                          *)
LEMMA Stepped ==
  ASSUME NEW r \in Pending, NEW step,
         \/ r.kind = "refresh" /\ r.at \in {"swap", "reload"} /\ step \in {"reload", "revoke"}
         \/ r.kind = "refresh" /\ r.at = "sent" /\ r.token \in Given /\ step = "revoke"
         \/ r.kind = "login" /\ step \in {"start", "create"}
         \/ r.kind = "change" /\ step \in {"update", "start", "create"}
         \/ r.kind = "reset" /\ step = "update"
  PROVE  LET new == [r EXCEPT !.at = step] IN
         /\ new \in Pending /\ new.kind = r.kind /\ new.at = step
         /\ r.kind = "refresh" => new.token = r.token
         /\ (r.kind = "refresh" /\ r.at \in {"swap", "reload"}) => new.now = r.now
         /\ r.kind \in {"login", "change"} => new.password = r.password
<1> PICK new : new = [r EXCEPT !.at = step]
  OBVIOUS
<1>1. CASE r \in Renewals
  BY <1>1, PendingFields DEF Renewals, Proofs, Pending, Recoveries, Departures
<1>2. CASE r \in Proofs
  BY <1>2, PendingFields DEF Renewals, Proofs, Pending, Recoveries, Departures
<1>3. CASE r \in Departures
  BY <1>3 DEF Departures
<1>4. CASE r \in Recoveries
  BY <1>4 DEF Recoveries, Pending
<1> QED  BY <1>1, <1>2, <1>3, <1>4 DEF Pending

(* A request is answered.                                                  *)
LEMMA GrantFields ==
  ASSUME NEW kind \in Kinds, NEW token \in Tokens, NEW access \in AccessTokens, kind \in Opening \/ token = NoToken
  PROVE  LET new == [kind |-> kind, at |-> "answered", status |-> "ok", token |-> token, access |-> access] IN
         /\ new \in Grants /\ new \in Requests
         /\ new.kind = kind /\ new.at = "answered" /\ new.status = "ok" /\ new.token = token /\ new.access = access
BY DEF Grants, Requests, Opening, Kinds

(* and a refusal.                                                          *)
LEMMA RefusalFields ==
  ASSUME NEW kind \in Kinds, NEW token \in Tokens
  PROVE  LET new == [kind |-> kind, at |-> "answered", status |-> "refused", presented |-> token] IN
         /\ new \in Refusals /\ new \in Requests
         /\ new.kind = kind /\ new.at = "answered" /\ new.status = "refused" /\ new.presented = token
BY DEF Refusals, Requests

(* The access token of a session,                                          *)
LEMMA Accessing ==
  ASSUME RowsHold, NEW s \in Nat
  PROVE  In(s) \in AccessTokens /\ In(s).session = s /\ In(s).expiresAt = clock + AccessLife /\ In(s).page = "in"
BY AuthAssumption DEF In, AccessTokens, RowsHold

(* its refresh token,                                                      *)
LEMMA Signature ==
  ASSUME RowsHold, NEW s \in Nat
  PROVE  /\ Signed(s) \in Given /\ Signed(s) \in Tokens
         /\ Signed(s).number = signed + 1 /\ Signed(s).session = s /\ Signed(s).expiresAt = clock + RefreshLife
BY AuthAssumption DEF Signed, Given, Tokens, RowsHold

(* the row of a session that opens                                         *)
LEMMA Opened ==
  ASSUME RowsHold, NEW n \in Nat, NEW p \in Nat
  PROVE  /\ NewSession(n, p) \in SessionRows
         /\ NewSession(n, p).token = n /\ NewSession(n, p).previous = 0 /\ NewSession(n, p).provedBy = p
         /\ NewSession(n, p).expiresAt = clock + RefreshLife
BY AuthAssumption DEF NewSession, SessionRows, RowsHold

(* A session's row once its token is replaced.                             *)
Renewed(row, n, old, now, until) ==
  [row EXCEPT !.token = n, !.previous = old, !.rotatedAt = now, !.expiresAt = until]

(* and of one whose token is replaced.                                     *)
LEMMA Swapped ==
  ASSUME RowsHold, NEW s \in Live, NEW token \in Given, NEW now \in Nat
  PROVE  LET row == Renewed(sessions[s], signed + 1, token.number, now, clock + RefreshLife)
         IN  /\ row \in SessionRows /\ row.token = signed + 1 /\ row.previous = token.number
             /\ row.rotatedAt = now /\ row.expiresAt = clock + RefreshLife
             /\ row.provedBy = sessions[s].provedBy
<1> PICK old \in SessionRows : old = sessions[s]
  BY DEF RowsHold
<1>1. RefreshLife \in Nat
  BY AuthAssumption
<1>2. signed + 1 \in Nat /\ token.number \in Nat /\ clock + RefreshLife \in Nat
  BY <1>1 DEF RowsHold, Given
<1> PICK n : n = signed + 1
  OBVIOUS
<1> PICK until : until = clock + RefreshLife
  OBVIOUS
<1> PICK number : number = token.number
  OBVIOUS
<1>3. n \in Nat /\ number \in Nat /\ until \in Nat
  BY <1>2
<1>4. LET row == Renewed(old, n, number, now, until)
      IN  /\ row \in SessionRows /\ row.token = n /\ row.previous = number
          /\ row.rotatedAt = now /\ row.expiresAt = until
          /\ row.provedBy = old.provedBy
  BY <1>3 DEF Renewed, SessionRows
<1> QED  BY <1>4
-----------------------------------------------------------------------------
(* The steps of the API, by what they leave in the request.                *)

(* A tab's request is answered, or goes on.                                *)
Moves(t, r) == /\ request[t] \in Pending /\ r \in Requests /\ r.kind = request[t].kind
               /\ request' = [request EXCEPT ![t] = r]
Refused(r, token) == r \in Refusals /\ r.presented = token
Granted(r, token, s) == r \in Grants /\ r.token = token /\ r.access = In(s)

(* The decision about a token that is not the current one.                 *)
Decided(token, now, r) ==
  IF JustRotated(sessions[token.session], token.number, now)
    THEN Granted(r, NoToken, token.session)
    ELSE r \in Pending /\ r.at = "revoke" /\ r.token = token

(* A request that proceeds to its next step,                               *)
LEMMA Proceeding ==
  ASSUME RowsHold, NEW t \in Tabs, NEW was \in Pending, was = request[t], NEW step, Proceed(t, step),
         \/ was.kind = "refresh" /\ was.at \in {"swap", "reload"} /\ step \in {"reload", "revoke"}
         \/ was.kind = "refresh" /\ was.at = "sent" /\ was.token \in Given /\ step = "revoke"
         \/ was.kind = "login" /\ step \in {"start", "create"}
         \/ was.kind = "change" /\ step \in {"update", "start", "create"}
         \/ was.kind = "reset" /\ step = "update"
  PROVE  \E r \in Pending :
           /\ Moves(t, r) /\ r.at = step
           /\ was.kind = "refresh" => r.token = was.token
           /\ (was.kind = "refresh" /\ was.at \in {"swap", "reload"}) => r.now = was.now
           /\ was.kind \in {"login", "change"} => r.password = was.password
<1> PICK r : r = [was EXCEPT !.at = step]
  OBVIOUS
<1>1. /\ r \in Pending /\ r.kind = was.kind /\ r.at = step
      /\ was.kind = "refresh" => r.token = was.token
      /\ (was.kind = "refresh" /\ was.at \in {"swap", "reload"}) => r.now = was.now
      /\ was.kind \in {"login", "change"} => r.password = was.password
  BY Stepped
<1>2. request' = [request EXCEPT ![t] = r]
  BY DEF RowsHold, Proceed
<1> QED  BY <1>1, <1>2 DEF Moves, Requests

(* is granted                                                              *)
LEMMA Answering ==
  ASSUME RowsHold, NEW t \in Tabs, NEW was \in Pending, was = request[t],
         NEW token \in Tokens, was.kind \in Opening \/ token = NoToken, NEW s \in Nat, Answer(t, "ok", token, s)
  PROVE  \E r \in Requests : Moves(t, r) /\ Granted(r, token, s)
<1> PICK access \in AccessTokens : access = In(s)
  BY Accessing
<1> PICK kind \in Kinds : kind = was.kind
  BY PendingFields
<1> PICK r : r = [kind |-> kind, at |-> "answered", status |-> "ok", token |-> token, access |-> access]
  OBVIOUS
<1>1. r \in Grants /\ r \in Requests /\ r.kind = kind /\ r.token = token /\ r.access = access
  BY GrantFields
<1>2. request' = [request EXCEPT ![t] = r]
  BY DEF RowsHold, Answer
<1> QED  BY <1>1, <1>2 DEF Moves, Granted

(* or refused, is a request.                                               *)
LEMMA Refusing ==
  ASSUME RowsHold, NEW t \in Tabs, NEW was \in Pending, was = request[t], Refuse(t)
  PROVE  \E r \in Requests : Moves(t, r) /\ Refused(r, IF was.kind = "refresh" THEN was.token ELSE NoToken)
<1> PICK token \in Tokens : token = IF was.kind = "refresh" THEN was.token ELSE NoToken
  BY PendingFields DEF Tokens
<1> PICK kind \in Kinds : kind = was.kind
  BY PendingFields
<1> PICK r : r = [kind |-> kind, at |-> "answered", status |-> "refused", presented |-> token]
  OBVIOUS
<1>1. r \in Refusals /\ r \in Requests /\ r.kind = kind /\ r.presented = token
  BY RefusalFields
<1>2. request' = [request EXCEPT ![t] = r]
  BY DEF RowsHold, Refuse
<1> QED  BY <1>1, <1>2 DEF Moves, Refused

(* What a request that is at a step is.                                    *)
LEMMA Arrived ==
  ASSUME RowsHold, NEW t \in Tabs, NEW kind \in Kinds, NEW step, step # "answered", At(t, kind, step)
  PROVE  \E was \in Pending : was = request[t] /\ was.kind = kind /\ was.at = step
<1> PICK was \in Requests : was = request[t]
  BY DEF RowsHold
<1>1. was.kind = kind /\ was.at = step
  BY DEF At
<1>2. was # NoRequest
  BY <1>1 DEF NoRequest, Kinds
<1> QED  BY <1>1, <1>2, RequestFields

(* What becomes of a token that is not the current one.                    *)
LEMMA Deciding ==
  ASSUME RowsHold, NEW t \in Tabs, NEW was \in Pending, was = request[t], was.kind = "refresh",
         was.at \in {"sent", "reload"}, was.token \in Given, NEW now, Decide(t, now)
  PROVE  \E r \in Requests : Moves(t, r) /\ Decided(was.token, now, r)
<1>1. CASE JustRotated(sessions[was.token.session], was.token.number, now)
  <2>1. Answer(t, "ok", NoToken, was.token.session)
    BY <1>1 DEF Decide
  <2>2. NoToken \in Tokens /\ was.token.session \in Nat
    BY DEF Tokens, Given
  <2> QED  BY <1>1, <2>1, <2>2, Answering DEF Decided
<1>2. CASE ~ JustRotated(sessions[was.token.session], was.token.number, now)
  <2>1. Proceed(t, "revoke")
    BY <1>2 DEF Decide
  <2>2. \E r \in Pending : Moves(t, r) /\ r.at = "revoke" /\ r.token = was.token
    BY <2>1, Proceeding
  <2> QED  BY <1>2, <2>2 DEF Decided, Requests
<1> QED  BY <1>1, <1>2

(* What a renewal is refused for.                                          *)
Invalid(token) == \/ token = NoToken
                  \/ token.expiresAt <= clock
                  \/ token.session \notin Live
                  \/ sessions[token.session].expiresAt <= clock

(* What each step of the API does to the request: the first read,          *)
LEMMA ReadRefreshDoes ==
  ASSUME RowsHold, NEW t \in Tabs, ReadRefresh(t)
  PROVE  \E was \in Pending, r \in Requests :
           /\ was = request[t] /\ was.kind = "refresh" /\ was.at = "sent" /\ was.token \in Tokens /\ Moves(t, r)
           /\ \/ Invalid(was.token) /\ Refused(r, was.token)
              \/ /\ ~ Invalid(was.token) /\ was.token \in Given /\ sessions[was.token.session].token = was.token.number
                 /\ r \in Pending /\ r.at = "swap" /\ r.token = was.token /\ r.now = clock
              \/ /\ ~ Invalid(was.token) /\ was.token \in Given /\ sessions[was.token.session].token # was.token.number
                 /\ Decided(was.token, clock, r)
<1>1. At(t, "refresh", "sent")
  BY DEF ReadRefresh
<1> PICK was \in Pending : was = request[t] /\ was.kind = "refresh" /\ was.at = "sent"
  BY <1>1, Arrived DEF Kinds
<1>2. was.token \in Tokens
  BY PendingFields
<1>3. CASE Invalid(was.token)
  <2>1. Refuse(t)
    BY <1>3 DEF ReadRefresh, Invalid
  <2>2. \E r \in Requests : Moves(t, r) /\ Refused(r, was.token)
    BY <2>1, Refusing
  <2> QED  BY <1>2, <1>3, <2>2
<1>4. CASE ~ Invalid(was.token) /\ sessions[was.token.session].token = was.token.number
  <2>1. was.token \in Given /\ clock \in Nat
    BY <1>2, <1>4 DEF Invalid, Tokens, RowsHold
  <2> PICK r : r = [kind |-> "refresh", at |-> "swap", token |-> was.token, now |-> clock]
    OBVIOUS
  <2>2. /\ r \in Pending /\ r.kind = "refresh" /\ r.at = "swap" /\ r.token = was.token /\ r.now = clock
    BY <2>1 DEF Pending, Renewals
  <2>3. request' = [request EXCEPT ![t] = r]
    BY <1>4 DEF ReadRefresh, Invalid
  <2> QED  BY <1>2, <1>4, <2>1, <2>2, <2>3 DEF Moves, Requests
<1>5. CASE ~ Invalid(was.token) /\ sessions[was.token.session].token # was.token.number
  <2>1. was.token \in Given /\ Decide(t, clock)
    BY <1>2, <1>5 DEF Invalid, Tokens, ReadRefresh
  <2>2. \E r \in Requests : Moves(t, r) /\ Decided(was.token, clock, r)
    BY <2>1, Deciding
  <2> QED  BY <1>2, <1>5, <2>1, <2>2
<1> QED  BY <1>3, <1>4, <1>5

(* the swap,                                                               *)
LEMMA SwapTokenDoes ==
  ASSUME RowsHold, NEW t \in Tabs, SwapToken(t)
  PROVE  \E was \in Pending, r \in Requests :
           /\ was = request[t] /\ was.kind = "refresh" /\ was.at = "swap" /\ was.token \in Given /\ was.now \in Nat
           /\ Moves(t, r)
           /\ \/ /\ Swappable(was.token) /\ signed' = signed + 1
                 /\ sessions' = [sessions EXCEPT ![was.token.session] =
                                   Renewed(sessions[was.token.session], signed + 1, was.token.number, was.now,
                                           clock + RefreshLife)]
                 /\ Granted(r, Signed(was.token.session), was.token.session)
              \/ /\ ~ Swappable(was.token) /\ UNCHANGED <<sessions, signed>>
                 /\ r \in Pending /\ r.at = "reload" /\ r.token = was.token /\ r.now = was.now
<1>1. At(t, "refresh", "swap")
  BY DEF SwapToken
<1> PICK was \in Pending : was = request[t] /\ was.kind = "refresh" /\ was.at = "swap"
  BY <1>1, Arrived DEF Kinds
<1>2. was.token \in Given /\ was.now \in Nat /\ was.token.session \in Nat
  BY PendingFields DEF Given
<1>3. CASE Swappable(was.token)
  <2>1. /\ Answer(t, "ok", Signed(was.token.session), was.token.session) /\ signed' = signed + 1
        /\ sessions' = [sessions EXCEPT ![was.token.session] =
                                   Renewed(sessions[was.token.session], signed + 1, was.token.number, was.now,
                                           clock + RefreshLife)]
    BY <1>3 DEF SwapToken, Sign, Renewed
  <2> PICK token \in Tokens : token = Signed(was.token.session)
    BY <1>2, Signature
  <2>2. \E r \in Requests : Moves(t, r) /\ Granted(r, token, was.token.session)
    BY <1>2, <2>1, Answering DEF Opening
  <2> QED  BY <1>2, <1>3, <2>1, <2>2
<1>4. CASE ~ Swappable(was.token)
  <2>1. Proceed(t, "reload") /\ UNCHANGED <<sessions, signed>>
    BY <1>4 DEF SwapToken
  <2>2. \E r \in Pending : Moves(t, r) /\ r.at = "reload" /\ r.token = was.token /\ r.now = was.now
    BY <2>1, Proceeding
  <2> QED  BY <1>2, <1>4, <2>1, <2>2 DEF Requests
<1> QED  BY <1>3, <1>4

(* the second read,                                                        *)
LEMMA ReloadSessionDoes ==
  ASSUME RowsHold, NEW t \in Tabs, ReloadSession(t)
  PROVE  \E was \in Pending, r \in Requests :
           /\ was = request[t] /\ was.kind = "refresh" /\ was.at = "reload" /\ was.token \in Given /\ was.now \in Nat
           /\ Moves(t, r)
           /\ \/ was.token.session \in Live /\ Decided(was.token, was.now, r)
              \/ was.token.session \notin Live /\ Refused(r, was.token)
<1>1. At(t, "refresh", "reload")
  BY DEF ReloadSession
<1> PICK was \in Pending : was = request[t] /\ was.kind = "refresh" /\ was.at = "reload"
  BY <1>1, Arrived DEF Kinds
<1>2. was.token \in Given /\ was.now \in Nat
  BY PendingFields
<1>3. CASE was.token.session \in Live
  <2>1. Decide(t, was.now)
    BY <1>3 DEF ReloadSession
  <2>2. \E r \in Requests : Moves(t, r) /\ Decided(was.token, was.now, r)
    BY <1>2, <2>1, Deciding
  <2> QED  BY <1>2, <1>3, <2>2
<1>4. CASE was.token.session \notin Live
  <2>1. Refuse(t)
    BY <1>4 DEF ReloadSession
  <2>2. \E r \in Requests : Moves(t, r) /\ Refused(r, was.token)
    BY <2>1, Refusing
  <2> QED  BY <1>2, <1>4, <2>2
<1> QED  BY <1>3, <1>4

(* the revocation,                                                         *)
LEMMA RevokeDoes ==
  ASSUME RowsHold, NEW t \in Tabs, Revoke(t)
  PROVE  \E was \in Pending, r \in Requests :
           /\ was = request[t] /\ was.kind = "refresh" /\ was.at = "revoke" /\ was.token \in Given
           /\ Moves(t, r) /\ Refused(r, was.token) /\ End({was.token.session}, "reuse")
<1>1. At(t, "refresh", "revoke")
  BY DEF Revoke
<1> PICK was \in Pending : was = request[t] /\ was.kind = "refresh" /\ was.at = "revoke"
  BY <1>1, Arrived DEF Kinds
<1>2. was.token \in Given
  BY PendingFields
<1>3. \E r \in Requests : Moves(t, r) /\ Refused(r, was.token)
  BY Refusing DEF Revoke
<1> QED  BY <1>2, <1>3 DEF Revoke

(* the password check,                                                     *)
LEMMA VerifyPasswordDoes ==
  ASSUME RowsHold, NEW t \in Tabs, VerifyPassword(t)
  PROVE  \E was \in Pending, r \in Requests :
           /\ was = request[t] /\ was.kind \in {"login", "change"} /\ was.at = "verify" /\ was.password \in Nat
           /\ Moves(t, r)
           /\ \/ /\ was.password = password /\ r \in Pending /\ r.password = was.password
                 /\ r.at = IF was.kind = "login" THEN "start" ELSE "update"
              \/ was.password # password /\ Refused(r, NoToken)
<1> PICK kind \in {"login", "change"} : At(t, kind, "verify")
  BY DEF VerifyPassword
<1> PICK was \in Pending : was = request[t] /\ was.kind = kind /\ was.at = "verify"
  BY Arrived DEF Kinds
<1>1. was.password \in Nat
  BY PendingFields
<1>2. CASE was.password = password
  <2> PICK step \in {"start", "update"} : step = IF was.kind = "login" THEN "start" ELSE "update"
    OBVIOUS
  <2>1. Proceed(t, step)
    BY <1>2 DEF VerifyPassword
  <2>2. \E r \in Pending : Moves(t, r) /\ r.at = step /\ r.password = was.password
    BY <2>1, Proceeding
  <2> QED  BY <1>1, <1>2, <2>2 DEF Requests
<1>3. CASE was.password # password
  <2>1. Refuse(t)
    BY <1>3 DEF VerifyPassword
  <2>2. \E r \in Requests : Moves(t, r) /\ Refused(r, NoToken)
    BY <2>1, Refusing
  <2> QED  BY <1>1, <1>3, <2>2
<1> QED  BY <1>2, <1>3

(* the new password,                                                       *)
LEMMA ChangePasswordDoes ==
  ASSUME RowsHold, NEW t \in Tabs, changePassword(t)
  PROVE  \E was \in Pending, r \in Pending :
           /\ was = request[t] /\ was.kind = "change" /\ was.at = "update" /\ Moves(t, r)
           /\ r.at = "start" /\ r.password = password + 1 /\ NewPassword
<1>1. At(t, "change", "update")
  BY DEF changePassword
<1> PICK was \in Pending : was = request[t] /\ was.kind = "change" /\ was.at = "update"
  BY <1>1, Arrived DEF Kinds
<1> PICK new \in Nat : new = password + 1
  BY DEF RowsHold
<1> PICK mid : mid = [was EXCEPT !.at = "start"]
  OBVIOUS
<1> PICK r : r = [mid EXCEPT !.password = new]
  OBVIOUS
<1>2. was \in [kind : {"change"}, at : {"update"}, password : Nat]
  BY PendingFields DEF Proofs
<1>3. mid \in [kind : {"change"}, at : {"start"}, password : Nat]
  BY <1>2
<1>4. r \in Pending /\ r.kind = "change" /\ r.at = "start" /\ r.password = new
  BY <1>3 DEF Pending, Proofs
<1>5. request' = [request EXCEPT ![t] = r]
  <2>1. request' = [[request EXCEPT ![t].at = "start"] EXCEPT ![t].password = new]
    BY DEF changePassword
  <2>2. [request EXCEPT ![t].at = "start"] = [request EXCEPT ![t] = mid]
    BY DEF RowsHold
  <2>3. [[request EXCEPT ![t].at = "start"] EXCEPT ![t].password = new] = [request EXCEPT ![t] = r]
    BY <2>2 DEF RowsHold
  <2> QED  BY <2>1, <2>3
<1>6. Moves(t, r) /\ NewPassword /\ r.password = password + 1
  BY <1>4, <1>5 DEF Moves, Requests, changePassword
<1> QED  BY <1>4, <1>6

(* the sweep of expired rows,                                              *)
LEMMA DeleteExpiredDoes ==
  ASSUME RowsHold, NEW t \in Tabs, DeleteExpired(t)
  PROVE  \E was \in Pending, r \in Pending :
           /\ was = request[t] /\ was.kind \in {"login", "change"} /\ was.at = "start" /\ was.password \in Nat
           /\ Moves(t, r) /\ r.at = "create" /\ r.password = was.password
           /\ End({s \in Live : sessions[s].expiresAt <= clock}, "expired")
<1> PICK kind \in {"login", "change"} : At(t, kind, "start")
  BY DEF DeleteExpired
<1> PICK was \in Pending : was = request[t] /\ was.kind = kind /\ was.at = "start"
  BY Arrived DEF Kinds
<1>1. was.password \in Nat
  BY PendingFields
<1>2. \E r \in Pending : Moves(t, r) /\ r.at = "create" /\ r.password = was.password
  BY Proceeding DEF DeleteExpired
<1> QED  BY <1>1, <1>2 DEF DeleteExpired

(* the new session,                                                        *)
LEMMA StartSessionDoes ==
  ASSUME RowsHold, NEW t \in Tabs, startSession(t)
  PROVE  \E was \in Pending, r \in Requests :
           /\ was = request[t] /\ was.kind \in {"login", "change"} /\ was.at = "create" /\ was.password \in Nat
           /\ Moves(t, r) /\ Granted(r, Signed(signed + 1), signed + 1)
           /\ sessions' = [x \in Live \cup {signed + 1} |->
                             IF x = signed + 1 THEN NewSession(signed + 1, was.password) ELSE sessions[x]]
           /\ signed' = signed + 1
<1> PICK kind \in {"login", "change"} : At(t, kind, "create")
  BY DEF startSession, sessionId
<1> PICK was \in Pending : was = request[t] /\ was.kind = kind /\ was.at = "create"
  BY Arrived DEF Kinds
<1>1. was.password \in Nat
  BY PendingFields
<1> PICK s \in Nat : s = signed + 1
  BY DEF RowsHold
<1> PICK token \in Tokens : token = Signed(s)
  BY Signature
<1>2. Answer(t, "ok", token, s)
  BY DEF startSession, sessionId
<1>3. \E r \in Requests : Moves(t, r) /\ Granted(r, token, s)
  BY <1>2, Answering DEF Opening
<1> QED  BY <1>1, <1>3 DEF startSession, sessionId, Sign

(* signing out                                                             *)
LEMMA LogoutDoes ==
  ASSUME RowsHold, NEW t \in Tabs, logout(t)
  PROVE  \E was \in Pending, r \in Requests :
           /\ was = request[t] /\ was.kind = "logout" /\ was.session \in Nat
           /\ Moves(t, r) /\ Granted(r, NoToken, was.session) /\ End({was.session}, "logout")
<1>1. At(t, "logout", "delete")
  BY DEF logout
<1> PICK was \in Pending : was = request[t] /\ was.kind = "logout" /\ was.at = "delete"
  BY <1>1, Arrived DEF Kinds
<1>2. was.session \in Nat /\ NoToken \in Tokens
  BY PendingFields DEF Tokens
<1>3. \E r \in Requests : Moves(t, r) /\ Granted(r, NoToken, was.session)
  BY <1>2, Answering DEF logout
<1> QED  BY <1>2, <1>3 DEF logout

(* and the reset link.                                                     *)
LEMMA ResetDoes ==
  ASSUME RowsHold, NEW t \in Tabs, ReadLink(t) \/ resetPassword(t)
  PROVE  \E was \in Pending, r \in Requests :
           /\ was = request[t] /\ was.kind = "reset" /\ Moves(t, r)
           /\ \/ /\ ReadLink(t) /\ (r \in Pending \/ Refused(r, NoToken))
              \/ /\ resetPassword(t) /\ Granted(r, NoToken, 0) /\ NewPassword
<1>1. CASE ReadLink(t)
  <2>1. At(t, "reset", "read")
    BY <1>1 DEF ReadLink
  <2> PICK was \in Pending : was = request[t] /\ was.kind = "reset" /\ was.at = "read"
    BY <2>1, Arrived DEF Kinds
  <2>2. CASE Proceed(t, "update")
    <3>1. \E r \in Pending : Moves(t, r)
      BY <2>2, Proceeding
    <3> QED  BY <1>1, <3>1 DEF Requests
  <2>3. CASE Refuse(t)
    <3>1. \E r \in Requests : Moves(t, r) /\ Refused(r, NoToken)
      BY <2>3, Refusing
    <3> QED  BY <1>1, <3>1
  <2> QED  BY <1>1, <2>2, <2>3 DEF ReadLink
<1>2. CASE resetPassword(t)
  <2>1. At(t, "reset", "update")
    BY <1>2 DEF resetPassword
  <2> PICK was \in Pending : was = request[t] /\ was.kind = "reset" /\ was.at = "update"
    BY <2>1, Arrived DEF Kinds
  <2>2. NoToken \in Tokens /\ 0 \in Nat
    BY DEF Tokens
  <2>3. \E r \in Requests : Moves(t, r) /\ Granted(r, NoToken, 0)
    BY <1>2, <2>2, Answering DEF resetPassword
  <2> QED  BY <1>2, <2>3 DEF resetPassword
<1> QED  BY <1>1, <1>2
-----------------------------------------------------------------------------
(* Types, and room for the tokens that are under way.                      *)

(* Ending sessions.                                                        *)
LEMMA Ending ==
  ASSUME NEW S, NEW why, End(S, why)
  PROVE  /\ Live' = Live \ S /\ \A s \in Live' : sessions'[s] = sessions[s]
         /\ DOMAIN ended' = DOMAIN ended \cup (S \cap Live)
         /\ \A s \in DOMAIN ended' : \/ s \in DOMAIN ended /\ ended'[s] = ended[s]
                                     \/ s \notin DOMAIN ended /\ s \in S /\ ended'[s].why = why
BY DEF End, Live

(* Those who may yet sign a token can be counted.                          *)
LEMMA SigningIsFinite ==
  /\ IsFiniteSet(Signing) /\ Cardinality(Signing) \in Nat
  /\ \A S \in SUBSET Signing : IsFiniteSet(S) /\ Cardinality(S) \in Nat /\ Cardinality(S) <= Cardinality(Signing)
BY FS_Subset, FS_CardinalityType, AuthAssumption DEF Signing

(* A step of the API signs a token at most, and then answers.              *)
LEMMA RoomToMove ==
  ASSUME RowsHold, NEW t \in Tabs, NEW r, Moves(t, r), UNCHANGED tab,
         \/ UNCHANGED signed
         \/ signed' = signed + 1 /\ r \notin Pending
  PROVE  signed' + Cardinality(Signing') <= MaxTokens
<1>1. r # NoRequest /\ request[t] \in Pending
  BY RequestFields, PendingFields DEF Moves, NoRequest, Kinds
<1>2. t \in Signing
  BY <1>1 DEF Signing
<1>3. request'[t] = r /\ \A u \in Tabs \ {t} : request'[u] = request[u]
  BY DEF RowsHold, Moves
<1>4. Signing' \subseteq Signing
  BY <1>2, <1>3 DEF Signing
<1>5. CASE UNCHANGED signed
  <2>1. Cardinality(Signing') <= Cardinality(Signing) /\ Cardinality(Signing') \in Nat
    BY <1>4, SigningIsFinite
  <2> QED  BY <1>5, <2>1, SigningIsFinite, AuthAssumption DEF RowsHold
<1>6. CASE signed' = signed + 1 /\ r \notin Pending
  <2>1. t \notin Signing'
    BY <1>1, <1>3, <1>6 DEF Signing
  <2>2. Signing' \subseteq Signing \ {t} /\ Signing \ {t} \subseteq Signing
    BY <1>4, <2>1
  <2>3. Cardinality(Signing \ {t}) = Cardinality(Signing) - 1 /\ IsFiniteSet(Signing \ {t})
    BY <1>2, SigningIsFinite, FS_RemoveElement
  <2>4. Cardinality(Signing') <= Cardinality(Signing \ {t}) /\ Cardinality(Signing') \in Nat
    BY <2>2, <2>3, FS_Subset, FS_CardinalityType
  <2> QED  BY <1>6, <2>3, <2>4, SigningIsFinite, AuthAssumption DEF RowsHold
<1> QED  BY <1>5, <1>6

(* A step of the API on one request keeps the rows in order.               *)
LEMMA MovedRows ==
  ASSUME RowsHold, NEW t \in Tabs, NEW r \in Requests, Moves(t, r),
         UNCHANGED <<world, clock, cookie, tab, links>>,
         UNCHANGED signed \/ (signed' = signed + 1 /\ r \notin Pending),
         password' \in Nat, link' \in {NoLink} \cup [number : Nat, expiresAt : Nat],
         Live' \subseteq 1..signed', DOMAIN ended' \subseteq 1..signed',
         \A s \in Live' : sessions'[s] \in SessionRows
  PROVE  RowsHold'
<1>1. request' \in [Tabs -> Requests] /\ request'[t] = r /\ \A u \in Tabs \ {t} : request'[u] = request[u]
  BY DEF RowsHold, Moves
<1>2. signed' + Cardinality(Signing') <= MaxTokens
  BY RoomToMove
<1>3. signed' \in Nat
  BY DEF RowsHold
<1>4. UNCHANGED <<network, home, clock, cookie, tab, links>>
  BY DEF world
<1>5. \A u \in Tabs : tab'[u].page = "loading" => request'[u].kind \in {"none", "refresh"}
  BY <1>1, <1>4 DEF RowsHold, Moves
<1> QED  BY <1>1, <1>2, <1>3, <1>4, <1>5 DEF RowsHold

(* Steps that end sessions, or none.                                       *)
LEMMA EndedRows ==
  ASSUME RowsHold, NEW t \in Tabs, NEW r \in Requests, Moves(t, r),
         UNCHANGED <<world, clock, cookie, tab, links, signed>>,
         password' \in Nat, link' \in {NoLink} \cup [number : Nat, expiresAt : Nat],
         UNCHANGED <<sessions, ended>> \/ \E S, why : End(S, why)
  PROVE  RowsHold'
<1>1. CASE UNCHANGED <<sessions, ended>>
  <2>1. Live' \subseteq 1..signed' /\ DOMAIN ended' \subseteq 1..signed'
        /\ \A s \in Live' : sessions'[s] \in SessionRows
    BY <1>1 DEF RowsHold, Live
  <2> QED  BY <2>1, MovedRows
<1>2. ASSUME NEW S, NEW why, End(S, why)  PROVE RowsHold'
  <2>1. Live' \subseteq 1..signed' /\ DOMAIN ended' \subseteq 1..signed'
    BY <1>2, Ending, ZenonT(60) DEF RowsHold
  <2>2. \A s \in Live' : sessions'[s] \in SessionRows
    BY <1>2, Ending, ZenonT(60) DEF RowsHold
  <2> QED  BY <2>1, <2>2, MovedRows
<1> QED  BY <1>1, <1>2

(* So does the swap,                                                       *)
LEMMA SwapTokenRows ==
  ASSUME RowsHold, NEW t \in Tabs, SwapToken(t)
  PROVE  RowsHold'
<1> PICK was \in Pending, r \in Requests :
           /\ was = request[t] /\ was.kind = "refresh" /\ was.at = "swap" /\ was.token \in Given /\ was.now \in Nat
           /\ Moves(t, r)
           /\ \/ /\ Swappable(was.token) /\ signed' = signed + 1
                 /\ sessions' = [sessions EXCEPT ![was.token.session] =
                                   Renewed(sessions[was.token.session], signed + 1, was.token.number, was.now,
                                           clock + RefreshLife)]
                 /\ Granted(r, Signed(was.token.session), was.token.session)
              \/ /\ ~ Swappable(was.token) /\ UNCHANGED <<sessions, signed>>
                 /\ r \in Pending /\ r.at = "reload" /\ r.token = was.token /\ r.now = was.now
  BY SwapTokenDoes
<1>1. UNCHANGED <<world, clock, cookie, tab, links, password, link, ended>>
  BY DEF SwapToken, accounts
<1>2. password' \in Nat /\ link' \in {NoLink} \cup [number : Nat, expiresAt : Nat]
  BY <1>1 DEF RowsHold
<1>3. CASE Swappable(was.token)
  <2> PICK s \in Live : s = was.token.session
    BY <1>3 DEF Swappable
  <2> PICK row : row = Renewed(sessions[s], signed + 1, was.token.number, was.now, clock + RefreshLife)
    OBVIOUS
  <2>1. row \in SessionRows
    BY Swapped
  <2>2. sessions' = [sessions EXCEPT ![s] = row]
    BY <1>3
  <2>3. Live' = Live /\ \A x \in Live' : sessions'[x] \in SessionRows
    BY <2>1, <2>2 DEF RowsHold, Live
  <2>4. signed' = signed + 1 /\ r \notin Pending
    BY <1>3, RequestFields DEF Granted
  <2>5. Live' \subseteq 1..signed' /\ DOMAIN ended' \subseteq 1..signed'
    BY <1>1, <2>3, <2>4 DEF RowsHold
  <2> QED  BY <1>1, <1>2, <2>3, <2>4, <2>5, MovedRows
<1>4. CASE ~ Swappable(was.token)
  BY <1>1, <1>2, <1>4, EndedRows
<1> QED  BY <1>3, <1>4

(* the new session                                                         *)
LEMMA StartSessionRows ==
  ASSUME RowsHold, NEW t \in Tabs, startSession(t)
  PROVE  RowsHold'
<1> PICK was \in Pending, r \in Requests :
           /\ was = request[t] /\ was.kind \in {"login", "change"} /\ was.at = "create" /\ was.password \in Nat
           /\ Moves(t, r) /\ Granted(r, Signed(signed + 1), signed + 1)
           /\ sessions' = [x \in Live \cup {signed + 1} |->
                             IF x = signed + 1 THEN NewSession(signed + 1, was.password) ELSE sessions[x]]
           /\ signed' = signed + 1
  BY StartSessionDoes
<1>1. UNCHANGED <<world, clock, cookie, tab, links, password, link, ended>>
  BY DEF startSession, sessionId, accounts
<1>2. password' \in Nat /\ link' \in {NoLink} \cup [number : Nat, expiresAt : Nat]
  BY <1>1 DEF RowsHold
<1> PICK s \in Nat : s = signed + 1
  BY DEF RowsHold
<1>3. Live' = Live \cup {s} /\ \A x \in Live' : sessions'[x] = IF x = s THEN NewSession(s, was.password) ELSE sessions[x]
  BY DEF Live
<1>4. NewSession(s, was.password) \in SessionRows
  BY Opened
<1>5. \A x \in Live' : sessions'[x] \in SessionRows
  BY <1>3, <1>4 DEF RowsHold
<1>6. r \notin Pending
  BY RequestFields DEF Granted
<1>7. Live' \subseteq 1..signed' /\ DOMAIN ended' \subseteq 1..signed'
  BY <1>1, <1>3 DEF RowsHold
<1> QED  BY <1>1, <1>2, <1>5, <1>6, <1>7, MovedRows

(* and every step of the API.                                              *)
LEMMA ServerRows ==
  ASSUME RowsHold, NEW t \in Tabs, Server(t)
  PROVE  RowsHold'
<1> DEFINE Rest == UNCHANGED <<world, clock, cookie, tab, links, signed>>
           Kept == UNCHANGED <<sessions, ended>> \/ \E S, why : End(S, why)
<1>1. UNCHANGED <<password, link>> => (password' \in Nat /\ link' \in {NoLink} \cup [number : Nat, expiresAt : Nat])
  BY DEF RowsHold
<1>2. NewPassword => /\ password' \in Nat /\ link' \in {NoLink} \cup [number : Nat, expiresAt : Nat]
                     /\ \E S, why : End(S, why)
  BY DEF RowsHold, NewPassword
<1>3. CASE ReadRefresh(t)
  <2>1. Rest /\ Kept /\ UNCHANGED <<password, link>>
    BY <1>3 DEF ReadRefresh, accounts
  <2> QED  BY <1>1, <1>3, <2>1, ReadRefreshDoes, EndedRows
<1>4. CASE ReloadSession(t)
  <2>1. Rest /\ Kept /\ UNCHANGED <<password, link>>
    BY <1>4 DEF ReloadSession, accounts
  <2> QED  BY <1>1, <1>4, <2>1, ReloadSessionDoes, EndedRows
<1>5. CASE Revoke(t)
  <2>1. Rest /\ Kept /\ UNCHANGED <<password, link>>
    BY <1>5 DEF Revoke, accounts
  <2> QED  BY <1>1, <1>5, <2>1, RevokeDoes, EndedRows
<1>6. CASE VerifyPassword(t)
  <2>1. Rest /\ Kept /\ UNCHANGED <<password, link>>
    BY <1>6 DEF VerifyPassword, accounts
  <2> QED  BY <1>1, <1>6, <2>1, VerifyPasswordDoes, EndedRows
<1>7. CASE changePassword(t)
  <2>1. Rest
    BY <1>7 DEF changePassword
  <2> QED  BY <1>2, <1>7, <2>1, ChangePasswordDoes, EndedRows DEF Requests
<1>8. CASE DeleteExpired(t)
  <2>1. Rest /\ Kept /\ UNCHANGED <<password, link>>
    BY <1>8 DEF DeleteExpired, accounts
  <2> QED  BY <1>1, <1>8, <2>1, DeleteExpiredDoes, EndedRows DEF Requests
<1>9. CASE logout(t)
  <2>1. Rest /\ Kept /\ UNCHANGED <<password, link>>
    BY <1>9 DEF logout, accounts
  <2> QED  BY <1>1, <1>9, <2>1, LogoutDoes, EndedRows
<1>10. CASE ReadLink(t)
  <2>1. Rest /\ Kept /\ UNCHANGED <<password, link>>
    BY <1>10 DEF ReadLink, accounts
  <2> QED  BY <1>1, <1>10, <2>1, ResetDoes, EndedRows
<1>11. CASE resetPassword(t)
  <2>1. Rest /\ NewPassword
    BY <1>11 DEF resetPassword
  <2> QED  BY <1>2, <1>11, <2>1, ResetDoes, EndedRows
<1> QED  BY <1>3, <1>4, <1>5, <1>6, <1>7, <1>8, <1>9, <1>10, <1>11, SwapTokenRows, StartSessionRows DEF Server

(* The tabs' steps leave the rows to the API.                              *)
LEMMA TabRows ==
  ASSUME RowsHold, UNCHANGED <<world, accounts, sessions, signed, ended>>, clock' \in Nat,
         cookie' \in [Browsers -> Tokens], tab' \in [Tabs -> Shows], request' \in [Tabs -> Requests],
         \A t \in Tabs : tab'[t].page = "loading" => request'[t].kind \in {"none", "refresh"},
         signed + Cardinality(Signing') <= MaxTokens
  PROVE  RowsHold'
<1>1. UNCHANGED <<network, home, password, link, links, sessions, signed, ended>>
  BY DEF world, accounts
<1> QED  BY <1>1 DEF RowsHold, Live

(* An ask leaves room for itself.                                          *)
LEMMA RoomToAsk ==
  ASSUME RowsHold, NEW t \in Tabs, Signing' \subseteq UnderWay \cup {t}, signed + Cardinality(UnderWay) < MaxTokens
  PROVE  signed + Cardinality(Signing') <= MaxTokens
<1>1. IsFiniteSet(UnderWay)
  BY FS_Subset, AuthAssumption DEF UnderWay
<1>2. IsFiniteSet(UnderWay \cup {t}) /\ Cardinality(UnderWay) \in Nat
      /\ Cardinality(UnderWay \cup {t}) <= Cardinality(UnderWay) + 1 /\ Cardinality(UnderWay \cup {t}) \in Nat
  BY <1>1, FS_AddElement, FS_CardinalityType
<1>3. Cardinality(Signing') <= Cardinality(UnderWay \cup {t}) /\ Cardinality(Signing') \in Nat
  BY <1>2, FS_Subset, FS_CardinalityType
<1> QED  BY <1>2, <1>3, AuthAssumption DEF RowsHold

(* Fewer who may sign leave the room that there was.                       *)
LEMMA RoomStays ==
  ASSUME RowsHold, Signing' \subseteq Signing
  PROVE  signed + Cardinality(Signing') <= MaxTokens
<1>1. Cardinality(Signing') <= Cardinality(Signing) /\ Cardinality(Signing') \in Nat
  BY SigningIsFinite
<1> QED  BY <1>1, SigningIsFinite, AuthAssumption DEF RowsHold

(* What a tab asks for.                                                    *)
Asked(t, r) ==
  \/ /\ r.kind = "refresh" /\ r.at = "sent" /\ r.token = cookie[home[t]]
     /\ tab[t].page = "loading" \/ Expired(t)
  \/ /\ r.kind = "login" /\ r.at = "verify" /\ r.password = password /\ tab[t].page = "out"
  \/ /\ r.kind = "logout" /\ r.session = tab[t].session /\ tab[t].page = "in" /\ ~ Expired(t)
  \/ /\ r.kind = "change" /\ r.at = "verify" /\ r.password = password /\ tab[t].page = "in" /\ ~ Expired(t)
  \/ /\ r.kind = "reset" /\ tab[t].page = "out"

(* What a tab sends.                                                       *)
LEMMA Sending ==
  ASSUME RowsHold, NEW t \in Tabs,
         bootstrapSession(t) \/ tryRefresh(t) \/ SubmitLogin(t) \/ SubmitLogout(t) \/ SubmitChange(t) \/ SubmitReset(t)
  PROVE  \E r \in Pending :
           /\ Send(t, r) /\ Asked(t, r) /\ request[t] = NoRequest
           /\ r.kind = "refresh" \/ Ask(t, r.kind)
           /\ tab[t].page = "loading" \/ signed + Cardinality(UnderWay) < MaxTokens
<1>1. CASE bootstrapSession(t) \/ tryRefresh(t)
  <2> PICK r : r = Refresh(t)
    OBVIOUS
  <2>1. cookie[home[t]] \in Tokens
    BY DEF RowsHold
  <2>2. r \in Pending /\ r.kind = "refresh" /\ r.at = "sent" /\ r.token = cookie[home[t]]
    BY <2>1 DEF Refresh, Pending, Renewals
  <2> QED  BY <1>1, <2>2 DEF bootstrapSession, tryRefresh, Asked
<1>2. CASE SubmitLogin(t)
  <2> PICK r : r = [kind |-> "login", at |-> "verify", password |-> password]
    OBVIOUS
  <2>1. r \in Pending /\ r.kind = "login" /\ r.at = "verify" /\ r.password = password
    BY DEF RowsHold, Pending, Proofs
  <2> QED  BY <1>2, <2>1 DEF SubmitLogin, Asked, Ask
<1>3. CASE SubmitLogout(t)
  <2> PICK r : r = [kind |-> "logout", at |-> "delete", session |-> tab[t].session]
    OBVIOUS
  <2>1. tab[t].session \in Nat
    BY <1>3 DEF SubmitLogout, RowsHold, Shows, AccessTokens
  <2>2. r \in Pending /\ r.kind = "logout" /\ r.session = tab[t].session
    BY <2>1 DEF Pending, Departures
  <2> QED  BY <1>3, <2>2 DEF SubmitLogout, Asked, Ask
<1>4. CASE SubmitChange(t)
  <2> PICK r : r = [kind |-> "change", at |-> "verify", password |-> password]
    OBVIOUS
  <2>1. r \in Pending /\ r.kind = "change" /\ r.at = "verify" /\ r.password = password
    BY DEF RowsHold, Pending, Proofs
  <2> QED  BY <1>4, <2>1 DEF SubmitChange, Asked, Ask
<1>5. CASE SubmitReset(t)
  <2> PICK l \in 1..links : Send(t, [kind |-> "reset", at |-> "read", link |-> l])
    BY <1>5 DEF SubmitReset
  <2> PICK r : r = [kind |-> "reset", at |-> "read", link |-> l]
    OBVIOUS
  <2>1. r \in Pending /\ r.kind = "reset"
    BY DEF RowsHold, Pending, Recoveries
  <2> QED  BY <1>5, <2>1 DEF SubmitReset, Asked, Ask
<1> QED  BY <1>1, <1>2, <1>3, <1>4, <1>5

(* Tabs that ask keep the rows in order,                                   *)
LEMMA ClientRows ==
  ASSUME RowsHold, NEW t \in Tabs, Client(t)
  PROVE  RowsHold'
<1>1. CASE Reload(t)
  <2>1. /\ tab' = [tab EXCEPT ![t] = [page |-> "loading"]] /\ request[t] = NoRequest
        /\ UNCHANGED <<world, clock, accounts, sessions, cookie, request, signed, ended>>
        /\ signed + Cardinality(UnderWay) < MaxTokens
    BY <1>1 DEF Reload, Ask
  <2>2. tab' \in [Tabs -> Shows] /\ \A u \in Tabs \ {t} : tab'[u] = tab[u]
    BY <2>1 DEF RowsHold, Shows
  <2>3. Signing' \subseteq UnderWay \cup {t}
    BY <2>1, <2>2, PendingFields DEF Signing, UnderWay
  <2>4. signed + Cardinality(Signing') <= MaxTokens
    BY <2>1, <2>3, RoomToAsk
  <2>5. \A u \in Tabs : tab'[u].page = "loading" => request'[u].kind \in {"none", "refresh"}
    BY <2>1, <2>2 DEF RowsHold, NoRequest
  <2> QED  BY <2>1, <2>2, <2>4, <2>5, TabRows DEF RowsHold
<1>2. CASE ~ Reload(t)
  <2> PICK r \in Pending : /\ Send(t, r) /\ Asked(t, r) /\ request[t] = NoRequest
                           /\ tab[t].page = "loading" \/ signed + Cardinality(UnderWay) < MaxTokens
    BY <1>2, Sending DEF Client
  <2>1. /\ request' = [request EXCEPT ![t] = r]
        /\ UNCHANGED <<world, clock, accounts, sessions, cookie, tab, signed, ended>>
    BY DEF Send
  <2>2. request' \in [Tabs -> Requests] /\ request'[t] = r /\ \A u \in Tabs \ {t} : request'[u] = request[u]
    BY <2>1 DEF RowsHold, Requests
  <2>3. tab[t].page = "loading" => r.kind = "refresh"
    BY DEF Asked
  <2>4. \A u \in Tabs : tab'[u].page = "loading" => request'[u].kind \in {"none", "refresh"}
    BY <2>1, <2>2, <2>3 DEF RowsHold
  <2>5. signed + Cardinality(Signing') <= MaxTokens
    <3>1. CASE tab[t].page = "loading"
      <4>1. Signing' \subseteq Signing
        BY <2>1, <2>2, <3>1 DEF Signing
      <4> QED  BY <4>1, RoomStays
    <3>2. CASE signed + Cardinality(UnderWay) < MaxTokens
      <4>1. Signing' \subseteq UnderWay \cup {t}
        BY <2>1, <2>2, PendingFields DEF Signing, UnderWay
      <4> QED  BY <3>2, <4>1, RoomToAsk
    <3> QED  BY <3>1, <3>2
  <2> QED  BY <2>1, <2>2, <2>4, <2>5, TabRows DEF RowsHold
<1> QED  BY <1>1, <1>2

(* An answer arrives: what the tab shows and the cookie it leaves.         *)
LEMMA ReceiveDoes ==
  ASSUME RowsHold, NEW t \in Tabs, Receive(t)
  PROVE  \E answer \in Grants \cup Refusals, show \in Shows, left \in Tokens :
           /\ answer = request[t]
           /\ request' = [request EXCEPT ![t] = NoRequest]
           /\ tab' = [tab EXCEPT ![t] = show] /\ cookie' = [cookie EXCEPT ![home[t]] = left]
           /\ UNCHANGED <<world, clock, accounts, sessions, signed, ended>>
           /\ show = IF answer \in Grants /\ answer.kind \in {"refresh", "login", "change"} THEN answer.access
                     ELSE IF answer.kind \in {"refresh", "logout"} THEN Out ELSE tab[t]
           /\ left = IF answer \in Grants /\ answer.kind = "logout" THEN NoToken
                     ELSE IF answer \in Grants /\ answer.token # NoToken THEN answer.token ELSE cookie[home[t]]
<1> PICK answer \in Requests : answer = request[t]
  BY DEF RowsHold
<1>1. answer # NoRequest /\ answer.at = "answered"
  BY DEF Receive
<1>2. answer \in Grants \cup Refusals
  BY <1>1, RequestFields
<1>3. (answer \in Grants <=> answer.status = "ok") /\ (answer \in Refusals <=> answer.status = "refused")
      /\ answer.kind \in Kinds
  BY <1>2, RequestFields
<1>4. UNCHANGED <<world, clock, accounts, sessions, signed, ended>> /\ request' = [request EXCEPT ![t] = NoRequest]
  BY DEF Receive
<1> PICK show : show = IF answer \in Grants /\ answer.kind \in {"refresh", "login", "change"} THEN answer.access
                       ELSE IF answer.kind \in {"refresh", "logout"} THEN Out ELSE tab[t]
  OBVIOUS
<1> PICK left : left = IF answer \in Grants /\ answer.kind = "logout" THEN NoToken
                       ELSE IF answer \in Grants /\ answer.token # NoToken THEN answer.token ELSE cookie[home[t]]
  OBVIOUS
<1>5. show \in Shows
  BY RequestFields DEF Shows, Out, RowsHold
<1>6. left \in Tokens
  BY RequestFields DEF Tokens, RowsHold
<1>7. Shown(t, answer) = show
  BY <1>2, <1>3 DEF Shown
<1>8. tab' = [tab EXCEPT ![t] = show]
  BY <1>7 DEF Receive
<1>9. cookie' = [cookie EXCEPT ![home[t]] = left]
  <2>1. CASE answer.status = "ok" /\ answer.kind = "logout"
    <3>1. answer.token = NoToken
      BY <1>3, <2>1, RequestFields DEF Opening
    <3> QED  BY <1>3, <2>1, <3>1 DEF Receive
  <2>2. CASE answer.status = "ok" /\ answer.kind # "logout" /\ answer.token # NoToken
    BY <1>3, <2>2 DEF Receive
  <2>3. CASE answer.status # "ok" \/ (answer.kind # "logout" /\ answer.token = NoToken)
    BY <1>3, <2>3 DEF Receive
  <2> QED  BY <2>1, <2>2, <2>3
<1> QED  BY <1>2, <1>4, <1>5, <1>6, <1>8, <1>9

(* What happens to a tab whose request is lost.                            *)
LEMMA LoseDoes ==
  ASSUME RowsHold, NEW t \in Tabs, Lose(t)
  PROVE  \E show \in Shows :
           /\ network = "lossy" /\ request[t] # NoRequest
           /\ request' = [request EXCEPT ![t] = NoRequest] /\ tab' = [tab EXCEPT ![t] = show]
           /\ UNCHANGED <<world, clock, accounts, sessions, cookie, signed, ended>>
           /\ show.page # "loading"
<1> PICK show : show = CASE request[t].kind = "logout" -> Out
                         [] tab[t].page = "loading" -> [page |-> "stuck"]
                         [] OTHER -> tab[t]
  OBVIOUS
<1>1. request[t].kind = "logout" => tab[t].page # "loading"
  BY DEF RowsHold
<1>2. show \in Shows /\ show.page # "loading"
  BY <1>1 DEF Shows, Out, RowsHold
<1>3. tab' = [tab EXCEPT ![t] = show]
  BY DEF Lose, RowsHold
<1> QED  BY <1>2, <1>3 DEF Lose

(* and answers that arrive or are lost,                                    *)
LEMMA OtherRows ==
  ASSUME RowsHold, NEW t \in Tabs, forgotPassword(t) \/ Receive(t) \/ Lose(t)
  PROVE  RowsHold'
<1>1. CASE forgotPassword(t)
  <2>1. /\ UNCHANGED <<network, home, clock, password, sessions, cookie, tab, request, signed, ended>>
        /\ links' = links + 1 /\ link' = [number |-> links + 1, expiresAt |-> clock + RESET_TTL]
    BY <1>1 DEF forgotPassword, world
  <2>2. links + 1 \in Nat /\ clock + RESET_TTL \in Nat
    BY AuthAssumption DEF RowsHold
  <2>3. link' \in [number : Nat, expiresAt : Nat] /\ links' \in Nat
    BY <2>1, <2>2
  <2>4. Signing' = Signing
    BY <2>1 DEF Signing
  <2> QED  BY <2>1, <2>3, <2>4 DEF RowsHold, Live
<1>2. ASSUME NEW show \in Shows, tab' = [tab EXCEPT ![t] = show], show.page # "loading" \/ show = tab[t],
             request' = [request EXCEPT ![t] = NoRequest], show.page # "loading",
             cookie' \in [Browsers -> Tokens], UNCHANGED <<world, clock, accounts, sessions, signed, ended>>
      PROVE  RowsHold'
  <2>1. tab' \in [Tabs -> Shows] /\ tab'[t] = show /\ \A u \in Tabs \ {t} : tab'[u] = tab[u]
    BY <1>2 DEF RowsHold
  <2>2. request' \in [Tabs -> Requests] /\ request'[t] = NoRequest /\ \A u \in Tabs \ {t} : request'[u] = request[u]
    BY <1>2 DEF RowsHold, Requests
  <2>3. NoRequest.kind = "none" /\ NoRequest \notin Pending
    BY PendingFields DEF NoRequest
  <2>4. \A u \in Tabs : tab'[u].page = "loading" => request'[u].kind \in {"none", "refresh"}
    BY <2>1, <2>2, <2>3 DEF RowsHold
  <2>5. Signing' \subseteq Signing
    BY <1>2, <2>1, <2>2, <2>3 DEF Signing
  <2>6. signed + Cardinality(Signing') <= MaxTokens
    BY <2>5, RoomStays
  <2> QED  BY <1>2, <2>1, <2>2, <2>4, <2>6, TabRows DEF RowsHold
<1>3. CASE Receive(t)
  <2> PICK answer \in Grants \cup Refusals, show \in Shows, left \in Tokens :
           /\ answer = request[t]
           /\ request' = [request EXCEPT ![t] = NoRequest]
           /\ tab' = [tab EXCEPT ![t] = show] /\ cookie' = [cookie EXCEPT ![home[t]] = left]
           /\ UNCHANGED <<world, clock, accounts, sessions, signed, ended>>
           /\ show = IF answer \in Grants /\ answer.kind \in {"refresh", "login", "change"} THEN answer.access
                     ELSE IF answer.kind \in {"refresh", "logout"} THEN Out ELSE tab[t]
    BY <1>3, ReceiveDoes
  <2>1. answer.kind \in Kinds
    BY RequestFields DEF Requests
  <2>2. tab[t].page = "loading" => answer.kind = "refresh"
    BY <2>1 DEF RowsHold, Kinds
  <2>3. answer \in Grants => answer.access.page = "in"
    BY RequestFields DEF Requests, AccessTokens
  <2>4. show.page # "loading"
    BY <2>2, <2>3 DEF Out
  <2>5. cookie' \in [Browsers -> Tokens]
    BY DEF RowsHold
  <2> QED  BY <1>2, <2>4, <2>5
<1>4. CASE Lose(t)
  <2>1. UNCHANGED cookie
    BY <1>4 DEF Lose
  <2> QED  BY <1>2, <1>4, <2>1, LoseDoes DEF RowsHold
<1> QED  BY <1>1, <1>3, <1>4

(* and time.                                                               *)
LEMMA TickRows ==
  ASSUME RowsHold, Tick
  PROVE  RowsHold'
<1>1. UNCHANGED <<world, accounts, sessions, cookie, tab, request, signed, ended>> /\ clock' \in Nat
  BY DEF Tick, RowsHold
<1>2. Signing' = Signing
  BY <1>1 DEF Signing
<1> QED  BY <1>1, <1>2, TabRows DEF RowsHold

(* The rows start in order,                                                *)
LEMMA InitialRows == Init => RowsHold
<1> SUFFICES ASSUME Init  PROVE RowsHold
  OBVIOUS
<1> PICK n \in Nat : n = Cardinality(Browsers)
  BY FS_CardinalityType, AuthAssumption
<1>1. Browsers = 1..n /\ Cardinality(Browsers) = n /\ signed = n
  BY AuthAssumption DEF Init
<1>2. /\ network \in Networks /\ home \in [Tabs -> Browsers]
      /\ clock = 0 /\ password = 1 /\ links = 0 /\ link = NoLink
  BY AuthAssumption DEF Init
<1>3. Live = 1..n /\ DOMAIN ended = {}
  BY <1>1 DEF Init, Live
<1>4. \A s \in Live : sessions[s] \in SessionRows
  BY <1>1, <1>2, <1>3, AuthAssumption DEF Init, NewSession, SessionRows
<1>5. cookie \in [Browsers -> Tokens]
  <2>1. \A b \in Browsers : [number |-> b, session |-> b, expiresAt |-> RefreshLife] \in Tokens
    BY <1>1, AuthAssumption DEF Tokens, Given
  <2> QED  BY <2>1 DEF Init
<1>6. /\ tab \in [Tabs -> Shows] /\ request \in [Tabs -> Requests]
      /\ \A t \in Tabs : request[t].kind = "none"
  BY DEF Init, Shows, Requests, NoRequest
<1>7. Signing \subseteq Tabs
  BY DEF Signing
<1>8. Cardinality(Signing) <= Cardinality(Tabs) /\ Cardinality(Tabs) \in Nat
  BY <1>7, FS_Subset, FS_CardinalityType, AuthAssumption
<1>9. signed + Cardinality(Signing) <= MaxTokens
  <2>1. n + Cardinality(Tabs) <= MaxTokens /\ MaxTokens \in Nat
    BY <1>1, AuthAssumption
  <2> PICK c \in Nat : c = Cardinality(Signing)
    BY SigningIsFinite
  <2> PICK d \in Nat : d = Cardinality(Tabs)
    BY <1>8
  <2>2. c <= d /\ n + d <= MaxTokens /\ signed = n
    BY <1>1, <1>8, <2>1
  <2> QED  BY <2>1, <2>2
<1> QED  BY <1>1, <1>2, <1>3, <1>4, <1>5, <1>6, <1>9 DEF RowsHold

(* and stay so.                                                            *)
LEMMA RowsStay ==
  ASSUME RowsHold, [Next]_vars
  PROVE  RowsHold'
<1>1. CASE UNCHANGED vars
  <2>1. /\ UNCHANGED <<network, home, clock, password, link, links>>
        /\ UNCHANGED <<sessions, cookie, tab, request, signed, ended>>
    BY <1>1 DEF vars, world, accounts
  <2>2. Signing' = Signing
    BY <2>1 DEF Signing
  <2> QED  BY <2>1, <2>2 DEF RowsHold, Live
<1> QED  BY <1>1, ServerRows, ClientRows, OtherRows, TickRows DEF Next

(* Rows keep their types, and the tokens that are under way their room.    *)
THEOREM SessionRowsHold == Spec => []RowsHold
BY InitialRows, RowsStay, PTL DEF Spec
-----------------------------------------------------------------------------
(* Sessions, whoever asks: they open, and they end.                        *)

(* A renewal keeps the sessions and what opened them.                      *)
LEMMA SwapKeeps ==
  ASSUME RowsHold, NEW t \in Tabs, SwapToken(t)
  PROVE  /\ Live' = Live /\ UNCHANGED <<ended, password>>
         /\ \A s \in Live : sessions'[s].provedBy = sessions[s].provedBy
<1> PICK was \in Pending :
         /\ was.token \in Given /\ was.now \in Nat
         /\ \/ /\ Swappable(was.token)
               /\ sessions' = [sessions EXCEPT ![was.token.session] =
                                 Renewed(sessions[was.token.session], signed + 1, was.token.number, was.now,
                                         clock + RefreshLife)]
            \/ UNCHANGED sessions
  BY SwapTokenDoes
<1>1. UNCHANGED <<ended, password>>
  BY DEF SwapToken, accounts
<1>2. CASE UNCHANGED sessions
  BY <1>1, <1>2 DEF Live
<1>3. CASE /\ Swappable(was.token)
           /\ sessions' = [sessions EXCEPT ![was.token.session] =
                             Renewed(sessions[was.token.session], signed + 1, was.token.number, was.now,
                                     clock + RefreshLife)]
  <2> PICK s \in Live : s = was.token.session
    BY <1>3 DEF Swappable
  <2> PICK row : row = Renewed(sessions[s], signed + 1, was.token.number, was.now, clock + RefreshLife)
    OBVIOUS
  <2>1. row.provedBy = sessions[s].provedBy
    BY Swapped
  <2>2. sessions' = [sessions EXCEPT ![s] = row]
    BY <1>3
  <2> QED  BY <1>1, <2>1, <2>2 DEF Live
<1> QED  BY <1>2, <1>3

(* What a step may do to the sessions.                                     *)
LEMMA SessionSteps ==
  ASSUME RowsHold, [Next]_vars
  PROVE  \/ /\ Live' = Live /\ UNCHANGED <<ended, password>>
            /\ \A s \in Live : sessions'[s].provedBy = sessions[s].provedBy
         \/ UNCHANGED password /\ \E S, why : End(S, why)
         \/ NewPassword
         \/ \E t \in Tabs : startSession(t)
<1>1. UNCHANGED <<sessions, ended, password>> => /\ Live' = Live /\ UNCHANGED <<ended, password>>
                                                 /\ \A s \in Live : sessions'[s].provedBy = sessions[s].provedBy
  BY DEF Live
<1>2. CASE UNCHANGED vars
  BY <1>1, <1>2 DEF vars, accounts
<1>3. ASSUME NEW t \in Tabs, Client(t) \/ forgotPassword(t) \/ Receive(t) \/ Lose(t)
      PROVE  UNCHANGED <<sessions, ended, password>>
  BY <1>3 DEF Client, bootstrapSession, tryRefresh, Reload, SubmitLogin, SubmitLogout, SubmitChange, SubmitReset,
     Send, forgotPassword, Receive, Lose, accounts
<1>4. CASE Tick
  BY <1>1, <1>4 DEF Tick, accounts
<1>5. ASSUME NEW t \in Tabs, SwapToken(t)
      PROVE  /\ Live' = Live /\ UNCHANGED <<ended, password>>
             /\ \A s \in Live : sessions'[s].provedBy = sessions[s].provedBy
  BY <1>5, SwapKeeps
<1>6. ASSUME NEW t \in Tabs, ReadRefresh(t) \/ ReloadSession(t) \/ VerifyPassword(t) \/ ReadLink(t)
      PROVE  UNCHANGED <<sessions, ended, password>>
  BY <1>6 DEF ReadRefresh, ReloadSession, VerifyPassword, ReadLink, accounts
<1>7. ASSUME NEW t \in Tabs, Revoke(t) \/ DeleteExpired(t) \/ logout(t)
      PROVE  UNCHANGED password /\ \E S, why : End(S, why)
  <2>1. UNCHANGED password
    BY <1>7 DEF Revoke, DeleteExpired, logout, accounts
  <2> QED  BY <1>7, <2>1, RevokeDoes, DeleteExpiredDoes, LogoutDoes
<1>8. ASSUME NEW t \in Tabs, changePassword(t) \/ resetPassword(t)  PROVE NewPassword
  BY <1>8 DEF changePassword, resetPassword
<1>9. ASSUME NEW t \in Tabs, Server(t), ~ startSession(t)
      PROVE  \/ /\ Live' = Live /\ UNCHANGED <<ended, password>>
                /\ \A s \in Live : sessions'[s].provedBy = sessions[s].provedBy
             \/ UNCHANGED password /\ \E S, why : End(S, why)
             \/ NewPassword
  BY <1>1, <1>5, <1>6, <1>7, <1>8, <1>9 DEF Server
<1> QED  BY <1>1, <1>2, <1>3, <1>4, <1>9 DEF Next

(* What opens a session, and which.                                        *)
LEMMA Opens ==
  ASSUME RowsHold, NEW t \in Tabs, startSession(t)
  PROVE  \E s \in 1..MaxTokens :
           /\ s \notin Live /\ s \notin DOMAIN ended /\ Live' = Live \cup {s}
           /\ \A x \in Live : sessions'[x] = sessions[x]
           /\ sessions'[s].provedBy = request[t].password
           /\ request[t].kind \in {"login", "change"} /\ request[t].at = "create"
           /\ UNCHANGED <<ended, password>>
<1> PICK was \in Pending :
           /\ was = request[t] /\ was.kind \in {"login", "change"} /\ was.at = "create" /\ was.password \in Nat
           /\ sessions' = [x \in Live \cup {signed + 1} |->
                             IF x = signed + 1 THEN NewSession(signed + 1, was.password) ELSE sessions[x]]
  BY StartSessionDoes
<1>1. UNCHANGED <<ended, password>>
  BY DEF startSession, sessionId, accounts
<1>2. signed + 1 \in 1..MaxTokens
  <2>1. t \in Signing
    BY DEF Signing
  <2>2. Cardinality(Signing) # 0
    BY <2>1, SigningIsFinite, FS_EmptySet
  <2> QED  BY <2>2, SigningIsFinite, AuthAssumption DEF RowsHold
<1> PICK s \in 1..MaxTokens : s = signed + 1
  BY <1>2
<1>3. s \notin Live /\ s \notin DOMAIN ended
  BY DEF RowsHold
<1>4. NewSession(s, was.password).provedBy = was.password
  BY Opened
<1>5. Live' = Live \cup {s} /\ \A x \in Live : sessions'[x] = sessions[x]
  BY <1>3 DEF Live
<1>6. sessions'[s] = NewSession(s, was.password)
  OBVIOUS
<1> QED  BY <1>1, <1>3, <1>4, <1>5, <1>6

(* Whatever the tabs, the browsers and the network do, the API implements  *)
(* the register: a session opens once, ends once and never comes back, and *)
(* a new password ends them all.                                           *)
THEOREM SessionsAreRegistered == Spec => ImplementsRegister
<1>1. Init => Register!Init
  <2> SUFFICES ASSUME Init  PROVE Register!Init
    OBVIOUS
  <2>1. Live = Browsers /\ DOMAIN ended = {}
    BY DEF Init, Live
  <2>2. Browsers \subseteq 1..MaxTokens
    BY FS_CardinalityType, AuthAssumption
  <2> QED  BY <2>1, <2>2 DEF Register!Init
<1>2. RowsHold /\ [Next]_vars => [Register!Next]_(Register!vars)
  <2> SUFFICES ASSUME RowsHold, [Next]_vars  PROVE [Register!Next]_(Register!vars)
    OBVIOUS
  <2>1. CASE Live' = Live /\ UNCHANGED <<ended, password>>
    BY <2>1 DEF Register!vars
  <2>2. ASSUME UNCHANGED password, NEW S, NEW why, End(S, why)  PROVE [Register!Next]_(Register!vars)
    <3>1. Live' = Live \ S /\ DOMAIN ended' = DOMAIN ended \cup (S \cap Live)
      BY <2>2, Ending
    <3>2. CASE S \cap Live = {}
      <4>1. Live' = Live /\ DOMAIN ended' = DOMAIN ended
        BY <3>1, <3>2
      <4> QED  BY <2>2, <4>1 DEF Register!vars
    <3>3. CASE S \cap Live # {}
      <4>1. Live \subseteq 1..MaxTokens
        BY SigningIsFinite, AuthAssumption DEF RowsHold
      <4> PICK T \in SUBSET (1..MaxTokens) : T = S \cap Live
        BY <4>1
      <4>2. Register!Close(T)
        BY <2>2, <3>1, <3>3 DEF Register!Close
      <4> QED  BY <4>2 DEF Register!Next
    <3> QED  BY <3>2, <3>3
  <2>3. CASE NewPassword
    <3>1. Live' = {} /\ DOMAIN ended' = DOMAIN ended \cup Live
      BY <2>3, Ending DEF NewPassword
    <3>2. password' # password
      BY <2>3 DEF NewPassword, RowsHold
    <3> QED  BY <3>1, <3>2 DEF Register!ChangePassword, Register!Next
  <2>4. ASSUME NEW t \in Tabs, startSession(t)  PROVE [Register!Next]_(Register!vars)
    <3> PICK s \in 1..MaxTokens :
           /\ s \notin Live /\ s \notin DOMAIN ended /\ Live' = Live \cup {s}
           /\ UNCHANGED <<ended, password>>
      BY <2>4, Opens
    <3>1. Register!Open(s)
      BY DEF Register!Open
    <3> QED  BY <3>1 DEF Register!Next
  <2> QED  BY <2>1, <2>2, <2>3, <2>4, SessionSteps
<1> QED  BY <1>1, <1>2, SessionRowsHold, PTL DEF Spec, ImplementsRegister, Register!Spec
-----------------------------------------------------------------------------
(* Passwords, when logins, changes and resets do not overlap.              *)

Verified(r) == r.kind \in {"login", "change"} /\ r.at \in {"start", "create"}

PasswordHolds ==
  /\ \A t, u \in Tabs : (request[t].kind \in Credentials /\ request[u].kind \in Credentials) => t = u
  /\ \A t \in Tabs : Verified(request[t]) => request[t].password = password
  /\ NoneOutlivesPassword

(* One request changes: whether it still is what it was is enough.         *)
LEMMA OneRequest ==
  ASSUME RowsHold, PasswordHolds, NEW t \in Tabs, NEW r \in Requests, request' = [request EXCEPT ![t] = r],
         r.kind \in Credentials => \/ request[t].kind \in Credentials
                                   \/ \A u \in Tabs : request[u].kind \notin Credentials,
         Verified(r) => r.password = password',
         UNCHANGED password \/ request[t].kind \in Credentials,
         NoneOutlivesPassword'
  PROVE  PasswordHolds'
<1>1. request'[t] = r /\ \A u \in Tabs \ {t} : request'[u] = request[u]
  BY DEF RowsHold
<1>2. \A u, v \in Tabs : (request'[u].kind \in Credentials /\ request'[v].kind \in Credentials) => u = v
  BY <1>1 DEF PasswordHolds
<1>3. ASSUME NEW u \in Tabs, Verified(request'[u])  PROVE request'[u].password = password'
  <2>1. CASE u = t
    BY <1>1, <1>3, <2>1
  <2>2. CASE u # t
    <3>1. Verified(request[u]) /\ request[u].password = password /\ request[u].kind \in Credentials
      BY <1>1, <1>3, <2>2 DEF PasswordHolds, Verified, Credentials
    <3>2. UNCHANGED password
      BY <2>2, <3>1 DEF PasswordHolds
    <3> QED  BY <1>1, <2>2, <3>1, <3>2
  <2> QED  BY <2>1, <2>2
<1> QED  BY <1>2, <1>3 DEF PasswordHolds, Verified

(* No session outlives its password if nothing changes,                    *)
LEMMA SameSessions ==
  ASSUME NoneOutlivesPassword, UNCHANGED <<sessions, password>>
  PROVE  NoneOutlivesPassword'
BY DEF NoneOutlivesPassword, Live

(* if sessions end                                                         *)
LEMMA FewerSessions ==
  ASSUME NoneOutlivesPassword, NEW S, NEW why, End(S, why), UNCHANGED password
  PROVE  NoneOutlivesPassword'
<1>1. Live' = Live \ S /\ \A s \in Live' : sessions'[s] = sessions[s]
  BY Ending
<1>2. \A s \in Live' : sessions'[s].provedBy = password'
  BY <1>1 DEF NoneOutlivesPassword
<1> QED  BY <1>2 DEF NoneOutlivesPassword

(* or if all of them do.                                                   *)
LEMMA NoSessions ==
  ASSUME NewPassword
  PROVE  NoneOutlivesPassword'
<1>1. Live' = {}
  BY Ending DEF NewPassword
<1> QED  BY <1>1 DEF NoneOutlivesPassword

(* Passwords hold through the API's steps                                  *)
LEMMA ServerKeepsPasswords ==
  ASSUME RowsHold, PasswordHolds, NEW t \in Tabs, Server(t)
  PROVE  PasswordHolds'
<1> USE DEF Verified
<1>0. ASSUME NEW r \in Requests, Moves(t, r)
      PROVE  /\ request' = [request EXCEPT ![t] = r]
             /\ r.kind \in Credentials => request[t].kind \in Credentials
  BY <1>0 DEF Moves
<1>1. ASSUME NEW r \in Requests, r \in Grants \cup Refusals  PROVE ~ Verified(r)
  BY <1>1, RequestFields
<1>2. CASE ReadRefresh(t) \/ ReloadSession(t) \/ ReadLink(t)
  <2>1. UNCHANGED <<sessions, password>>
    BY <1>2 DEF ReadRefresh, ReloadSession, ReadLink, accounts
  <2>2. PICK r \in Requests : Moves(t, r) /\ r.kind \in {"refresh", "reset"}
    BY <1>2, ReadRefreshDoes, ReloadSessionDoes, ResetDoes DEF Moves
  <2> QED  BY <1>0, <2>1, <2>2, SameSessions, OneRequest DEF PasswordHolds
<1>3. CASE SwapToken(t)
  <2>1. UNCHANGED password
    BY <1>3 DEF SwapToken, accounts
  <2>2. PICK r \in Requests : Moves(t, r) /\ r.kind = "refresh"
    BY <1>3, SwapTokenDoes DEF Moves
  <2>3. NoneOutlivesPassword'
    <3>1. CASE Live' = Live /\ \A s \in Live : sessions'[s].provedBy = sessions[s].provedBy
      BY <2>1, <3>1 DEF PasswordHolds, NoneOutlivesPassword
    <3>2. Live' = Live /\ \A s \in Live : sessions'[s].provedBy = sessions[s].provedBy
      BY <1>3, SwapKeeps
    <3> QED  BY <3>1, <3>2
  <2> QED  BY <1>0, <2>1, <2>2, <2>3, OneRequest
<1>4. CASE Revoke(t)
  <2>1. UNCHANGED password
    BY <1>4 DEF Revoke, accounts
  <2>2. PICK was \in Pending, r \in Requests :
               /\ was = request[t] /\ was.kind = "refresh" /\ was.at = "revoke" /\ was.token \in Given
               /\ Moves(t, r) /\ Refused(r, was.token) /\ End({was.token.session}, "reuse")
    BY <1>4, RevokeDoes
  <2>3. NoneOutlivesPassword'
    BY <2>1, <2>2, FewerSessions DEF PasswordHolds
  <2>4. ~ Verified(r)
    BY <1>1, <2>2 DEF Refused
  <2> QED  BY <1>0, <2>1, <2>2, <2>3, <2>4, OneRequest
<1>5. CASE VerifyPassword(t)
  <2>1. UNCHANGED <<sessions, password>>
    BY <1>5 DEF VerifyPassword, accounts
  <2> PICK was \in Pending, r \in Requests :
           /\ was = request[t] /\ was.kind \in {"login", "change"} /\ was.at = "verify" /\ was.password \in Nat
           /\ Moves(t, r)
           /\ \/ was.password = password /\ r \in Pending /\ r.password = was.password
              \/ was.password # password /\ Refused(r, NoToken)
    BY <1>5, VerifyPasswordDoes
  <2>2. Verified(r) => r.password = password'
    BY <1>1, <2>1 DEF Refused
  <2> QED  BY <1>0, <2>1, <2>2, SameSessions, OneRequest DEF PasswordHolds
<1>6. CASE changePassword(t)
  <2>1. PICK r \in Pending : Moves(t, r) /\ r.password = password + 1 /\ NewPassword /\ request[t].kind = "change"
    BY <1>6, ChangePasswordDoes
  <2>2. r \in Requests /\ password' = password + 1
    BY <2>1 DEF Requests, NewPassword
  <2> QED  BY <1>0, <2>1, <2>2, NoSessions, OneRequest DEF Credentials
<1>7. CASE DeleteExpired(t)
  <2>1. UNCHANGED password
    BY <1>7 DEF DeleteExpired, accounts
  <2> PICK was \in Pending, r \in Pending :
           /\ was = request[t] /\ was.kind \in {"login", "change"} /\ was.at = "start" /\ was.password \in Nat
           /\ Moves(t, r) /\ r.at = "create" /\ r.password = was.password
           /\ End({s \in Live : sessions[s].expiresAt <= clock}, "expired")
    BY <1>7, DeleteExpiredDoes
  <2>2. r \in Requests /\ r.password = password'
    BY <2>1 DEF PasswordHolds, Requests
  <2>3. NoneOutlivesPassword'
    BY <2>1, FewerSessions DEF PasswordHolds
  <2> QED  BY <1>0, <2>1, <2>2, <2>3, OneRequest
<1>8. CASE startSession(t)
  <2>1. PICK r \in Requests : Moves(t, r) /\ r \in Grants
    BY <1>8, StartSessionDoes DEF Granted
  <2>2. PICK s \in 1..MaxTokens :
           /\ s \notin Live /\ Live' = Live \cup {s} /\ \A x \in Live : sessions'[x] = sessions[x]
           /\ sessions'[s].provedBy = request[t].password
           /\ request[t].kind \in {"login", "change"} /\ request[t].at = "create" /\ UNCHANGED password
    BY <1>8, Opens
  <2>3. NoneOutlivesPassword'
    BY <2>2 DEF PasswordHolds, NoneOutlivesPassword
  <2> QED  BY <1>0, <1>1, <2>1, <2>2, <2>3, OneRequest
<1>9. CASE logout(t)
  <2>1. UNCHANGED password
    BY <1>9 DEF logout, accounts
  <2>2. PICK r \in Requests : Moves(t, r) /\ r \in Grants /\ \E S, why : End(S, why)
    BY <1>9, LogoutDoes DEF Granted
  <2>3. NoneOutlivesPassword'
    BY <2>1, <2>2, FewerSessions DEF PasswordHolds
  <2> QED  BY <1>0, <1>1, <2>1, <2>2, <2>3, OneRequest
<1>10. CASE resetPassword(t)
  <2>1. PICK r \in Requests : Moves(t, r) /\ r.kind = "reset" /\ request[t].kind = "reset"
    BY <1>10, ResetDoes DEF Moves
  <2> QED  BY <1>0, <1>10, <2>1, NoSessions, OneRequest DEF resetPassword, Credentials
<1> QED  BY <1>2, <1>3, <1>4, <1>5, <1>6, <1>7, <1>8, <1>9, <1>10 DEF Server

(* and through those of the tabs.                                          *)
LEMMA TabsKeepPasswords ==
  ASSUME ~ Overlapping, RowsHold, PasswordHolds, NEW t \in Tabs,
         Client(t) \/ forgotPassword(t) \/ Receive(t) \/ Lose(t)
  PROVE  PasswordHolds'
<1> USE DEF Verified
<1>1. UNCHANGED <<sessions, password>>
  BY DEF Client, bootstrapSession, tryRefresh, Reload, SubmitLogin, SubmitLogout, SubmitChange, SubmitReset,
     Send, forgotPassword, Receive, Lose, accounts
<1>2. CASE Reload(t) \/ forgotPassword(t)
  <2>1. UNCHANGED request
    BY <1>2 DEF Reload, forgotPassword
  <2> QED  BY <1>1, <2>1, SameSessions DEF PasswordHolds
<1>3. CASE Client(t) /\ ~ Reload(t)
  <2> PICK r \in Pending : Send(t, r) /\ Asked(t, r) /\ (r.kind = "refresh" \/ Ask(t, r.kind))
    BY <1>3, Sending DEF Client
  <2>1. r.kind \in Credentials => \A u \in Tabs : request[u].kind \notin Credentials
    BY DEF Ask, Credentials
  <2>2. r \in Requests /\ request' = [request EXCEPT ![t] = r]
    BY DEF Send, Requests
  <2>3. ~ Verified(r)
    BY DEF Asked
  <2> QED  BY <1>1, <2>1, <2>2, <2>3, SameSessions, OneRequest DEF PasswordHolds
<1>4. CASE Receive(t) \/ Lose(t)
  <2>1. request' = [request EXCEPT ![t] = NoRequest]
    BY <1>4 DEF Receive, Lose
  <2>2. NoRequest \in Requests /\ NoRequest.kind = "none"
    BY DEF Requests, NoRequest
  <2> QED  BY <1>1, <2>1, <2>2, SameSessions, OneRequest DEF PasswordHolds, Credentials
<1> QED  BY <1>2, <1>3, <1>4

(* Logins, changes and resets that do not overlap leave no session that    *)
(* another password opened, however renewals interleave with them.         *)
THEOREM PasswordsEndSessions ==
  ASSUME ~ Overlapping
  PROVE  Spec => []NoneOutlivesPassword
<1>1. Init => PasswordHolds
  BY AuthAssumption
     DEF Init, PasswordHolds, NoneOutlivesPassword, NewSession, NoRequest, Verified, Credentials, Live
<1>2. RowsHold /\ PasswordHolds /\ [Next]_vars => PasswordHolds'
  <2> SUFFICES ASSUME RowsHold, PasswordHolds, [Next]_vars  PROVE PasswordHolds'
    OBVIOUS
  <2>1. CASE UNCHANGED vars \/ Tick
    <3>1. UNCHANGED <<sessions, password, request>>
      BY <2>1 DEF vars, accounts, Tick
    <3> QED  BY <3>1, SameSessions DEF PasswordHolds
  <2> QED  BY <2>1, ServerKeepsPasswords, TabsKeepPasswords DEF Next
<1>3. PasswordHolds => NoneOutlivesPassword
  BY DEF PasswordHolds
<1> QED  BY <1>1, <1>2, <1>3, SessionRowsHold, PTL DEF Spec
-----------------------------------------------------------------------------
(* Tabs that refresh at once, when answers come promptly.                  *)

(* The refresh tokens that are under way: presented, or being brought.     *)
Asking(t) == request[t].kind = "refresh" /\ request[t].at # "answered"
Granting(t) == request[t] # NoRequest /\ request[t].at = "answered" /\ request[t].status = "ok"
Bringing(t) == Granting(t) /\ request[t].token # NoToken
Of(k, s) == k # NoToken /\ k.session = s

Current(k) == sessions[k.session].token = k.number
Replaced(k) == sessions[k.session].previous = k.number /\ sessions[k.session].rotatedAt = clock
Known(k) == k # NoToken => \/ k.session \in DOMAIN ended
                           \/ k.session \in Live /\ k.expiresAt <= sessions[k.session].expiresAt

(* The other tab of the browser will ask for no renewal of the session     *)
(* before time passes.                                                     *)
Neighbour(t, u) == u # t /\ home[u] = home[t]
Quiet(u, s) ==
  \/ Granting(u) /\ request[u].kind = "refresh" /\ request[u].access.session = s
  \/ /\ tab[u].page = "in" /\ tab[u].session = s /\ tab[u].expiresAt > clock
     /\ \/ request[u] = NoRequest
        \/ request[u].kind = "change" /\ request[u].at \in {"verify", "update"}
        \/ request[u].kind = "change" /\ request[u].at = "answered" /\ request[u].status = "refused"
        \/ request[u].kind = "logout" /\ request[u].at = "delete" /\ request[u].session = s

(* A token presented for a session that is open is the current one, or was *)
(* replaced just now, and then the tab that did it is quiet.               *)
AskingHolds(t) == Asking(t) =>
  LET k == request[t].token IN
  /\ Known(k) /\ request[t].at # "revoke"
  /\ request[t].at \in {"swap", "reload"} => request[t].now = clock
  /\ (k # NoToken /\ k.session \in Live) =>
       \/ request[t].at # "reload" /\ Current(k)
       \/ Replaced(k) /\ \A u \in Tabs : Neighbour(t, u) => Quiet(u, k.session)

(* A token on its way to a browser is the current one, and nobody has it.  *)
BringingHolds(t) == Bringing(t) =>
  LET k == request[t].token IN
  /\ Known(k)
  /\ k.session \in Live =>
       /\ Current(k)
       /\ \A b \in Browsers : Of(cookie[b], k.session) => cookie[b].number # k.number
       /\ \A u \in Tabs : (Asking(u) /\ Of(request[u].token, k.session)) => request[u].token.number # k.number
       /\ \A u \in Tabs : (Bringing(u) /\ Of(request[u].token, k.session)) => u = t

(* A cookie is that of a session that is over, or its current token, or    *)
(* the next one is on its way.                                             *)
CookieHolds(b) ==
  LET k == cookie[b] IN
  /\ Known(k)
  /\ (k # NoToken /\ k.session \in Live) =>
       \/ Current(k)
       \/ Replaced(k) /\ \E u \in Tabs : /\ home[u] = b /\ Bringing(u) /\ request[u].kind = "refresh"
                                         /\ Of(request[u].token, k.session)

GrantHolds(t) == (Granting(t) /\ request[t].kind = "refresh") =>
  /\ request[t].access.expiresAt > clock
  /\ request[t].token # NoToken => request[t].token.session = request[t].access.session

RefusalHolds(t) == (At(t, "refresh", "answered") /\ request[t].status = "refused") =>
  LET k == request[t].presented IN k = NoToken \/ k.expiresAt <= clock \/ k.session \in DOMAIN ended

RowHolds(s) == /\ sessions[s].expiresAt <= clock + RefreshLife
               /\ sessions[s].token <= signed /\ sessions[s].previous <= signed

(* The tokens of a session are in one browser.                             *)
Has(b, s) == \/ Of(cookie[b], s)
             \/ \E t \in Tabs : home[t] = b /\ (Asking(t) \/ Bringing(t)) /\ Of(request[t].token, s)

TokensHold ==
  /\ \A t, u, v \in Tabs : (Neighbour(t, u) /\ Neighbour(t, v)) => u = v
  /\ \A s \in Live : RowHolds(s)
  /\ \A s \in DOMAIN ended : ended[s].why # "reuse"
  /\ \A t \in Tabs : AskingHolds(t)
  /\ \A t \in Tabs : BringingHolds(t)
  /\ \A t \in Tabs : GrantHolds(t)
  /\ \A t \in Tabs : RefusalHolds(t)
  /\ \A b \in Browsers : CookieHolds(b)
  /\ \A b, c \in Browsers : \A s \in Live : (Has(b, s) /\ Has(c, s)) => b = c

(* No session comes and none is renewed; some may end.                     *)
Shrinks ==
  /\ Live' \subseteq Live /\ \A s \in Live' : sessions'[s] = sessions[s]
  /\ DOMAIN ended \subseteq DOMAIN ended'
  /\ \A s \in Live : s \in Live' \/ s \in DOMAIN ended'
  /\ \A s \in DOMAIN ended' : ended'[s].why # "reuse"

(* A token that is known stays so while sessions end.                      *)
LEMMA KnownShrinks ==
  ASSUME Shrinks, NEW k, Known(k)
  PROVE  Known(k)'
BY DEF Shrinks, Known

(* A step of one tab's request that brings no token keeps what holds.      *)
LEMMA Serving ==
  ASSUME RowsHold, TokensHold, NEW t \in Tabs, NEW r \in Requests, request' = [request EXCEPT ![t] = r],
         UNCHANGED <<world, clock, cookie, tab, signed>>, Shrinks, ~ Granting(t), ~ Bringing(t)',
         GrantHolds(t)', RefusalHolds(t)', AskingHolds(t)',
         Asking(t)' => (Asking(t) /\ r.token = request[t].token) \/ r.token = cookie[home[t]],
         \A s \in Live' : Quiet(t, s) => Quiet(t, s)'
  PROVE  TokensHold'
<1>1. request'[t] = r /\ \A u \in Tabs \ {t} : request'[u] = request[u]
  BY DEF RowsHold
<1>2. UNCHANGED <<home, clock, cookie, tab, signed>>
  BY DEF world
<1>3. \A u \in Tabs : \A s \in Live' : Quiet(u, s) => Quiet(u, s)'
  <2> SUFFICES ASSUME NEW u \in Tabs \ {t}, NEW s \in Live', Quiet(u, s)  PROVE Quiet(u, s)'
    OBVIOUS
  <2> QED  BY <1>1, <1>2 DEF Quiet, Granting
<1>4. \A s \in Live' : RowHolds(s)'
  BY <1>2 DEF TokensHold, RowHolds, Shrinks
<1>5. ASSUME NEW u \in Tabs \ {t}  PROVE AskingHolds(u)'
  <2> SUFFICES ASSUME Asking(u)'  PROVE AskingHolds(u)'
    BY DEF AskingHolds
  <2> PICK k : k = request[u].token
    OBVIOUS
  <2>1. request'[u] = request[u] /\ Asking(u) /\ AskingHolds(u) /\ Known(k)
    BY <1>1 DEF Asking, AskingHolds, TokensHold
  <2>2. Known(k)'
    BY <2>1, KnownShrinks
  <2>3. ASSUME k # NoToken, k.session \in Live', Replaced(k),
               \A v \in Tabs : Neighbour(u, v) => Quiet(v, k.session)
        PROVE  Replaced(k)' /\ \A v \in Tabs : Neighbour(u, v)' => Quiet(v, k.session)'
    BY <1>2, <1>3, <2>3 DEF Replaced, Shrinks, Neighbour
  <2>4. (k # NoToken /\ k.session \in Live' /\ Current(k)) => Current(k)'
    BY DEF Current, Shrinks
  <2> QED  BY <1>2, <2>1, <2>2, <2>3, <2>4 DEF AskingHolds, Shrinks
<1>6. ASSUME NEW u \in Tabs  PROVE BringingHolds(u)'
  <2> SUFFICES ASSUME Bringing(u)'  PROVE BringingHolds(u)'
    BY DEF BringingHolds
  <2> PICK k : k = request[u].token
    OBVIOUS
  <2>1. u # t /\ request'[u] = request[u] /\ Bringing(u) /\ BringingHolds(u) /\ Known(k)
    BY <1>1 DEF Bringing, Granting, BringingHolds, TokensHold
  <2>2. Known(k)'
    BY <2>1, KnownShrinks
  <2> SUFFICES ASSUME k.session \in Live'
               PROVE  /\ Current(k)'
                      /\ \A b \in Browsers : Of(cookie'[b], k.session) => cookie'[b].number # k.number
                      /\ \A v \in Tabs : (Asking(v)' /\ Of(request'[v].token, k.session)) => request'[v].token.number # k.number
                      /\ \A v \in Tabs : (Bringing(v)' /\ Of(request'[v].token, k.session)) => v = u
    BY <2>1, <2>2 DEF BringingHolds, Of
  <2>3. k.session \in Live /\ Current(k)'
    BY <2>1 DEF BringingHolds, Current, Shrinks
  <2>4. \A b \in Browsers : Of(cookie[b], k.session) => cookie[b].number # k.number
    BY <2>1, <2>3 DEF BringingHolds
  <2>5. ASSUME NEW v \in Tabs, Asking(v)', Of(request'[v].token, k.session)
        PROVE  request'[v].token.number # k.number
    <3>1. CASE v # t \/ (Asking(t) /\ r.token = request[t].token)
      BY <1>1, <2>1, <2>3, <2>5, <3>1 DEF BringingHolds, Asking
    <3>2. CASE v = t /\ r.token = cookie[home[t]]
      <4>1. home[t] \in Browsers
        BY DEF RowsHold
      <4> QED  BY <1>1, <2>4, <2>5, <3>2, <4>1
    <3>3. v = t => (Asking(t) /\ r.token = request[t].token) \/ r.token = cookie[home[t]]
      BY <2>5 DEF Asking
    <3> QED  BY ONLY <3>1, <3>2, <3>3
  <2>6. \A v \in Tabs : (Bringing(v)' /\ Of(request'[v].token, k.session)) => v = u
    BY <1>1, <2>1, <2>3 DEF BringingHolds, Bringing, Granting
  <2> QED  BY <1>2, <2>3, <2>4, <2>5, <2>6
<1>7. ASSUME NEW u \in Tabs  PROVE GrantHolds(u)' /\ RefusalHolds(u)'
  <2>1. CASE u # t
    BY <1>1, <1>2, <2>1 DEF TokensHold, GrantHolds, RefusalHolds, Granting, At, Shrinks
  <2> QED  BY <2>1
<1>8. ASSUME NEW b \in Browsers  PROVE CookieHolds(b)'
  <2> PICK k : k = cookie[b]
    OBVIOUS
  <2>1. CookieHolds(b) /\ Known(k) /\ cookie'[b] = k
    BY <1>2 DEF TokensHold, CookieHolds
  <2>2. Known(k)'
    BY <2>1, KnownShrinks
  <2> SUFFICES ASSUME k # NoToken, k.session \in Live'
               PROVE  \/ Current(k)'
                      \/ Replaced(k)' /\ \E u \in Tabs : /\ home'[u] = b /\ Bringing(u)' /\ request'[u].kind = "refresh"
                                                         /\ Of(request'[u].token, k.session)
    BY <2>1, <2>2 DEF CookieHolds
  <2>3. k.session \in Live /\ sessions'[k.session] = sessions[k.session]
    BY DEF Shrinks
  <2>4. CASE Current(k)
    BY <2>3, <2>4 DEF Current
  <2>5. CASE Replaced(k) /\ \E u \in Tabs : /\ home[u] = b /\ Bringing(u) /\ request[u].kind = "refresh"
                                            /\ Of(request[u].token, k.session)
    <3> PICK u \in Tabs : home[u] = b /\ Bringing(u) /\ request[u].kind = "refresh" /\ Of(request[u].token, k.session)
      BY <2>5
    <3>1. u # t /\ request'[u] = request[u] /\ Bringing(u)'
      BY <1>1 DEF Bringing, Granting
    <3> QED  BY <1>2, <2>3, <2>5, <3>1 DEF Replaced
  <2> QED  BY <2>1, <2>3, <2>4, <2>5 DEF CookieHolds
<1>9. ASSUME NEW b \in Browsers, NEW s \in Live', Has(b, s)'  PROVE Has(b, s)
  <2>1. CASE Of(cookie'[b], s)
    BY <1>2, <2>1 DEF Has
  <2>2. CASE \E u \in Tabs : home'[u] = b /\ (Asking(u) \/ Bringing(u))' /\ Of(request'[u].token, s)
    BY <1>1, <1>2, <2>2 DEF Has, Asking, Bringing, Granting
  <2> QED  BY <1>9, <2>1, <2>2 DEF Has
<1>10. \A b, c \in Browsers : \A s \in Live' : (Has(b, s)' /\ Has(c, s)') => b = c
  BY <1>9 DEF TokensHold, Shrinks
<1>11. \A u, v, w \in Tabs : (Neighbour(u, v)' /\ Neighbour(u, w)') => v = w
  BY <1>2 DEF TokensHold, Neighbour
<1> QED  BY <1>4, <1>5, <1>6, <1>7, <1>8, <1>10, <1>11 DEF TokensHold, Shrinks

(* Whoever asks, or signs in, is not quiet.                                *)
LEMMA NotQuiet ==
  ASSUME NEW t \in Tabs, \/ Asking(t)
                         \/ request[t].kind \in {"login", "reset"}
                         \/ request[t].kind = "change" /\ request[t].at \in {"start", "create"},
         NEW s
  PROVE  ~ Quiet(t, s)
<1>1. request[t].kind = "none" => request[t].kind \notin {"refresh", "login", "reset", "change"}
  OBVIOUS
<1> QED  BY <1>1 DEF Quiet, Granting, Asking, NoRequest

(* Tokens are tokens, wherever they are.                                   *)
LEMMA TokenTypes ==
  ASSUME RowsHold
  PROVE  /\ \A u \in Tabs : (Asking(u) \/ Bringing(u)) => request[u].token \in Tokens
         /\ \A b \in Browsers : cookie[b] \in Tokens
<1>1. ASSUME NEW u \in Tabs, Asking(u) \/ Bringing(u)  PROVE request[u].token \in Tokens
  <2> PICK r \in Requests : r = request[u]
    BY DEF RowsHold
  <2>1. CASE r \in Pending /\ r.kind = "refresh"
    BY <2>1, PendingFields
  <2>2. CASE r \in Grants
    BY <2>2, RequestFields
  <2>3. (r \in Pending /\ r.kind = "refresh") \/ r \in Grants
    <3>1. r # NoRequest
      BY <1>1 DEF Asking, Bringing, Granting, NoRequest
    <3>2. Asking(u) => r \in Pending /\ r.kind = "refresh"
      BY <3>1, RequestFields DEF Asking
    <3>3. Bringing(u) => r \in Grants
      BY <3>1, RequestFields DEF Bringing, Granting, Refusals
    <3> QED  BY <1>1, <3>2, <3>3
  <2> QED  BY <2>1, <2>2, <2>3
<1> QED  BY <1>1 DEF RowsHold

(* The swap: the token that was current is now the one just replaced, for  *)
(* the cookie and for the other tab, and the next one is on its way.       *)
LEMMA SwapHolds ==
  ASSUME AccessLife > 0, RowsHold, RowsHold', TokensHold, NEW t \in Tabs, NEW was, was = request[t],
         Asking(t), was.at = "swap", was.token \in Given, NEW s, s = was.token.session,
         s \in Live, Current(was.token),
         NEW r \in Requests, request' = [request EXCEPT ![t] = r], Granted(r, Signed(s), s), r.kind = "refresh",
         NEW row \in SessionRows, row.token = signed + 1, row.previous = was.token.number, row.rotatedAt = was.now,
         row.expiresAt = clock + RefreshLife,
         sessions' = [sessions EXCEPT ![s] = row], signed' = signed + 1,
         UNCHANGED <<world, clock, cookie, tab, ended>>
  PROVE  TokensHold'
<1> USE DEF Given
<1>1. request'[t] = r /\ \A u \in Tabs \ {t} : request'[u] = request[u]
  BY DEF RowsHold
<1>2. UNCHANGED <<home, clock, cookie, tab, ended>>
  BY DEF world
<1>3. Live' = Live /\ sessions'[s] = row /\ \A x \in Live \ {s} : sessions'[x] = sessions[x]
  BY DEF Live
<1>4. AskingHolds(t) /\ was.now = clock /\ was.token # NoToken
  BY DEF TokensHold, AskingHolds, Given, NoToken
<1>5. \A x : ~ Quiet(t, x)
  BY NotQuiet
<1>6. /\ r.kind = "refresh" /\ r.at = "answered" /\ r.status = "ok" /\ r # NoRequest
      /\ r.token = Signed(s) /\ r.access.session = s /\ r.access.expiresAt = clock + AccessLife
  BY DEF Granted, Grants, In, NoRequest
<1>7. /\ r.token.session = s /\ r.token.number = signed + 1 /\ r.token.expiresAt = clock + RefreshLife
      /\ r.token # NoToken
  BY <1>6 DEF Signed, NoToken
<1>8. ~ Asking(t)' /\ Granting(t)' /\ Bringing(t)'
  BY <1>1, <1>6, <1>7 DEF Asking, Granting, Bringing
<1>9. clock \in Nat /\ signed \in Nat /\ RefreshLife \in Nat /\ AccessLife \in Nat /\ Live \subseteq 1..signed
      /\ \A x \in Live : sessions[x] \in SessionRows
  BY AuthAssumption DEF RowsHold
<1>10. ASSUME NEW u \in Tabs, Of(request[u].token, s), Asking(u) \/ Bringing(u)  PROVE home[u] = home[t]
  <2>1. Has(home[u], s) /\ Has(home[t], s) /\ home[u] \in Browsers /\ home[t] \in Browsers
    BY <1>4, <1>10 DEF Has, Of, RowsHold
  <2> QED  BY <2>1 DEF TokensHold
<1>11. ASSUME NEW b \in Browsers, Of(cookie[b], s)  PROVE b = home[t]
  <2>1. Has(b, s) /\ Has(home[t], s) /\ home[t] \in Browsers
    BY <1>4, <1>11 DEF Has, Of, RowsHold
  <2> QED  BY <2>1 DEF TokensHold
<1>12. ASSUME NEW u \in Tabs, Bringing(u)  PROVE ~ Of(request[u].token, s)
  <2>1. BringingHolds(u)
    BY DEF TokensHold
  <2> QED  BY <1>4, <1>12, <2>1 DEF BringingHolds, Of, Current
<1>13. ASSUME NEW u \in Tabs \ {t}, Asking(u), Of(request[u].token, s)
       PROVE  request[u].at # "reload" /\ request[u].token.number = was.token.number
  <2>1. AskingHolds(u) /\ Neighbour(u, t)
    BY <1>10, <1>13 DEF TokensHold, Neighbour
  <2> QED  BY <1>5, <1>13, <2>1 DEF AskingHolds, Of, Current
<1>14. ASSUME NEW k \in Tokens, Known(k)  PROVE Known(k)'
  <2>1. CASE k # NoToken /\ k.session = s /\ s \in Live /\ k.expiresAt <= sessions[s].expiresAt
    <3>1. RowHolds(s) /\ sessions[s].expiresAt <= row.expiresAt
      BY DEF TokensHold, RowHolds
    <3>2. k.expiresAt \in Nat /\ row.expiresAt \in Nat /\ sessions[s].expiresAt \in Nat
      BY <1>9, <2>1 DEF Tokens, SessionRows
    <3>3. k.expiresAt <= row.expiresAt
      BY <2>1, <3>1, <3>2
    <3> QED  BY <1>2, <1>3, <2>1, <3>3 DEF Known
  <2>2. CASE ~ (k # NoToken /\ k.session = s /\ s \in Live /\ k.expiresAt <= sessions[s].expiresAt)
    BY <1>2, <1>3, <1>14, <2>2 DEF Known
  <2> QED  BY <2>1, <2>2
<1>15. ASSUME NEW u \in Tabs  PROVE AskingHolds(u)'
  <2> SUFFICES ASSUME Asking(u)'  PROVE AskingHolds(u)'
    BY DEF AskingHolds
  <2>1. u # t
    BY <1>8
  <2>2. request'[u] = request[u] /\ Asking(u) /\ AskingHolds(u)
    BY <1>1, <2>1 DEF Asking, TokensHold
  <2> PICK k \in Tokens : k = request[u].token
    BY <2>2, TokenTypes
  <2>3. Known(k)'
    BY <1>14, <2>2 DEF AskingHolds
  <2>4. CASE Of(k, s)
    <3>1. home[u] = home[t] /\ request[u].at # "reload" /\ k.number = was.token.number
      BY <1>10, <1>13, <2>1, <2>2, <2>4
    <3>2. Replaced(k)'
      BY <1>2, <1>3, <1>4, <2>4, <3>1 DEF Replaced, Of
    <3>3. \A v \in Tabs : Neighbour(u, v)' => v = t
      BY <1>2, <2>1, <3>1 DEF TokensHold, Neighbour
    <3>4. Quiet(t, s)'
      BY <1>1, <1>6, <1>8 DEF Quiet
    <3>5. \A v \in Tabs : Neighbour(u, v)' => Quiet(v, k.session)'
      BY <2>4, <3>3, <3>4 DEF Of
    <3> QED  BY <1>2, <2>2, <2>3, <3>2, <3>5 DEF AskingHolds
  <2>5. CASE ~ Of(k, s)
    <3> SUFFICES ASSUME k # NoToken, k.session \in Live
                 PROVE  \/ request[u].at # "reload" /\ Current(k)'
                        \/ Replaced(k)' /\ \A v \in Tabs : Neighbour(u, v)' => Quiet(v, k.session)'
      BY <1>2, <1>3, <2>2, <2>3 DEF AskingHolds
    <3>1. sessions'[k.session] = sessions[k.session]
      BY <1>3, <2>5 DEF Of
    <3>2. CASE request[u].at # "reload" /\ Current(k)
      BY <3>1, <3>2 DEF Current
    <3>3. CASE Replaced(k) /\ \A v \in Tabs : Neighbour(u, v) => Quiet(v, k.session)
      <4>1. ASSUME NEW v \in Tabs, Neighbour(u, v)'  PROVE Quiet(v, k.session)'
        <5>1. v # t /\ Quiet(v, k.session)
          BY <1>2, <1>5, <3>3, <4>1 DEF Neighbour
        <5> QED  BY <1>1, <1>2, <5>1 DEF Quiet, Granting
      <4> QED  BY <1>2, <3>1, <3>3, <4>1 DEF Replaced
    <3> QED  BY <2>2, <3>2, <3>3 DEF AskingHolds
  <2> QED  BY <2>4, <2>5
<1>16. ASSUME NEW u \in Tabs, Bringing(u)'  PROVE BringingHolds(u)'
  <2>1. CASE u = t
    <3>1. Current(r.token)' /\ Known(r.token)'
      <4> PICK k : k = r.token
        OBVIOUS
      <4>1. k.session = s /\ k.number = row.token /\ k.expiresAt <= row.expiresAt /\ s \in Live' /\ sessions'[s] = row
        BY <1>3, <1>7, <1>9
      <4>2. Current(k)' /\ Known(k)'
        BY <4>1 DEF Current, Known
      <4> QED  BY <4>2
    <3>2. ASSUME NEW b \in Browsers, Of(cookie[b], s)  PROVE cookie[b].number # signed + 1
      <4>1. CookieHolds(b) /\ RowHolds(s) /\ sessions[s] \in SessionRows
        BY <1>9 DEF TokensHold
      <4>2. cookie[b].number = sessions[s].token \/ cookie[b].number = sessions[s].previous
        BY <3>2, <4>1 DEF CookieHolds, Of, Current, Replaced
      <4> QED  BY <1>9, <4>1, <4>2 DEF RowHolds, SessionRows
    <3>3. ASSUME NEW v \in Tabs, Asking(v)', Of(request'[v].token, s)  PROVE request'[v].token.number # signed + 1
      <4>1. v # t /\ request'[v] = request[v] /\ Asking(v)
        BY <1>1, <1>8, <3>3 DEF Asking
      <4>2. RowHolds(s) /\ sessions[s] \in SessionRows /\ was.token.number = sessions[s].token
        BY <1>9 DEF TokensHold, Current
      <4>3. request[v].token.number = was.token.number
        BY <1>13, <3>3, <4>1
      <4> QED  BY <1>9, <4>1, <4>2, <4>3 DEF RowHolds, SessionRows
    <3>4. ASSUME NEW v \in Tabs, Bringing(v)', Of(request'[v].token, s)  PROVE v = t
      BY <1>1, <1>12, <3>4 DEF Bringing, Granting
    <3> QED  BY <1>1, <1>2, <1>7, <2>1, <3>1, <3>2, <3>3, <3>4 DEF BringingHolds
  <2>2. CASE u # t
    <3>1. request'[u] = request[u] /\ Bringing(u) /\ BringingHolds(u)
      BY <1>1, <1>16, <2>2 DEF Bringing, Granting, TokensHold
    <3> PICK k \in Tokens : k = request[u].token
      BY <3>1, TokenTypes
    <3>2. k # NoToken /\ k.session # s /\ Known(k)'
      BY <1>12, <1>14, <3>1 DEF Of, Bringing, BringingHolds
    <3> SUFFICES ASSUME k.session \in Live
                 PROVE  /\ Current(k)'
                        /\ \A b \in Browsers : Of(cookie'[b], k.session) => cookie'[b].number # k.number
                        /\ \A v \in Tabs : (Asking(v)' /\ Of(request'[v].token, k.session)) => request'[v].token.number # k.number
                        /\ \A v \in Tabs : (Bringing(v)' /\ Of(request'[v].token, k.session)) => v = u
      BY <1>3, <3>1, <3>2 DEF BringingHolds, Of
    <3>3. Current(k)'
      BY <1>3, <3>1, <3>2 DEF BringingHolds, Current
    <3>4. ~ Of(request'[t].token, k.session)
      BY <1>1, <1>7, <3>2 DEF Of
    <3>5. \A v \in Tabs : (Asking(v)' /\ Of(request'[v].token, k.session)) => request'[v].token.number # k.number
      BY <1>1, <3>1, <3>4 DEF BringingHolds, Asking
    <3>6. \A v \in Tabs : (Bringing(v)' /\ Of(request'[v].token, k.session)) => v = u
      BY <1>1, <3>1, <3>4 DEF BringingHolds, Bringing, Granting
    <3> QED  BY <1>2, <3>1, <3>3, <3>5, <3>6 DEF BringingHolds
  <2> QED  BY <2>1, <2>2
<1>17. ASSUME NEW b \in Browsers  PROVE CookieHolds(b)'
  <2> PICK k \in Tokens : k = cookie[b]
    BY TokenTypes
  <2>1. CookieHolds(b) /\ cookie'[b] = k /\ Known(k)'
    BY <1>2, <1>14 DEF TokensHold, CookieHolds
  <2>2. CASE Of(k, s)
    <3>1. b = home[t] /\ k.session = s
      BY <1>11, <2>2 DEF Of
    <3>2. Current(k)
      <4>1. ~ \E u \in Tabs : Bringing(u) /\ Of(request[u].token, s)
        BY <1>12
      <4> QED  BY <2>1, <2>2, <3>1, <4>1 DEF CookieHolds, Of
    <3>3. Replaced(k)'
      BY <1>2, <1>3, <1>4, <3>1, <3>2 DEF Replaced, Current
    <3>4. home'[t] = b /\ Bringing(t)' /\ request'[t].kind = "refresh" /\ Of(request'[t].token, k.session)
      BY <1>1, <1>2, <1>6, <1>7, <1>8, <3>1 DEF Of
    <3> QED  BY <2>1, <3>3, <3>4 DEF CookieHolds
  <2>3. CASE ~ Of(k, s)
    <3> SUFFICES ASSUME k # NoToken, k.session \in Live
                 PROVE  \/ Current(k)'
                        \/ Replaced(k)' /\ \E u \in Tabs : /\ home'[u] = b /\ Bringing(u)' /\ request'[u].kind = "refresh"
                                                           /\ Of(request'[u].token, k.session)
      BY <1>3, <2>1 DEF CookieHolds
    <3>1. sessions'[k.session] = sessions[k.session]
      BY <1>3, <2>3 DEF Of
    <3>2. CASE Current(k)
      BY <3>1, <3>2 DEF Current
    <3>3. CASE Replaced(k) /\ \E u \in Tabs : /\ home[u] = b /\ Bringing(u) /\ request[u].kind = "refresh"
                                              /\ Of(request[u].token, k.session)
      <4> PICK u \in Tabs : home[u] = b /\ Bringing(u) /\ request[u].kind = "refresh" /\ Of(request[u].token, k.session)
        BY <3>3
      <4>1. u # t
        BY DEF Bringing, Granting, Asking
      <4>2. request'[u] = request[u] /\ Bringing(u)'
        BY <1>1, <4>1 DEF Bringing, Granting
      <4> QED  BY <1>2, <3>1, <3>3, <4>2 DEF Replaced
    <3> QED  BY <2>1, <3>2, <3>3 DEF CookieHolds
  <2> QED  BY <2>2, <2>3
<1>18. ASSUME NEW b \in Browsers, NEW x \in Live, Has(b, x)'  PROVE Has(b, x)
  <2>1. CASE Of(cookie'[b], x)
    BY <1>2, <2>1 DEF Has
  <2>2. CASE \E u \in Tabs : home'[u] = b /\ (Asking(u) \/ Bringing(u))' /\ Of(request'[u].token, x)
    <3> PICK u \in Tabs : home'[u] = b /\ (Asking(u) \/ Bringing(u))' /\ Of(request'[u].token, x)
      BY <2>2
    <3>1. CASE u = t
      BY <1>1, <1>2, <1>4, <1>7, <3>1 DEF Has, Of
    <3>2. CASE u # t
      BY <1>1, <1>2, <3>2 DEF Has, Asking, Bringing, Granting
    <3> QED  BY <3>1, <3>2
  <2> QED  BY <1>18, <2>1, <2>2 DEF Has
<1>19. \A x \in Live : RowHolds(x)'
  <2>1. ASSUME NEW x \in Live  PROVE RowHolds(x)'
    <3>1. RowHolds(x) /\ RowHolds(s) /\ sessions[x] \in SessionRows /\ sessions[s] \in SessionRows
      BY <1>9 DEF TokensHold
    <3>2. CASE x = s
      BY <1>2, <1>3, <1>9, <3>1, <3>2 DEF RowHolds, Current, SessionRows
    <3>3. CASE x # s
      BY <1>2, <1>3, <1>9, <3>1, <3>3 DEF RowHolds, SessionRows
    <3> QED  BY <3>2, <3>3
  <2> QED  BY <2>1
<1>20. ASSUME NEW u \in Tabs  PROVE GrantHolds(u)' /\ RefusalHolds(u)'
  <2>1. CASE u = t
    BY <1>1, <1>2, <1>6, <1>7, <1>9, <2>1 DEF GrantHolds, RefusalHolds
  <2>2. CASE u # t
    BY <1>1, <1>2, <2>2 DEF TokensHold, GrantHolds, RefusalHolds, Granting, At
  <2> QED  BY <2>1, <2>2
<1>21. \A u, v, w \in Tabs : (Neighbour(u, v)' /\ Neighbour(u, w)') => v = w
  BY <1>2 DEF TokensHold, Neighbour
<1>22. \A b, c \in Browsers : \A x \in Live' : (Has(b, x)' /\ Has(c, x)') => b = c
  BY <1>3, <1>18 DEF TokensHold
<1>23. \A x \in DOMAIN ended' : ended'[x].why # "reuse"
  BY <1>2 DEF TokensHold
<1>24. \A u \in Tabs : BringingHolds(u)'
  BY <1>16 DEF BringingHolds
<1> QED  BY <1>3, <1>15, <1>17, <1>19, <1>20, <1>21, <1>22, <1>23, <1>24 DEF TokensHold

(* A session that opens: its first token is on its way, and nobody has it. *)
LEMMA OpenHolds ==
  ASSUME RowsHold, TokensHold, NEW t \in Tabs, request[t].kind \in {"login", "change"}, request[t].at = "create",
         NEW s \in Nat, s = signed + 1,
         NEW r \in Requests, request' = [request EXCEPT ![t] = r], Granted(r, Signed(s), s),
         r.kind \in {"login", "change"},
         NEW row, row.token = s, row.previous = 0, row.expiresAt = clock + RefreshLife,
         sessions' = [x \in Live \cup {s} |-> IF x = s THEN row ELSE sessions[x]], signed' = signed + 1,
         UNCHANGED <<world, clock, cookie, tab, ended>>
  PROVE  TokensHold'
<1>1. request'[t] = r /\ \A u \in Tabs \ {t} : request'[u] = request[u]
  BY DEF RowsHold
<1>2. UNCHANGED <<home, clock, cookie, tab, ended>>
  BY DEF world
<1>3. clock \in Nat /\ signed \in Nat /\ RefreshLife \in Nat /\ Live \subseteq 1..signed /\ DOMAIN ended \subseteq 1..signed
      /\ \A x \in Live : sessions[x] \in SessionRows
  BY AuthAssumption DEF RowsHold
<1>4. s \notin Live /\ s \notin DOMAIN ended
  BY <1>3
<1>5. Live' = Live \cup {s} /\ sessions'[s] = row /\ \A x \in Live : sessions'[x] = sessions[x]
  BY <1>4 DEF Live
<1>6. \A x : ~ Quiet(t, x)
  BY NotQuiet
<1>7. /\ r.kind # "refresh" /\ r.at = "answered" /\ r.status = "ok" /\ r # NoRequest
      /\ r.token.session = s /\ r.token.number = s /\ r.token.expiresAt = clock + RefreshLife /\ r.token # NoToken
  BY DEF Granted, Grants, NoRequest, Signed, NoToken
<1>8. ~ Asking(t)' /\ Bringing(t)'
  BY <1>1, <1>7 DEF Asking, Granting, Bringing
<1>9. ASSUME NEW k \in Tokens, Known(k)  PROVE Known(k)' /\ ~ Of(k, s)
  BY <1>2, <1>4, <1>5, <1>9 DEF Known, Of
<1>10. ASSUME NEW u \in Tabs, Asking(u) \/ Bringing(u)  PROVE ~ Of(request[u].token, s)
  <2> PICK k \in Tokens : k = request[u].token
    BY <1>10, TokenTypes
  <2>1. Known(k)
    BY <1>10 DEF TokensHold, AskingHolds, BringingHolds
  <2> QED  BY <1>9, <2>1
<1>11. ASSUME NEW b \in Browsers  PROVE ~ Of(cookie[b], s)
  <2> PICK k \in Tokens : k = cookie[b]
    BY TokenTypes
  <2>1. Known(k)
    BY DEF TokensHold, CookieHolds
  <2> QED  BY <1>9, <2>1
<1>12. ASSUME NEW u \in Tabs  PROVE AskingHolds(u)'
  <2> SUFFICES ASSUME Asking(u)'  PROVE AskingHolds(u)'
    BY DEF AskingHolds
  <2>1. u # t /\ request'[u] = request[u] /\ Asking(u) /\ AskingHolds(u)
    BY <1>1, <1>8 DEF Asking, TokensHold
  <2> PICK k \in Tokens : k = request[u].token
    BY <2>1, TokenTypes
  <2>2. Known(k)' /\ ~ Of(k, s)
    BY <1>9, <2>1 DEF AskingHolds
  <2> SUFFICES ASSUME k # NoToken, k.session \in Live
               PROVE  \/ request[u].at # "reload" /\ Current(k)'
                      \/ Replaced(k)' /\ \A v \in Tabs : Neighbour(u, v)' => Quiet(v, k.session)'
    BY <1>2, <1>5, <2>1, <2>2 DEF AskingHolds, Of
  <2>3. sessions'[k.session] = sessions[k.session]
    BY <1>5
  <2>4. CASE request[u].at # "reload" /\ Current(k)
    BY <2>3, <2>4 DEF Current
  <2>5. CASE Replaced(k) /\ \A v \in Tabs : Neighbour(u, v) => Quiet(v, k.session)
    <3>1. ASSUME NEW v \in Tabs, Neighbour(u, v)'  PROVE Quiet(v, k.session)'
      <4>1. v # t /\ Quiet(v, k.session)
        BY <1>2, <1>6, <2>5, <3>1 DEF Neighbour
      <4> QED  BY <1>1, <1>2, <4>1 DEF Quiet, Granting
    <3> QED  BY <1>2, <2>3, <2>5, <3>1 DEF Replaced
  <2> QED  BY <2>1, <2>4, <2>5 DEF AskingHolds
<1>13. ASSUME NEW u \in Tabs, Bringing(u)'  PROVE BringingHolds(u)'
  <2>1. CASE u = t
    <3> PICK k : k = r.token
      OBVIOUS
    <3>1. Current(k)' /\ Known(k)'
      BY <1>3, <1>5, <1>7 DEF Current, Known
    <3>2. \A v \in Tabs : Asking(v)' => ~ Of(request'[v].token, s)
      BY <1>1, <1>8, <1>10 DEF Asking
    <3>3. \A v \in Tabs : (Bringing(v)' /\ Of(request'[v].token, s)) => v = t
      BY <1>1, <1>10 DEF Bringing, Granting
    <3> QED  BY <1>1, <1>2, <1>7, <1>11, <2>1, <3>1, <3>2, <3>3 DEF BringingHolds
  <2>2. CASE u # t
    <3>1. request'[u] = request[u] /\ Bringing(u) /\ BringingHolds(u)
      BY <1>1, <1>13, <2>2 DEF Bringing, Granting, TokensHold
    <3> PICK k \in Tokens : k = request[u].token
      BY <3>1, TokenTypes
    <3>2. k # NoToken /\ k.session # s /\ Known(k)'
      BY <1>9, <1>10, <3>1 DEF Of, Bringing, BringingHolds
    <3> SUFFICES ASSUME k.session \in Live
                 PROVE  /\ Current(k)'
                        /\ \A b \in Browsers : Of(cookie'[b], k.session) => cookie'[b].number # k.number
                        /\ \A v \in Tabs : (Asking(v)' /\ Of(request'[v].token, k.session)) => request'[v].token.number # k.number
                        /\ \A v \in Tabs : (Bringing(v)' /\ Of(request'[v].token, k.session)) => v = u
      BY <1>5, <3>1, <3>2 DEF BringingHolds, Of
    <3>3. Current(k)'
      BY <1>5, <3>1, <3>2 DEF BringingHolds, Current
    <3>4. ~ Of(request'[t].token, k.session)
      BY <1>1, <1>7, <3>2 DEF Of
    <3>5. \A v \in Tabs : (Asking(v)' /\ Of(request'[v].token, k.session)) => request'[v].token.number # k.number
      BY <1>1, <3>1, <3>4 DEF BringingHolds, Asking
    <3>6. \A v \in Tabs : (Bringing(v)' /\ Of(request'[v].token, k.session)) => v = u
      BY <1>1, <3>1, <3>4 DEF BringingHolds, Bringing, Granting
    <3> QED  BY <1>2, <3>1, <3>3, <3>5, <3>6 DEF BringingHolds
  <2> QED  BY <2>1, <2>2
<1>14. ASSUME NEW b \in Browsers  PROVE CookieHolds(b)'
  <2> PICK k \in Tokens : k = cookie[b]
    BY TokenTypes
  <2>1. CookieHolds(b) /\ cookie'[b] = k /\ Known(k)' /\ ~ Of(k, s)
    BY <1>2, <1>9 DEF TokensHold, CookieHolds
  <2> SUFFICES ASSUME k # NoToken, k.session \in Live
               PROVE  \/ Current(k)'
                      \/ Replaced(k)' /\ \E u \in Tabs : /\ home'[u] = b /\ Bringing(u)' /\ request'[u].kind = "refresh"
                                                         /\ Of(request'[u].token, k.session)
    BY <1>5, <2>1 DEF CookieHolds, Of
  <2>2. sessions'[k.session] = sessions[k.session]
    BY <1>5
  <2>3. CASE Current(k)
    BY <2>2, <2>3 DEF Current
  <2>4. CASE Replaced(k) /\ \E u \in Tabs : /\ home[u] = b /\ Bringing(u) /\ request[u].kind = "refresh"
                                            /\ Of(request[u].token, k.session)
    <3> PICK u \in Tabs : home[u] = b /\ Bringing(u) /\ request[u].kind = "refresh" /\ Of(request[u].token, k.session)
      BY <2>4
    <3>1. u # t
      OBVIOUS
    <3>2. request'[u] = request[u] /\ Bringing(u)'
      BY <1>1, <3>1 DEF Bringing, Granting
    <3> QED  BY <1>2, <2>2, <2>4, <3>2 DEF Replaced
  <2> QED  BY <2>1, <2>3, <2>4 DEF CookieHolds
<1>15. ASSUME NEW b \in Browsers, NEW c \in Browsers, NEW x \in Live', Has(b, x)', Has(c, x)'  PROVE b = c
  <2>1. CASE x = s
    <3>1. ASSUME NEW d \in Browsers, Has(d, x)'  PROVE d = home[t]
      BY <1>1, <1>2, <1>8, <1>10, <1>11, <2>1, <3>1 DEF Has, Asking, Bringing, Granting
    <3> QED  BY <1>15, <3>1
  <2>2. CASE x # s
    <3>1. ASSUME NEW d \in Browsers, Has(d, x)'  PROVE Has(d, x)
      BY <1>1, <1>2, <1>7, <2>2, <3>1 DEF Has, Of, Asking, Bringing, Granting
    <3>2. x \in Live
      BY <1>5, <2>2
    <3> QED  BY <1>15, <3>1, <3>2 DEF TokensHold
  <2> QED  BY <2>1, <2>2
<1>16. ASSUME NEW x \in Live'  PROVE RowHolds(x)'
  <2>1. CASE x = s
    BY <1>2, <1>3, <1>5, <2>1 DEF RowHolds
  <2>2. CASE x # s
    <3>1. x \in Live /\ RowHolds(x) /\ sessions[x] \in SessionRows
      BY <1>3, <1>5, <2>2 DEF TokensHold
    <3> QED  BY <1>2, <1>3, <1>5, <3>1 DEF RowHolds, SessionRows
  <2> QED  BY <2>1, <2>2
<1>17. ASSUME NEW u \in Tabs  PROVE GrantHolds(u)' /\ RefusalHolds(u)'
  <2>1. CASE u = t
    BY <1>1, <1>7, <2>1 DEF GrantHolds, RefusalHolds, At
  <2>2. CASE u # t
    BY <1>1, <1>2, <2>2 DEF TokensHold, GrantHolds, RefusalHolds, Granting, At
  <2> QED  BY <2>1, <2>2
<1>18. \A u, v, w \in Tabs : (Neighbour(u, v)' /\ Neighbour(u, w)') => v = w
  BY <1>2 DEF TokensHold, Neighbour
<1>19. \A x \in DOMAIN ended' : ended'[x].why # "reuse"
  BY <1>2 DEF TokensHold
<1>20. \A u \in Tabs : BringingHolds(u)'
  BY <1>13 DEF BringingHolds
<1> QED  BY <1>12, <1>14, <1>15, <1>16, <1>17, <1>18, <1>19, <1>20 DEF TokensHold

(* An answer that arrives.                                                 *)
LEMMA ReceiveHolds ==
  ASSUME RowsHold, TokensHold, NEW t \in Tabs, Receive(t)
  PROVE  TokensHold'
<1> PICK answer \in Grants \cup Refusals, show \in Shows, left \in Tokens :
           /\ answer = request[t]
           /\ request' = [request EXCEPT ![t] = NoRequest]
           /\ tab' = [tab EXCEPT ![t] = show] /\ cookie' = [cookie EXCEPT ![home[t]] = left]
           /\ UNCHANGED <<world, clock, accounts, sessions, signed, ended>>
           /\ show = IF answer \in Grants /\ answer.kind \in {"refresh", "login", "change"} THEN answer.access
                     ELSE IF answer.kind \in {"refresh", "logout"} THEN Out ELSE tab[t]
           /\ left = IF answer \in Grants /\ answer.kind = "logout" THEN NoToken
                     ELSE IF answer \in Grants /\ answer.token # NoToken THEN answer.token ELSE cookie[home[t]]
  BY ReceiveDoes
<1>1. request'[t] = NoRequest /\ \A u \in Tabs \ {t} : request'[u] = request[u]
  BY DEF RowsHold
<1>2. UNCHANGED <<home, clock, sessions, signed, ended>> /\ Live' = Live
  BY DEF world, Live
<1>3. tab'[t] = show /\ \A u \in Tabs \ {t} : tab'[u] = tab[u]
  BY DEF RowsHold
<1>4. home[t] \in Browsers /\ cookie'[home[t]] = left /\ \A b \in Browsers \ {home[t]} : cookie'[b] = cookie[b]
  BY DEF RowsHold
<1>5. ~ Asking(t)' /\ ~ Granting(t)' /\ ~ Bringing(t)' /\ ~ At(t, "refresh", "answered")'
  BY <1>1 DEF Asking, Granting, Bringing, NoRequest, At
<1>6. /\ answer # NoRequest /\ answer.at = "answered"
      /\ answer \in Grants <=> answer.status = "ok"
      /\ answer \in Refusals => answer.status = "refused"
  BY DEF Grants, Refusals, NoRequest
<1>7. answer \in Grants <=> Granting(t)
  BY <1>6 DEF Granting
<1>8. left = cookie[home[t]] \/ left = NoToken \/ (Bringing(t) /\ left = request[t].token)
  BY <1>7 DEF Bringing
<1>9. ASSUME NEW k, Known(k)  PROVE Known(k)'
  BY <1>2, <1>9 DEF Known
<1>10. ASSUME NEW u \in Tabs, NEW s, Quiet(u, s)  PROVE Quiet(u, s)'
  <2>1. CASE u # t
    BY <1>1, <1>2, <1>3, <1>10, <2>1 DEF Quiet, Granting
  <2>2. CASE u = t
    <3>1. CASE Granting(t) /\ answer.kind = "refresh" /\ answer.access.session = s
      <4>1. answer.access.expiresAt > clock /\ answer.access.page = "in"
        BY <1>7, <3>1 DEF TokensHold, GrantHolds, Grants, AccessTokens
      <4>2. tab'[t] = answer.access
        BY <1>3, <1>7, <3>1
      <4> QED  BY <1>1, <1>2, <2>2, <3>1, <4>1, <4>2 DEF Quiet
    <3>2. CASE /\ tab[t].page = "in" /\ tab[t].session = s /\ tab[t].expiresAt > clock
               /\ answer.kind = "change" /\ answer.status = "refused"
      <4>1. tab'[t] = tab[t]
        BY <1>3, <1>6, <3>2
      <4> QED  BY <1>1, <1>2, <2>2, <3>2, <4>1 DEF Quiet
    <3> QED  BY <1>6, <1>10, <2>2, <3>1, <3>2 DEF Quiet
  <2> QED  BY <2>1, <2>2
<1>11. ASSUME NEW u \in Tabs  PROVE AskingHolds(u)'
  <2> SUFFICES ASSUME Asking(u)'  PROVE AskingHolds(u)'
    BY DEF AskingHolds
  <2>1. u # t /\ request'[u] = request[u] /\ Asking(u) /\ AskingHolds(u)
    BY <1>1, <1>5 DEF Asking, TokensHold
  <2> PICK k : k = request[u].token
    OBVIOUS
  <2>2. Known(k)'
    BY <1>9, <2>1 DEF AskingHolds
  <2>3. (Current(k) => Current(k)') /\ (Replaced(k) => Replaced(k)')
    BY <1>2 DEF Current, Replaced
  <2>4. \A v \in Tabs : Neighbour(u, v)' => Neighbour(u, v)
    BY <1>2 DEF Neighbour
  <2> QED  BY <1>2, <1>10, <2>1, <2>2, <2>3, <2>4 DEF AskingHolds
<1>12. ASSUME NEW u \in Tabs, Bringing(u)'  PROVE BringingHolds(u)'
  <2>1. u # t /\ request'[u] = request[u] /\ Bringing(u) /\ BringingHolds(u)
    BY <1>1, <1>5, <1>12 DEF Bringing, Granting, TokensHold
  <2> PICK k : k = request[u].token
    OBVIOUS
  <2>2. Known(k)'
    BY <1>9, <2>1 DEF BringingHolds
  <2> SUFFICES ASSUME k.session \in Live
               PROVE  /\ Current(k)'
                      /\ \A b \in Browsers : Of(cookie'[b], k.session) => cookie'[b].number # k.number
                      /\ \A v \in Tabs : (Asking(v)' /\ Of(request'[v].token, k.session)) => request'[v].token.number # k.number
                      /\ \A v \in Tabs : (Bringing(v)' /\ Of(request'[v].token, k.session)) => v = u
    BY <1>2, <2>1, <2>2 DEF BringingHolds, Of
  <2>3. Current(k)'
    BY <1>2, <2>1 DEF BringingHolds, Current
  <2>4. ASSUME NEW b \in Browsers, Of(cookie'[b], k.session)  PROVE cookie'[b].number # k.number
    <3>1. CASE cookie'[b] = cookie[b]
      BY <2>1, <2>4, <3>1 DEF BringingHolds
    <3>2. CASE b = home[t] /\ left = NoToken
      BY <1>4, <2>4, <3>2 DEF Of
    <3>3. CASE b = home[t] /\ Bringing(t) /\ left = request[t].token
      BY <1>4, <2>1, <2>4, <3>3 DEF BringingHolds, Of
    <3> QED  BY <1>4, <1>8, <3>1, <3>2, <3>3
  <2>5. \A v \in Tabs : (Asking(v)' /\ Of(request'[v].token, k.session)) => request'[v].token.number # k.number
    BY <1>1, <1>5, <2>1 DEF BringingHolds, Asking
  <2>6. \A v \in Tabs : (Bringing(v)' /\ Of(request'[v].token, k.session)) => v = u
    BY <1>1, <1>5, <2>1 DEF BringingHolds, Bringing, Granting
  <2> QED  BY <2>3, <2>4, <2>5, <2>6
<1>13. ASSUME NEW b \in Browsers  PROVE CookieHolds(b)'
  <2>1. CASE cookie'[b] = cookie[b] /\ (b # home[t] \/ ~ Bringing(t))
    <3> PICK k : k = cookie[b]
      OBVIOUS
    <3>1. CookieHolds(b) /\ cookie'[b] = k /\ Known(k)'
      BY <1>9, <2>1 DEF TokensHold, CookieHolds
    <3> SUFFICES ASSUME k # NoToken, k.session \in Live
                 PROVE  \/ Current(k)'
                        \/ Replaced(k)' /\ \E u \in Tabs : /\ home'[u] = b /\ Bringing(u)' /\ request'[u].kind = "refresh"
                                                           /\ Of(request'[u].token, k.session)
      BY <1>2, <3>1 DEF CookieHolds
    <3>2. CASE Current(k)
      BY <1>2, <3>2 DEF Current
    <3>3. CASE Replaced(k) /\ \E u \in Tabs : /\ home[u] = b /\ Bringing(u) /\ request[u].kind = "refresh"
                                              /\ Of(request[u].token, k.session)
      <4> PICK u \in Tabs : home[u] = b /\ Bringing(u) /\ request[u].kind = "refresh" /\ Of(request[u].token, k.session)
        BY <3>3
      <4>1. u # t
        BY <2>1
      <4>2. request'[u] = request[u] /\ Bringing(u)'
        BY <1>1, <4>1 DEF Bringing, Granting
      <4> QED  BY <1>2, <3>3, <4>2 DEF Replaced
    <3> QED  BY <3>1, <3>2, <3>3 DEF CookieHolds
  <2>2. CASE cookie'[b] = NoToken
    BY <2>2 DEF CookieHolds, Known
  <2>3. CASE Bringing(t) /\ cookie'[b] = request[t].token
    <3> PICK k : k = request[t].token
      OBVIOUS
    <3>1. BringingHolds(t)
      BY DEF TokensHold
    <3>2. Known(k)' /\ (k.session \in Live' => Current(k)')
      BY <1>2, <1>9, <2>3, <3>1 DEF BringingHolds, Current
    <3> QED  BY <2>3, <3>2 DEF CookieHolds
  <2>4. b = home[t] /\ Bringing(t) => left = NoToken \/ left = request[t].token
    BY <1>7 DEF Bringing
  <2> QED  BY <1>4, <1>8, <2>1, <2>2, <2>3, <2>4
<1>14. ASSUME NEW b \in Browsers, NEW s \in Live, Has(b, s)'  PROVE Has(b, s)
  <2>1. CASE Of(cookie'[b], s)
    BY <1>4, <1>8, <2>1 DEF Has, Of
  <2>2. CASE \E u \in Tabs : home'[u] = b /\ (Asking(u) \/ Bringing(u))' /\ Of(request'[u].token, s)
    BY <1>1, <1>2, <1>5, <2>2 DEF Has, Asking, Bringing, Granting
  <2> QED  BY <1>14, <2>1, <2>2 DEF Has
<1>15. ASSUME NEW u \in Tabs  PROVE GrantHolds(u)' /\ RefusalHolds(u)'
  <2>1. CASE u = t
    BY <1>5, <2>1 DEF GrantHolds, RefusalHolds
  <2>2. CASE u # t
    BY <1>1, <1>2, <2>2 DEF TokensHold, GrantHolds, RefusalHolds, Granting, At
  <2> QED  BY <2>1, <2>2
<1>16. \A u, v, w \in Tabs : (Neighbour(u, v)' /\ Neighbour(u, w)') => v = w
  BY <1>2 DEF TokensHold, Neighbour
<1>17. \A b, c \in Browsers : \A s \in Live' : (Has(b, s)' /\ Has(c, s)') => b = c
  BY <1>2, <1>14 DEF TokensHold
<1>18. (\A s \in Live' : RowHolds(s)') /\ \A s \in DOMAIN ended' : ended'[s].why # "reuse"
  BY <1>2 DEF TokensHold, RowHolds
<1>19. \A u \in Tabs : BringingHolds(u)'
  BY <1>12 DEF BringingHolds
<1> QED  BY <1>11, <1>13, <1>15, <1>16, <1>17, <1>18, <1>19 DEF TokensHold

(* Steps that leave the sessions alone,                                    *)
LEMMA NothingShrinks ==
  ASSUME TokensHold, UNCHANGED <<sessions, ended>>
  PROVE  Shrinks
BY DEF TokensHold, Shrinks, Live

(* and steps that end some, but for reuse, bring none.                     *)
LEMMA EndingShrinks ==
  ASSUME TokensHold, NEW S, NEW why, End(S, why), why # "reuse"
  PROVE  Shrinks
<1>1. /\ Live' = Live \ S /\ \A s \in Live' : sessions'[s] = sessions[s]
      /\ DOMAIN ended' = DOMAIN ended \cup (S \cap Live)
      /\ \A s \in DOMAIN ended' : \/ s \in DOMAIN ended /\ ended'[s] = ended[s]
                                  \/ s \notin DOMAIN ended /\ s \in S /\ ended'[s].why = why
  BY Ending
<1>2. \A s \in DOMAIN ended' : ended'[s].why # "reuse"
  BY <1>1 DEF TokensHold
<1> QED  BY <1>1, <1>2 DEF Shrinks

(* The first read: whatever is not the current token was replaced just now *)
(* and gets its access token, or its session is over.                      *)
LEMMA ReadRefreshHolds ==
  ASSUME AccessLife > 0, RowsHold, TokensHold, NEW t \in Tabs, ReadRefresh(t)
  PROVE  TokensHold'
<1>1. UNCHANGED <<world, clock, accounts, sessions, cookie, tab, signed, ended>> /\ Live' = Live
  BY DEF ReadRefresh, Live
<1> PICK was \in Pending, r \in Requests :
           /\ was = request[t] /\ was.kind = "refresh" /\ was.at = "sent" /\ was.token \in Tokens /\ Moves(t, r)
           /\ \/ Invalid(was.token) /\ Refused(r, was.token)
              \/ /\ ~ Invalid(was.token) /\ was.token \in Given /\ sessions[was.token.session].token = was.token.number
                 /\ r \in Pending /\ r.at = "swap" /\ r.token = was.token /\ r.now = clock
              \/ /\ ~ Invalid(was.token) /\ was.token \in Given /\ sessions[was.token.session].token # was.token.number
                 /\ Decided(was.token, clock, r)
  BY ReadRefreshDoes
<1>2. request'[t] = r /\ request' = [request EXCEPT ![t] = r] /\ r.kind = "refresh"
  BY DEF RowsHold, Moves
<1>3. Asking(t) /\ ~ Granting(t) /\ \A s : ~ Quiet(t, s)
  BY NotQuiet DEF Asking, Granting
<1>4. Shrinks
  BY <1>1, NothingShrinks
<1> PICK k : k = was.token
  OBVIOUS
<1>5. AskingHolds(t) /\ Known(k)
  BY <1>3 DEF TokensHold, AskingHolds
<1>6. clock \in Nat /\ ROTATION_GRACE \in Nat /\ AccessLife \in Nat
  BY AuthAssumption DEF RowsHold
<1>7. CASE Invalid(k) /\ Refused(r, k)
  <2>1. r.at = "answered" /\ r.status = "refused" /\ r.presented = k
    BY <1>7 DEF Refused, Refusals
  <2>2. ~ Asking(t)' /\ ~ Granting(t)' /\ ~ Bringing(t)'
    BY <1>2, <2>1 DEF Asking, Granting, Bringing
  <2>3. k = NoToken \/ k.expiresAt <= clock \/ k.session \in DOMAIN ended
    <3> SUFFICES ASSUME k # NoToken, k.session \in Live, k.expiresAt <= sessions[k.session].expiresAt,
                        sessions[k.session].expiresAt <= clock
                 PROVE  k.expiresAt <= clock
      BY <1>5, <1>7 DEF Invalid, Known
    <3>1. k \in Given /\ sessions[k.session] \in SessionRows
      BY DEF Tokens, RowsHold
    <3> QED  BY <1>6, <3>1 DEF Given, SessionRows
  <2>4. RefusalHolds(t)' /\ GrantHolds(t)' /\ AskingHolds(t)'
    BY <1>1, <1>2, <2>1, <2>2, <2>3 DEF RefusalHolds, GrantHolds, AskingHolds
  <2> QED  BY <1>1, <1>2, <1>3, <1>4, <2>2, <2>4, Serving
<1>8. CASE ~ Invalid(k) /\ sessions[k.session].token = k.number /\ r \in Pending /\ r.at = "swap" /\ r.token = k /\ r.now = clock
  <2>1. Known(k)' /\ Current(k)'
    BY <1>1, <1>4, <1>5, <1>8, KnownShrinks DEF Current
  <2>2. Asking(t)' /\ ~ Granting(t)' /\ ~ Bringing(t)' /\ ~ At(t, "refresh", "answered")'
    BY <1>2, <1>8 DEF Asking, Granting, Bringing, At
  <2>3. RefusalHolds(t)' /\ GrantHolds(t)' /\ AskingHolds(t)'
    BY <1>1, <1>2, <1>8, <2>1, <2>2 DEF RefusalHolds, GrantHolds, AskingHolds
  <2> QED  BY <1>1, <1>2, <1>3, <1>4, <1>8, <2>2, <2>3, Serving
<1>9. CASE ~ Invalid(k) /\ sessions[k.session].token # k.number /\ Decided(k, clock, r)
  <2>1. k # NoToken /\ k.session \in Live /\ ~ Current(k)
    BY <1>9 DEF Invalid, Current
  <2>2. Replaced(k)
    BY <1>3, <1>5, <2>1 DEF AskingHolds
  <2>3. JustRotated(sessions[k.session], k.number, clock)
    BY <1>6, <2>2 DEF Replaced, JustRotated
  <2>4. Granted(r, NoToken, k.session)
    BY <1>9, <2>3 DEF Decided
  <2>5. /\ r.at = "answered" /\ r.status = "ok" /\ r.token = NoToken /\ r.access.expiresAt > clock
    BY <1>6, <2>4 DEF Granted, Grants, In
  <2>6. ~ Asking(t)' /\ ~ Bringing(t)'
    BY <1>2, <2>5 DEF Asking, Bringing
  <2>7. RefusalHolds(t)' /\ GrantHolds(t)' /\ AskingHolds(t)'
    BY <1>1, <1>2, <2>5, <2>6 DEF RefusalHolds, GrantHolds, AskingHolds
  <2> QED  BY <1>1, <1>2, <1>3, <1>4, <2>6, <2>7, Serving
<1> QED  BY <1>7, <1>8, <1>9

(* The second read, once the swap has failed.                              *)
LEMMA ReloadSessionHolds ==
  ASSUME AccessLife > 0, RowsHold, TokensHold, NEW t \in Tabs, ReloadSession(t)
  PROVE  TokensHold'
<1>1. UNCHANGED <<world, clock, accounts, sessions, cookie, tab, signed, ended>> /\ Live' = Live
  BY DEF ReloadSession, Live
<1> PICK was \in Pending, r \in Requests :
           /\ was = request[t] /\ was.kind = "refresh" /\ was.at = "reload" /\ was.token \in Given /\ was.now \in Nat
           /\ Moves(t, r)
           /\ \/ was.token.session \in Live /\ Decided(was.token, was.now, r)
              \/ was.token.session \notin Live /\ Refused(r, was.token)
  BY ReloadSessionDoes
<1>2. request'[t] = r /\ request' = [request EXCEPT ![t] = r] /\ r.kind = "refresh"
  BY DEF RowsHold, Moves
<1>3. Asking(t) /\ ~ Granting(t) /\ \A s : ~ Quiet(t, s)
  BY NotQuiet DEF Asking, Granting
<1>4. Shrinks
  BY <1>1, NothingShrinks
<1> PICK k \in Given : k = was.token
  OBVIOUS
<1>5. AskingHolds(t) /\ Known(k) /\ was.now = clock
  BY <1>3 DEF TokensHold, AskingHolds
<1>6. clock \in Nat /\ ROTATION_GRACE \in Nat /\ AccessLife \in Nat
  BY AuthAssumption DEF RowsHold
<1>7. CASE k.session \notin Live /\ Refused(r, k)
  <2>1. r.at = "answered" /\ r.status = "refused" /\ r.presented = k
    BY <1>7 DEF Refused, Refusals
  <2>2. ~ Asking(t)' /\ ~ Granting(t)' /\ ~ Bringing(t)'
    BY <1>2, <2>1 DEF Asking, Granting, Bringing
  <2>3. k = NoToken \/ k.session \in DOMAIN ended
    BY <1>5, <1>7 DEF Known
  <2>4. RefusalHolds(t)' /\ GrantHolds(t)' /\ AskingHolds(t)'
    BY <1>1, <1>2, <2>1, <2>2, <2>3 DEF RefusalHolds, GrantHolds, AskingHolds
  <2> QED  BY <1>1, <1>2, <1>3, <1>4, <2>2, <2>4, Serving
<1>8. CASE k.session \in Live /\ Decided(k, was.now, r)
  <2>1. k # NoToken
    BY DEF Given, NoToken
  <2>2. Replaced(k)
    BY <1>3, <1>5, <1>8, <2>1 DEF AskingHolds
  <2>3. JustRotated(sessions[k.session], k.number, was.now)
    BY <1>5, <1>6, <2>2 DEF Replaced, JustRotated
  <2>4. Granted(r, NoToken, k.session)
    BY <1>8, <2>3 DEF Decided
  <2>5. /\ r.at = "answered" /\ r.status = "ok" /\ r.token = NoToken /\ r.access.expiresAt > clock
    BY <1>6, <2>4 DEF Granted, Grants, In
  <2>6. ~ Asking(t)' /\ ~ Bringing(t)'
    BY <1>2, <2>5 DEF Asking, Bringing
  <2>7. RefusalHolds(t)' /\ GrantHolds(t)' /\ AskingHolds(t)'
    BY <1>1, <1>2, <2>5, <2>6 DEF RefusalHolds, GrantHolds, AskingHolds
  <2> QED  BY <1>1, <1>2, <1>3, <1>4, <2>6, <2>7, Serving
<1> QED  BY <1>7, <1>8

(* The compare-and-swap, whether it swaps or not.                          *)
LEMMA SwapTokenHolds ==
  ASSUME AccessLife > 0, RowsHold, RowsHold', TokensHold, NEW t \in Tabs, SwapToken(t)
  PROVE  TokensHold'
<1>1. UNCHANGED <<world, clock, accounts, cookie, tab, ended>>
  BY DEF SwapToken
<1> PICK was \in Pending, r \in Requests :
           /\ was = request[t] /\ was.kind = "refresh" /\ was.at = "swap" /\ was.token \in Given /\ was.now \in Nat
           /\ Moves(t, r)
           /\ \/ /\ Swappable(was.token) /\ signed' = signed + 1
                 /\ sessions' = [sessions EXCEPT ![was.token.session] =
                                   Renewed(sessions[was.token.session], signed + 1, was.token.number, was.now,
                                           clock + RefreshLife)]
                 /\ Granted(r, Signed(was.token.session), was.token.session)
              \/ /\ ~ Swappable(was.token) /\ UNCHANGED <<sessions, signed>>
                 /\ r \in Pending /\ r.at = "reload" /\ r.token = was.token /\ r.now = was.now
  BY SwapTokenDoes
<1>2. request'[t] = r /\ request' = [request EXCEPT ![t] = r] /\ r.kind = "refresh"
  BY DEF RowsHold, Moves
<1>3. Asking(t) /\ ~ Granting(t) /\ \A s : ~ Quiet(t, s)
  BY NotQuiet DEF Asking, Granting
<1> PICK k \in Given : k = was.token
  OBVIOUS
<1>4. AskingHolds(t) /\ Known(k) /\ was.now = clock
  BY <1>3 DEF TokensHold, AskingHolds
<1>5. CASE Swappable(k) /\ signed' = signed + 1
           /\ sessions' = [sessions EXCEPT ![k.session] =
                             Renewed(sessions[k.session], signed + 1, k.number, was.now, clock + RefreshLife)]
           /\ Granted(r, Signed(k.session), k.session)
  <2>1. k.session \in Live /\ Current(k)
    BY <1>5 DEF Swappable, Current
  <2> PICK s : s = k.session
    OBVIOUS
  <2> PICK row \in SessionRows :
             /\ row = Renewed(sessions[s], signed + 1, k.number, was.now, clock + RefreshLife)
             /\ row.token = signed + 1 /\ row.previous = k.number /\ row.rotatedAt = was.now
             /\ row.expiresAt = clock + RefreshLife
    BY <2>1, Swapped
  <2>2. sessions' = [sessions EXCEPT ![s] = row]
    BY <1>5
  <2>3. Granted(r, Signed(s), s) /\ Current(was.token) /\ s = was.token.session
    BY <1>5, <2>1
  <2>4. UNCHANGED <<world, clock, cookie, tab, ended>> /\ signed' = signed + 1
    BY <1>1, <1>5
  <2>5. AccessLife > 0 /\ RowsHold /\ RowsHold' /\ TokensHold /\ was = request[t] /\ was.at = "swap" /\ was.token \in Given
    OBVIOUS
  <2>6. Asking(t) /\ s \in Live
    BY <1>3, <2>1
  <2>7. /\ row.token = signed + 1 /\ row.previous = was.token.number /\ row.rotatedAt = was.now
        /\ row.expiresAt = clock + RefreshLife
    OBVIOUS
  <2> QED  BY ONLY <1>2, <2>2, <2>3, <2>4, <2>5, <2>6, <2>7, SwapHolds, ZenonT(60)
<1>6. CASE ~ Swappable(k) /\ UNCHANGED <<sessions, signed>> /\ r \in Pending /\ r.at = "reload" /\ r.token = k /\ r.now = was.now
  <2>1. Shrinks /\ Live' = Live
    BY <1>1, <1>6, NothingShrinks DEF Live
  <2>2. Known(k)'
    BY <1>4, <2>1, KnownShrinks
  <2>3. Asking(t)' /\ ~ Granting(t)' /\ ~ Bringing(t)' /\ ~ At(t, "refresh", "answered")'
    BY <1>2, <1>6 DEF Asking, Granting, Bringing, At
  <2>4. ASSUME k.session \in Live
        PROVE  Replaced(k)' /\ \A u \in Tabs : Neighbour(t, u)' => Quiet(u, k.session)'
    <3>1. ~ Current(k) /\ k # NoToken
      BY <1>6, <2>4 DEF Swappable, Current, Given, NoToken
    <3>2. Replaced(k) /\ \A u \in Tabs : Neighbour(t, u) => Quiet(u, k.session)
      BY <1>3, <1>4, <2>4, <3>1 DEF AskingHolds
    <3>3. Replaced(k)'
      BY <1>1, <1>6, <3>2 DEF Replaced
    <3>4. ASSUME NEW u \in Tabs, Neighbour(t, u)'  PROVE Quiet(u, k.session)'
      <4>1. u # t /\ Quiet(u, k.session)
        BY <1>1, <3>2, <3>4 DEF Neighbour, world
      <4>2. request'[u] = request[u]
        BY <1>2, <4>1 DEF RowsHold
      <4> QED  BY <1>1, <4>1, <4>2 DEF Quiet, Granting
    <3> QED  BY <3>3, <3>4
  <2>5. RefusalHolds(t)' /\ GrantHolds(t)' /\ AskingHolds(t)'
    BY <1>1, <1>2, <1>4, <1>6, <2>1, <2>2, <2>3, <2>4 DEF RefusalHolds, GrantHolds, AskingHolds
  <2> QED  BY <1>1, <1>2, <1>3, <1>6, <2>1, <2>3, <2>5, Serving
<1> QED  BY <1>5, <1>6

(* A request that is no renewal proceeds, is granted without a token, or   *)
(* is refused.                                                             *)
LEMMA OtherServing ==
  ASSUME RowsHold, TokensHold, NEW t \in Tabs, NEW r \in Requests, Moves(t, r), r.kind # "refresh",
         r \in Grants => r.token = NoToken,
         UNCHANGED <<world, clock, cookie, tab, signed>>, Shrinks,
         \A s \in Live' : Quiet(t, s) => Quiet(t, s)'
  PROVE  TokensHold'
<1>1. request' = [request EXCEPT ![t] = r] /\ request'[t] = r /\ request[t] \in Pending
  BY DEF Moves, RowsHold
<1>2. ~ Granting(t)
  <2> PICK was \in Pending : was = request[t]
    BY <1>1
  <2> QED  BY PendingFields DEF Granting
<1>3. ~ Asking(t)' /\ ~ At(t, "refresh", "answered")'
  BY <1>1 DEF Asking, At
<1>4. ~ Bringing(t)'
  <2>1. (r # NoRequest /\ r.at = "answered" /\ r.status = "ok") => r \in Grants
    BY RequestFields DEF Refusals
  <2> QED  BY <1>1, <2>1 DEF Bringing, Granting
<1>5. GrantHolds(t)' /\ RefusalHolds(t)' /\ AskingHolds(t)'
  BY <1>1, <1>3 DEF GrantHolds, RefusalHolds, AskingHolds
<1> QED  BY <1>1, <1>2, <1>3, <1>4, <1>5, Serving

(* Logins, changes, resets and goodbyes bring no token of a session,       *)
LEMMA CredentialsHold ==
  ASSUME RowsHold, TokensHold, NEW t \in Tabs,
         \/ VerifyPassword(t) \/ changePassword(t) \/ DeleteExpired(t) \/ logout(t) \/ ReadLink(t) \/ resetPassword(t)
  PROVE  TokensHold'
<1>1. UNCHANGED <<world, clock, cookie, tab, signed>>
  BY DEF VerifyPassword, changePassword, DeleteExpired, logout, ReadLink, resetPassword, accounts
<1>2. ASSUME NewPassword  PROVE Shrinks /\ Live' = {}
  <2>1. End(Live, "password")
    BY <1>2 DEF NewPassword
  <2> QED  BY <2>1, Ending, EndingShrinks
<1>3. ASSUME NEW r \in Requests, Moves(t, r)  PROVE request'[t] = r /\ r.kind = request[t].kind
  BY <1>3 DEF Moves, RowsHold
<1>4. CASE VerifyPassword(t)
  <2>1. Shrinks
    BY <1>4, NothingShrinks DEF VerifyPassword
  <2> PICK was \in Pending, r \in Requests :
           /\ was = request[t] /\ was.kind \in {"login", "change"} /\ was.at = "verify" /\ was.password \in Nat
           /\ Moves(t, r)
           /\ \/ /\ was.password = password /\ r \in Pending /\ r.password = was.password
                 /\ r.at = IF was.kind = "login" THEN "start" ELSE "update"
              \/ was.password # password /\ Refused(r, NoToken)
    BY <1>4, VerifyPasswordDoes
  <2>2. /\ r \notin Grants /\ r.kind = was.kind /\ r.kind # "refresh"
        /\ was.kind = "change" => r.at = "update" \/ (r.at = "answered" /\ r.status = "refused")
    <3>1. r \in Pending => r.at # "answered"
      BY PendingFields
    <3> QED  BY <1>3, <3>1 DEF Refused, Refusals, Grants
  <2>3. \A s \in Live' : Quiet(t, s) => Quiet(t, s)'
    <3> SUFFICES ASSUME NEW s, Quiet(t, s)  PROVE Quiet(t, s)'
      OBVIOUS
    <3>1. was.kind = "change" /\ tab[t].page = "in" /\ tab[t].session = s /\ tab[t].expiresAt > clock
      BY NotQuiet DEF Quiet, Granting
    <3> QED  BY <1>1, <1>3, <2>2, <3>1 DEF Quiet
  <2> QED  BY <1>1, <2>1, <2>2, <2>3, OtherServing
<1>5. CASE changePassword(t)
  <2> PICK r \in Pending : Moves(t, r) /\ r.at = "start" /\ NewPassword /\ request[t].kind = "change"
    BY <1>5, ChangePasswordDoes
  <2>1. r \in Requests /\ r.kind # "refresh" /\ r \notin Grants
    BY <1>3 DEF Requests, Grants
  <2> QED  BY <1>1, <1>2, <2>1, OtherServing
<1>6. CASE DeleteExpired(t)
  <2> PICK was \in Pending, r \in Pending :
           /\ was = request[t] /\ was.kind \in {"login", "change"} /\ was.at = "start" /\ was.password \in Nat
           /\ Moves(t, r) /\ r.at = "create" /\ r.password = was.password
           /\ End({s \in Live : sessions[s].expiresAt <= clock}, "expired")
    BY <1>6, DeleteExpiredDoes
  <2>1. r \in Requests /\ r.kind # "refresh" /\ r \notin Grants
    BY <1>3 DEF Requests, Grants
  <2>2. Shrinks
    BY EndingShrinks
  <2>3. \A s : ~ Quiet(t, s)
    BY NotQuiet
  <2> QED  BY <1>1, <2>1, <2>2, <2>3, OtherServing
<1>7. CASE logout(t)
  <2> PICK was \in Pending, r \in Requests :
           /\ was = request[t] /\ was.kind = "logout" /\ was.session \in Nat
           /\ Moves(t, r) /\ Granted(r, NoToken, was.session) /\ End({was.session}, "logout")
    BY <1>7, LogoutDoes
  <2>1. r.kind # "refresh" /\ r.token = NoToken
    BY <1>3 DEF Granted
  <2>2. Shrinks /\ Live' = Live \ {was.session}
    BY Ending, EndingShrinks
  <2>3. \A s : Quiet(t, s) => s = was.session
    BY DEF Quiet, Granting, NoRequest
  <2> QED  BY <1>1, <2>1, <2>2, <2>3, OtherServing
<1>8. CASE ReadLink(t) \/ resetPassword(t)
  <2> PICK was \in Pending, r \in Requests :
           /\ was = request[t] /\ was.kind = "reset" /\ Moves(t, r)
           /\ \/ /\ ReadLink(t) /\ (r \in Pending \/ Refused(r, NoToken))
              \/ /\ resetPassword(t) /\ Granted(r, NoToken, 0) /\ NewPassword
    BY <1>8, ResetDoes
  <2>1. r.kind # "refresh" /\ (r \in Grants => r.token = NoToken)
    <3>1. r \in Pending => r.at # "answered"
      BY PendingFields
    <3> QED  BY <1>3, <3>1 DEF Granted, Refused, Refusals, Grants
  <2>2. Shrinks
    BY <1>2, NothingShrinks DEF ReadLink
  <2>3. \A s : ~ Quiet(t, s)
    BY NotQuiet
  <2> QED  BY <1>1, <2>1, <2>2, <2>3, OtherServing
<1> QED  BY <1>4, <1>5, <1>6, <1>7, <1>8

(* but the one of the session that they open.                              *)
LEMMA StartSessionHolds ==
  ASSUME RowsHold, TokensHold, NEW t \in Tabs, startSession(t)
  PROVE  TokensHold'
<1> PICK was \in Pending, r \in Requests :
           /\ was = request[t] /\ was.kind \in {"login", "change"} /\ was.at = "create" /\ was.password \in Nat
           /\ Moves(t, r) /\ Granted(r, Signed(signed + 1), signed + 1)
           /\ sessions' = [x \in Live \cup {signed + 1} |->
                             IF x = signed + 1 THEN NewSession(signed + 1, was.password) ELSE sessions[x]]
           /\ signed' = signed + 1
  BY StartSessionDoes
<1> PICK s \in Nat : s = signed + 1
  BY DEF RowsHold
<1> PICK row : row = NewSession(s, was.password)
  OBVIOUS
<1>1. row.token = s /\ row.previous = 0 /\ row.expiresAt = clock + RefreshLife
  BY Opened
<1>2. /\ request' = [request EXCEPT ![t] = r] /\ r.kind \in {"login", "change"}
      /\ request[t].kind \in {"login", "change"} /\ request[t].at = "create"
  BY DEF Moves
<1>3. Granted(r, Signed(s), s) /\ sessions' = [x \in Live \cup {s} |-> IF x = s THEN row ELSE sessions[x]]
  OBVIOUS
<1>4. UNCHANGED <<world, clock, cookie, tab, ended>> /\ signed' = signed + 1
  BY DEF startSession, sessionId
<1>5. RowsHold /\ TokensHold /\ s = signed + 1
  OBVIOUS
<1> QED  BY ONLY <1>1, <1>2, <1>3, <1>4, <1>5, OpenHolds

(* What a tab asks for: its browser's cookie, if it asks for a renewal.    *)
LEMMA ClientHolds ==
  ASSUME RowsHold, TokensHold, network = "prompt", NEW t \in Tabs, Client(t)
  PROVE  TokensHold'
<1> PICK r \in Pending :
           /\ Send(t, r) /\ Asked(t, r) /\ request[t] = NoRequest
           /\ r.kind = "refresh" \/ Ask(t, r.kind)
           /\ tab[t].page = "loading" \/ signed + Cardinality(UnderWay) < MaxTokens
  BY Sending DEF Client, Reload
<1>1. /\ request' = [request EXCEPT ![t] = r] /\ request'[t] = r
      /\ UNCHANGED <<world, clock, cookie, tab, signed, sessions, ended>> /\ Live' = Live
  BY DEF Send, RowsHold, Live, accounts
<1>2. Shrinks
  BY <1>1, NothingShrinks
<1>3. ~ Granting(t) /\ request[t].kind = "none"
  BY DEF Granting, NoRequest
<1>4. r.at # "answered" /\ r \in Requests
  BY PendingFields
<1>5. ~ Granting(t)' /\ ~ Bringing(t)' /\ ~ At(t, "refresh", "answered")'
  BY <1>1, <1>4 DEF Granting, Bringing, At
<1>6. GrantHolds(t)' /\ RefusalHolds(t)'
  BY <1>5 DEF GrantHolds, RefusalHolds
<1>7. ASSUME NEW s, Quiet(t, s)  PROVE tab[t].page = "in" /\ tab[t].session = s /\ tab[t].expiresAt > clock
  BY <1>3, <1>7 DEF Quiet
<1>8. CASE r.kind = "refresh"
  <2>1. r.at = "sent" /\ r.token = cookie[home[t]] /\ (tab[t].page = "loading" \/ Expired(t))
    BY <1>8 DEF Asked
  <2>2. \A s : ~ Quiet(t, s)
    <3>1. ASSUME NEW s, Quiet(t, s), Expired(t)  PROVE FALSE
      <4>1. clock \in Nat /\ tab[t].expiresAt \in Nat
        <5> PICK show \in Shows : show = tab[t]
          BY DEF RowsHold
        <5>1. show \in AccessTokens
          BY <1>7, <3>1 DEF Shows
        <5> QED  BY <5>1 DEF AccessTokens, RowsHold
      <4> QED  BY <1>7, <3>1, <4>1 DEF Expired
    <3> QED  BY <1>7, <2>1, <3>1
  <2>3. home[t] \in Browsers
    BY DEF RowsHold
  <2> PICK b \in Browsers : b = home[t]
    BY <2>3
  <2> PICK k : k = cookie[b]
    OBVIOUS
  <2>4. CookieHolds(b) /\ Known(k)'
    BY <1>2, KnownShrinks DEF TokensHold, CookieHolds
  <2>5. ASSUME k # NoToken, k.session \in Live, ~ Current(k)
        PROVE  Replaced(k)' /\ \A u \in Tabs : Neighbour(t, u)' => Quiet(u, k.session)'
    <3> PICK u \in Tabs : home[u] = b /\ Bringing(u) /\ request[u].kind = "refresh" /\ Of(request[u].token, k.session)
      BY <2>4, <2>5 DEF CookieHolds
    <3>1. u # t /\ Neighbour(t, u)
      BY <1>3 DEF Bringing, Neighbour
    <3>2. request[u].access.session = k.session /\ request'[u] = request[u]
      BY <1>1, <3>1 DEF TokensHold, GrantHolds, Bringing, Of, RowsHold
    <3>3. Quiet(u, k.session)'
      BY <3>2 DEF Quiet, Granting, Bringing
    <3>4. \A v \in Tabs : Neighbour(t, v)' => v = u
      BY <1>1, <3>1 DEF TokensHold, Neighbour, world
    <3>5. Replaced(k)'
      BY <1>1, <2>4, <2>5 DEF CookieHolds, Replaced
    <3> QED  BY <3>3, <3>4, <3>5
  <2>6. Current(k) => Current(k)'
    BY <1>1 DEF Current
  <2>7. AskingHolds(t)'
    BY <1>1, <2>1, <2>4, <2>5, <2>6 DEF AskingHolds
  <2> QED  BY <1>1, <1>2, <1>3, <1>4, <1>5, <1>6, <2>1, <2>2, <2>7, Serving
<1>9. CASE r.kind # "refresh"
  <2>1. ~ Asking(t)'
    BY <1>1, <1>9 DEF Asking
  <2>2. AskingHolds(t)'
    BY <2>1 DEF AskingHolds
  <2>3. ASSUME NEW s, Quiet(t, s)  PROVE Quiet(t, s)'
    <3>1. \/ r.kind = "change" /\ r.at = "verify"
          \/ r.kind = "logout" /\ r.at = "delete" /\ r.session = s
      <4>1. r.kind = "logout" => r.at = "delete"
        BY DEF Pending, Renewals, Proofs, Departures, Recoveries
      <4> QED  BY <1>7, <1>9, <2>3, <4>1 DEF Asked
    <3> QED  BY <1>1, <1>7, <2>3, <3>1 DEF Quiet
  <2> QED  BY <1>1, <1>2, <1>3, <1>4, <1>5, <1>6, <2>1, <2>2, <2>3, Serving
<1> QED  BY <1>8, <1>9

(* A session is never taken for reused,                                    *)
LEMMA NeverRevoked ==
  ASSUME TokensHold, NEW t \in Tabs
  PROVE  ~ Revoke(t)
BY DEF TokensHold, AskingHolds, Asking, Revoke, At

(* what holds is about the tokens alone,                                   *)
LEMMA TokensAlone ==
  ASSUME TokensHold, UNCHANGED <<home, clock, sessions, cookie, tab, request, signed, ended>>
  PROVE  TokensHold'
<1>1. Live' = Live
  BY DEF Live
<1>2. \A u : Asking(u)' = Asking(u) /\ Granting(u)' = Granting(u) /\ Bringing(u)' = Bringing(u)
  BY DEF Asking, Granting, Bringing
<1>3. \A k : Known(k)' = Known(k) /\ Current(k)' = Current(k) /\ Replaced(k)' = Replaced(k)
  BY <1>1 DEF Known, Current, Replaced
<1>4. \A u, s : Quiet(u, s)' = Quiet(u, s)
  BY <1>2 DEF Quiet
<1>5. \A t, u : Neighbour(t, u)' = Neighbour(t, u)
  BY DEF Neighbour
<1>6. \A t \in Tabs : AskingHolds(t)'
  BY <1>1, <1>2, <1>3, <1>4, <1>5 DEF TokensHold, AskingHolds
<1>7. \A t \in Tabs : BringingHolds(t)'
  BY <1>1, <1>2, <1>3 DEF TokensHold, BringingHolds
<1>8. \A t \in Tabs : GrantHolds(t)' /\ RefusalHolds(t)'
  BY <1>2 DEF TokensHold, GrantHolds, RefusalHolds, At
<1>9. \A b \in Browsers : CookieHolds(b)'
  BY <1>1, <1>2, <1>3 DEF TokensHold, CookieHolds
<1>10. \A b, s : Has(b, s)' = Has(b, s)
  BY <1>2 DEF Has
<1>11. \A s \in Live' : RowHolds(s)'
  BY <1>1 DEF TokensHold, RowHolds
<1>12. \A b, c \in Browsers : \A s \in Live' : (Has(b, s)' /\ Has(c, s)') => b = c
  BY <1>1, <1>10 DEF TokensHold
<1>13. \A t, u, v \in Tabs : (Neighbour(t, u)' /\ Neighbour(t, v)') => u = v
  BY <1>5 DEF TokensHold
<1>14. \A s \in DOMAIN ended' : ended'[s].why # "reuse"
  BY DEF TokensHold
<1> QED  BY <1>6, <1>7, <1>8, <1>9, <1>11, <1>12, <1>13, <1>14 DEF TokensHold

(* and time passes while no token is on its way.                           *)
LEMMA TickHolds ==
  ASSUME RowsHold, TokensHold, network = "prompt", Tick
  PROVE  TokensHold'
<1>1. /\ \A t \in Tabs : request'[t] = NoRequest /\ request[t] = NoRequest
      /\ UNCHANGED <<home, sessions, cookie, signed, ended>> /\ Live' = Live
      /\ clock' = clock + 1 /\ clock \in Nat
  BY DEF Tick, world, Live, RowsHold
<1>2. \A t \in Tabs : /\ ~ Asking(t)' /\ ~ Granting(t)' /\ ~ Bringing(t)' /\ ~ At(t, "refresh", "answered")'
                      /\ ~ Asking(t) /\ ~ Bringing(t)
  BY <1>1 DEF Asking, Granting, Bringing, At, NoRequest
<1>3. \A t \in Tabs : AskingHolds(t)' /\ BringingHolds(t)' /\ GrantHolds(t)' /\ RefusalHolds(t)'
  BY <1>2 DEF AskingHolds, BringingHolds, GrantHolds, RefusalHolds
<1>4. ASSUME NEW s \in Live'  PROVE RowHolds(s)'
  <2> PICK row \in SessionRows : row = sessions[s]
    BY <1>1 DEF RowsHold
  <2>1. row.expiresAt \in Nat /\ clock + RefreshLife \in Nat /\ RefreshLife \in Nat
    BY <1>1, AuthAssumption DEF SessionRows
  <2>2. row.expiresAt <= clock + RefreshLife
    BY <1>1 DEF TokensHold, RowHolds
  <2>3. row.expiresAt <= (clock + 1) + RefreshLife
    BY <1>1, <2>1, <2>2
  <2> QED  BY <1>1, <2>3 DEF TokensHold, RowHolds
<1>5. ASSUME NEW b \in Browsers  PROVE CookieHolds(b)'
  <2> PICK k : k = cookie[b]
    OBVIOUS
  <2>1. Known(k) /\ ((k # NoToken /\ k.session \in Live) => Current(k))
    BY <1>2 DEF TokensHold, CookieHolds
  <2>2. Known(k)' /\ (Current(k) => Current(k)')
    BY <1>1, <2>1 DEF Known, Current
  <2> QED  BY <1>1, <2>1, <2>2 DEF CookieHolds
<1>6. ASSUME NEW b \in Browsers, NEW s, Has(b, s)'  PROVE Has(b, s)
  BY <1>1, <1>2, <1>6 DEF Has
<1>7. \A b, c \in Browsers : \A s \in Live' : (Has(b, s)' /\ Has(c, s)') => b = c
  BY <1>1, <1>6 DEF TokensHold
<1>8. /\ \A t, u, v \in Tabs : (Neighbour(t, u)' /\ Neighbour(t, v)') => u = v
      /\ \A s \in DOMAIN ended' : ended'[s].why # "reuse"
  BY <1>1 DEF TokensHold, Neighbour
<1> QED  BY <1>3, <1>4, <1>5, <1>7, <1>8 DEF TokensHold

(* At first every browser has the token of a session of its own.           *)
LEMMA InitialTokens ==
  ASSUME Init, \A h \in Homes : \A t, u, v \in Tabs : (u # t /\ v # t /\ h[u] = h[t] /\ h[v] = h[t]) => u = v
  PROVE  TokensHold
<1> PICK n \in Nat : n = Cardinality(Browsers)
  BY FS_CardinalityType, AuthAssumption
<1>1. /\ Browsers = 1..n /\ signed = n /\ clock = 0 /\ home \in Homes /\ DOMAIN ended = {}
      /\ sessions = [b \in Browsers |-> NewSession(b, 1)] /\ Live = Browsers
      /\ \A t \in Tabs : request[t] = NoRequest
      /\ RefreshLife \in Nat
  BY AuthAssumption DEF Init, Live
<1>2. \A t \in Tabs : ~ Asking(t) /\ ~ Granting(t) /\ ~ Bringing(t) /\ ~ At(t, "refresh", "answered")
  BY <1>1 DEF Asking, Granting, Bringing, At, NoRequest
<1>3. \A t \in Tabs : AskingHolds(t) /\ BringingHolds(t) /\ GrantHolds(t) /\ RefusalHolds(t)
  BY <1>2 DEF AskingHolds, BringingHolds, GrantHolds, RefusalHolds
<1>4. \A s \in Live : /\ sessions[s].token = s /\ sessions[s].previous = 0
                      /\ sessions[s].expiresAt = clock + RefreshLife
  BY <1>1 DEF NewSession
<1>5. ASSUME NEW s \in Live  PROVE RowHolds(s)
  <2>1. s \in 1..n /\ signed = n /\ clock = 0 /\ RefreshLife \in Nat /\ n \in Nat
    BY <1>1
  <2>2. s <= n /\ 0 <= n /\ clock + RefreshLife <= clock + RefreshLife
    BY ONLY <2>1
  <2>3. sessions[s].token = s /\ sessions[s].previous = 0 /\ sessions[s].expiresAt = clock + RefreshLife
    BY <1>4
  <2> QED  BY ONLY <2>1, <2>2, <2>3 DEF RowHolds
<1>6. \A b \in Browsers : cookie[b].number = b /\ cookie[b].session = b /\ cookie[b].expiresAt = RefreshLife
  BY DEF Init
<1>7. ASSUME NEW b \in Browsers  PROVE CookieHolds(b)
  <2> PICK k : k = cookie[b]
    OBVIOUS
  <2>1. k.session \in Live /\ Current(k)
    BY <1>1, <1>4, <1>6 DEF Current
  <2>2. k.expiresAt <= sessions[k.session].expiresAt
    BY <1>1, <1>4, <1>6
  <2> QED  BY <2>1, <2>2 DEF CookieHolds, Known
<1>8. ASSUME NEW b \in Browsers, NEW s, Has(b, s)  PROVE s = b
  BY <1>2, <1>6, <1>8 DEF Has, Of
<1>9. \A b, c \in Browsers : \A s \in Live : (Has(b, s) /\ Has(c, s)) => b = c
  BY <1>8
<1>10. \A t, u, v \in Tabs : (Neighbour(t, u) /\ Neighbour(t, v)) => u = v
  BY <1>1 DEF Neighbour
<1> QED  BY <1>1, <1>3, <1>5, <1>7, <1>9, <1>10 DEF TokensHold

(* Every step keeps what holds of the tokens, if answers come promptly.    *)
LEMMA TokensStay ==
  ASSUME AccessLife > 0, RowsHold, RowsHold', network = "prompt", TokensHold, [Next]_vars
  PROVE  TokensHold'
<1>1. CASE UNCHANGED vars
  BY <1>1, TokensAlone DEF vars, world
<1>2. CASE Tick
  BY <1>2, TickHolds
<1>3. ASSUME NEW t \in Tabs, Server(t)  PROVE TokensHold'
  BY <1>3, ReadRefreshHolds, SwapTokenHolds, ReloadSessionHolds, NeverRevoked, CredentialsHold, StartSessionHolds
     DEF Server
<1>4. ASSUME NEW t \in Tabs, forgotPassword(t)  PROVE TokensHold'
  BY <1>4, TokensAlone DEF forgotPassword, world
<1>5. ASSUME NEW t \in Tabs  PROVE ~ Lose(t)
  BY DEF Lose
<1> QED  BY <1>1, <1>2, <1>3, <1>4, <1>5, ClientHolds, ReceiveHolds DEF Next

(* Where a browser has no more than two tabs open and access tokens last,  *)
(* a refresh that is answered promptly is refused only when its session    *)
(* has expired or was ended on purpose: two tabs that renew their session  *)
(* at once never sign each other out, however many browsers there are and  *)
(* whatever else goes on (AuthService.refresh).                            *)
THEOREM TwoTabsStaySignedIn ==
  ASSUME AccessLife > 0,
         \A h \in Homes : \A t, u, v \in Tabs : (u # t /\ v # t /\ h[u] = h[t] /\ h[v] = h[t]) => u = v
  PROVE  Spec => []RefusedOnlyWhenEnded
<1> DEFINE IInv == network = "prompt" => TokensHold
<1>1. Init => IInv
  BY InitialTokens
<1>2. RowsHold /\ RowsHold' /\ IInv /\ [Next]_vars => IInv'
  <2> SUFFICES ASSUME RowsHold, RowsHold', IInv, [Next]_vars, network' = "prompt"  PROVE TokensHold'
    OBVIOUS
  <2>1. network = "prompt"
    BY DEF Next, vars, world, Client, Server, bootstrapSession, tryRefresh, Reload, SubmitLogin, SubmitLogout,
       SubmitChange, SubmitReset, Send, ReadRefresh, SwapToken, ReloadSession, Revoke, VerifyPassword,
       changePassword, DeleteExpired, startSession, sessionId, logout, ReadLink, resetPassword, forgotPassword, Receive,
       Lose, Tick
  <2> QED  BY <2>1, TokensStay
<1>3. IInv => RefusedOnlyWhenEnded
  BY DEF RefusedOnlyWhenEnded, TokensHold, RefusalHolds
<1> QED  BY <1>1, <1>2, <1>3, SessionRowsHold, PTL DEF Spec
=============================================================================
