--------------------------- MODULE SessionRegister ---------------------------
(***************************************************************************)
(* What the sign-in service promises about sessions, without tokens,       *)
(* clocks or browsers: a session is opened once, and once it is closed it  *)
(* stays closed.  A password that is changed closes every session that is  *)
(* open.                                                                   *)
(***************************************************************************)
CONSTANT Sessions      \* identifiers of sessions
VARIABLES open,        \* the sessions that can be renewed
          closed,      \* the sessions that could
          password     \* the account's password

vars == <<open, closed, password>>

Init == open \subseteq Sessions /\ closed = {}

Open(s) == /\ s \in Sessions \ (open \cup closed)
           /\ open' = open \cup {s}
           /\ UNCHANGED <<closed, password>>

Close(S) == /\ S # {} /\ S \subseteq open
            /\ open' = open \ S /\ closed' = closed \cup S
            /\ UNCHANGED password

ChangePassword == /\ password' # password
                  /\ open' = {} /\ closed' = closed \cup open

Next == \/ \E s \in Sessions : Open(s)
        \/ \E S \in SUBSET Sessions : Close(S)
        \/ ChangePassword

Spec == Init /\ [][Next]_vars
=============================================================================
