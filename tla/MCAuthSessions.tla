--------------------------- MODULE MCAuthSessions ---------------------------
(* Instances of AuthSessions for TLC: two tabs of one browser, and one tab *)
(* in each of two.                                                         *)
EXTENDS AuthSessions
Together == [t \in Tabs |-> 1]
Apart == CHOOSE f \in [Tabs -> Browsers] : \A t, u \in Tabs : t # u => f[t] # f[u]
TogetherOrApart == {Together, Apart}
JustTogether == {Together}
=============================================================================
