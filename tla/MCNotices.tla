----------------------------- MODULE MCNotices ------------------------------
(* Instances of Notices for TLC.                                           *)
EXTENDS Notices, TLC
CONSTANTS a, b, mother, father, ana
\* Two siblings whose guardians have an address each; a child whose
\* guardians have none, but with one of its own, and one out of reach.
Siblings == [guardians |-> [s \in Students |-> {mother, father}], own |-> [s \in Students |-> {ana}]]
OnHerOwn == [guardians |-> [s \in Students |-> {}],
             own |-> [s \in Students |-> IF s = a THEN {ana} ELSE {}]]
Both == {Siblings, OnHerOwn}
\* One subject at a time: no job touches the rows of another subject.
Separately == {{"reminder"}, {"absence"}, {"offer", "report", "message"}}
=============================================================================
