----------------------------- MODULE MCCalendar -----------------------------
(* Instances of Calendar for TLC: what may overlap, and the time zones.    *)
EXTENDS Calendar, TLC
Symmetry == Permutations(Slots)
Everything == Ops \X Ops
Nothing == {}
\* Generations overlap with each other and with what changes the schedule, the
\* classes or their attendance, and removals of a holiday with generations and
\* edits; new holidays wait.
Planned == {<<"generate", "generate">>, <<"put", "generate">>, <<"create", "generate">>,
            <<"update", "generate">>, <<"delete", "generate">>, <<"mark", "generate">>,
            <<"save", "generate">>, <<"generate", "save">>,
            <<"generate", "remove">>, <<"remove", "generate">>, <<"put", "remove">>,
            <<"update", "remove">>, <<"delete", "remove">>}

\* New York, the Azores, London, Madrid, Adelaide and Lord Howe, in spring and
\* in autumn, with the change at any half hour from the noon before the days.
Changes == {<<-10, -8>>, <<-2, 0>>, <<0, 2>>, <<2, 4>>, <<19, 21>>, <<21, 22>>}
SomeZones == {[before |-> c[1], after |-> c[2], at |-> t] :
                c \in Changes \cup {<<d[2], d[1]>> : d \in Changes}, t \in 24..167}
=============================================================================
