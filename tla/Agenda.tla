------------------------------- MODULE Agenda -------------------------------
(* Classes that overlap: how the API finds the ones that clash in a room        *)
(* (rooms.service, conflicts) and how the calendar lays a day out in columns     *)
(* (calendar/page.tsx, layoutDay). Each sweeps over the classes in the order     *)
(* they start. Only classes that are not cancelled get here.                     *)
EXTENDS Naturals, Sequences, FiniteSets
LOCAL INSTANCE SequencesExt

CONSTANTS ClassRooms,      \* the rooms
          NoRoom,
          Starts, Lengths, \* of a class, in a unit that divides both
          MaxInRooms, MaxInDay,  \* bounds: classes looked at
          MAX_CONFLICTS
ASSUME AgendaAssumption ==
  /\ NoRoom \notin ClassRooms /\ MAX_CONFLICTS \in Nat \ {0}
  /\ Starts \subseteq Nat /\ Lengths \subseteq Nat \ {0}   \* @Min(15), 60 if not set
  /\ {MaxInRooms, MaxInDay} \subseteq Nat

\* Lists of at most n classes, each with its place in the list as its id.
Lists(of, n) == UNION {[1..m -> of] : m \in 0..n}
Numbered(list) == [i \in DOMAIN list |-> [list[i] EXCEPT !.id = i]]

end(c) == c.start + c.length
Overlap(a, b) == a.start < end(b) /\ b.start < end(a)

-----------------------------------------------------------------------------
(* Clashes.                                                                *)

\* The class's own room or, failing that, its group's.
roomOf(c) == IF c.room # NoRoom THEN c.room ELSE c.groupRoom

\* The classes after the i-th, until one starts when it has ended.
Clashing(slots, i) ==
  {{slots[i].id, slots[j].id} :
     j \in {k \in i + 1..Len(slots) : \A m \in i + 1..k : slots[m].start < end(slots[i])}}

\* orderBy: { scheduledAt: 'asc' }
byStart(list) == SortSeq(list, LAMBDA a, b : a.start < b.start)

\* Room by room and class by class; the limit is looked at before each class.
conflicts(list) ==
  LET slots(r) == SelectSeq(byStart(list), LAMBDA c : roomOf(c) = r)
      InRoom(out, r) ==
        FoldLeftDomain(LAMBDA told, i : IF Cardinality(told) < MAX_CONFLICTS
                                        THEN told \cup Clashing(slots(r), i) ELSE told,
                       out, slots(r))
  IN FoldLeft(InRoom, {}, SetToSeq(ClassRooms))

Clash(a, b) == a.id # b.id /\ roomOf(a) = roomOf(b) /\ roomOf(a) # NoRoom /\ Overlap(a, b)

\* Every two classes at the same time in the same room are told, and no others;
\* past the limit some may be left out.
ClashesAreTold ==
  \A l \in Lists([id : {0}, start : Starts, length : Lengths,
                  room : {NoRoom, CHOOSE r \in ClassRooms : TRUE},
                  groupRoom : ClassRooms \cup {NoRoom}], MaxInRooms) :
    LET list == Numbered(l)
        clash == {{list[p[1]].id, list[p[2]].id} :
                    p \in {q \in (DOMAIN list) \X (DOMAIN list) : Clash(list[q[1]], list[q[2]])}}
        told == conflicts(list)
    IN told \subseteq clash /\ (told # clash => Cardinality(told) >= MAX_CONFLICTS)

-----------------------------------------------------------------------------
(* Columns.                                                                *)

NothingPlaced == [out |-> {}, cluster |-> {}, clusterEnd |-> 0]
\* A finished cluster: all its classes are as wide as its columns allow.
flush(cluster) ==
  {[c EXCEPT !.lanes = 1 + (CHOOSE n \in {d.lane : d \in cluster} :
                              \A d \in cluster : d.lane <= n)] : c \in cluster}
FreeLane(cluster, it) ==
  CHOOSE n \in 0..Cardinality(cluster) :
    LET Taken(m) == \E c \in cluster : c.lane = m /\ end(c) > it.start
    IN ~Taken(n) /\ \A m \in 0..n - 1 : Taken(m)

\* Mutant: the cluster ends with the last class, not with the one that lasts longest.
PlaceByTheLast(s, it) ==
  LET over == s.cluster # {} /\ it.start >= s.clusterEnd
      cluster == IF over THEN {} ELSE s.cluster
  IN [out |-> IF over THEN s.out \cup flush(s.cluster) ELSE s.out,
      cluster |-> cluster \cup {[it EXCEPT !.lane = FreeLane(cluster, it)]},
      clusterEnd |-> end(it)]
\* The next class: in the first column that is free, of the cluster it overlaps
\* with or of a new one.
Place(s, it) ==
  LET over == s.cluster # {} /\ it.start >= s.clusterEnd
      cluster == IF over THEN {} ELSE s.cluster
  IN [out |-> IF over THEN s.out \cup flush(s.cluster) ELSE s.out,
      cluster |-> cluster \cup {[it EXCEPT !.lane = FreeLane(cluster, it)]},
      clusterEnd |-> IF cluster # {} /\ s.clusterEnd > end(it) THEN s.clusterEnd ELSE end(it)]

layoutDay(list) ==
  LET sorted == SortSeq(list, LAMBDA a, b : a.start < b.start
                                            \/ (a.start = b.start /\ end(a) > end(b)))
      last == FoldLeft(Place, NothingPlaced, sorted)
  IN last.out \cup flush(last.cluster)

\* Classes that overlap are in columns of their own, of the same width, and a
\* column is opened only where all the ones before it are taken.
ColumnsAreFree ==
  \A l \in Lists([id : {0}, start : Starts, length : Lengths, lane : {0}, lanes : {1}],
                 MaxInDay) :
    LET placed == layoutDay(Numbered(l)) IN
    /\ {c.id : c \in placed} = DOMAIN l
    /\ \A a, b \in placed : a.id # b.id /\ Overlap(a, b) => a.lane # b.lane /\ a.lanes = b.lanes
    /\ \A a \in placed :
         /\ a.lane < a.lanes
         /\ Cardinality({b \in placed : b.start <= a.start /\ a.start < end(b)}) > a.lane

\* What overlaps is told apart, in the list of clashes and on the calendar.
SweepsFindOverlaps == ClashesAreTold /\ ColumnsAreFree
=============================================================================
