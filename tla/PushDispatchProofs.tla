------------------------- MODULE PushDispatchProofs --------------------------
(***************************************************************************)
(* Push notifications, for any number of devices, uploads and tasks: the   *)
(* member rows are the projection of the journal, a dispatch's reading of  *)
(* them stands until it commits because it holds the voyage's lock, what   *)
(* it has called it has recorded, and so nobody is called twice, nobody is *)
(* called after leaving, and nobody who must be called is left out.        *)
(***************************************************************************)
EXTENDS PushDispatch, FiniteSetTheorems, WellFoundedInduction, TLAPS

----------------------------------------------------------------------------
(* The last of a set of positions, or of instants *)

\* Of the sets without a greatest element take one with none such inside it:
\* without any one of its elements it has a greatest, or is empty.
LEMMA GreatestOf ==
    ASSUME NEW S, S \subseteq Nat, S # {}, IsFiniteSet(S)
    PROVE  \E x \in S : \A y \in S : y <= x
  <1> DEFINE HasGreatest(T) == \E x \in T : \A y \in T : y <= x
             Bad == {T \in SUBSET S : T # {} /\ ~HasGreatest(T)}
  <1> SUFFICES ASSUME Bad # {} PROVE FALSE
    OBVIOUS
  <1>1. Bad \subseteq FiniteSubsetsOf(S)
    BY FS_Subset DEF FiniteSubsetsOf
  <1>2. PICK T \in Bad : \A U \in Bad : <<U, T>> \notin StrictSubsetOrdering(S)
    <2> HIDE DEF Bad
    <2> QED
      BY <1>1, FS_StrictSubsetOrderingWellFounded, WFMin
  <1>3. PICK x \in T : TRUE
    OBVIOUS
  <1>4. T \ {x} \notin Bad
    <2>1. <<T \ {x}, T>> \in StrictSubsetOrdering(S)
      BY <1>3 DEF StrictSubsetOrdering
    <2> QED
      BY <1>2, <2>1
  <1>5. CASE T \ {x} = {}
    BY <1>3, <1>5
  <1>6. CASE HasGreatest(T \ {x})
    <2>1. PICK z \in T \ {x} : \A y \in T \ {x} : y <= z
      BY <1>6
    <2>2. x \in Nat /\ z \in Nat /\ T \subseteq Nat
      BY <1>3, <2>1
    <2>3. CASE x <= z
      BY <2>1, <2>3
    <2>4. CASE z <= x
      <3>1. \A y \in T : y <= x
        BY <1>3, <2>1, <2>2, <2>4
      <3> QED
        BY <1>3, <3>1
    <2> QED
      BY <2>2, <2>3, <2>4
  <1> QED
    BY <1>4, <1>5, <1>6

LEMMA LastIs ==
    ASSUME NEW S, S \subseteq Nat, NEW x \in S, \A y \in S : y <= x
    PROVE  Last(S) = x
  <1>1. \A y \in S : (\A j \in S : j <= y) => y = x
    OBVIOUS
  <1> QED
    BY <1>1 DEF Last

LEMMA LastBelongs ==
    ASSUME NEW S, S \subseteq Nat, S # {}, IsFiniteSet(S)
    PROVE  Last(S) \in S /\ \A y \in S : y <= Last(S)
  <1>1. PICK x \in S : \A y \in S : y <= x
    BY GreatestOf
  <1> QED
    BY <1>1, LastIs

LEMMA LastOfLater ==
    ASSUME NEW S, NEW T, S \subseteq Nat, T \subseteq Nat, T # {}, IsFiniteSet(T),
           \A x \in S, y \in T : x < y
    PROVE  Last(S \cup T) = Last(T)
  <1>1. PICK t \in T : t = Last(T) /\ \A y \in T : y <= t
    BY LastBelongs
  <1>2. \A x \in S : x <= t
    OBVIOUS
  <1>3. Last(S \cup T) = t
    BY <1>1, <1>2, LastIs
  <1> QED
    BY <1>1, <1>3

LEMMA LastOfBoth ==
    ASSUME NEW S, NEW T, S \subseteq Nat, T \subseteq Nat, S # {}, T # {},
           IsFiniteSet(S), IsFiniteSet(T)
    PROVE  Last(S \cup T) = Last(T \cup {Last(S)})
  <1>1. PICK s \in S : s = Last(S) /\ \A y \in S : y <= s
    BY LastBelongs
  <1>2. PICK t \in T : t = Last(T) /\ \A y \in T : y <= t
    BY LastBelongs
  <1>3. CASE s <= t
    <2>1. (\A y \in S : y <= t) /\ t \in Nat
      BY <1>1, <1>2, <1>3
    <2>2. Last(S \cup T) = t
      BY <1>2, <2>1, LastIs
    <2>3. Last(T \cup {s}) = t
      BY <1>2, <1>3, LastIs
    <2> QED
      BY <1>1, <2>2, <2>3
  <1>4. CASE t <= s
    <2>1. (\A y \in T : y <= s) /\ s \in Nat
      BY <1>1, <1>2, <1>4
    <2>2. Last(S \cup T) = s
      BY <1>1, <2>1, LastIs
    <2>3. Last(T \cup {s}) = s
      <3>1. T \cup {s} \subseteq Nat /\ \A y \in T \cup {s} : y <= s
        BY <2>1
      <3> QED
        BY <3>1, LastIs
    <2> QED
      BY <1>1, <2>2, <2>3
  <1>5. s \in Nat /\ t \in Nat
    OBVIOUS
  <1> QED
    BY <1>3, <1>4, <1>5

----------------------------------------------------------------------------
(* The projection of a journal, and of one that goes on *)

Log(events) ==
    /\ DOMAIN events \subseteq Nat /\ IsFiniteSet(DOMAIN events)
    /\ Elements(events) \subseteq AllEvents

Times(events, positions) == {events[i].created : i \in positions}

LEMMA TimesFinite ==
    ASSUME NEW events, Log(events), NEW P \in SUBSET DOMAIN events
    PROVE  Times(events, P) \subseteq Nat /\ IsFiniteSet(Times(events, P))
  <1>1. IsFiniteSet(P)
    BY FS_Subset DEF Log
  <1>2. \A i \in P : events[i] \in AllEvents
    BY DEF Log, Elements
  <1> DEFINE f == [i \in P |-> events[i].created]
  <1>3. f \in Surjection(P, Times(events, P))
    BY DEF Times, Surjection
  <1> QED
    BY <1>1, <1>2, <1>3, FS_Surjection, UploadsAssumption DEF Times

LEMMA ProjectedType ==
    ASSUME NEW events, Log(events), NEW mine \in SUBSET DOMAIN events, mine # {},
           NEW row \in Member \cup {None}
    PROVE  Projected(row, events, mine) \in Member
  <1> DEFINE times == Times(events, mine) \cup (IF row = None THEN {} ELSE {row.seen})
  <1>1. row # None => row \in Member
    OBVIOUS
  <1>2. times \subseteq Nat /\ times # {} /\ IsFiniteSet(times)
    <2>1. Times(events, mine) \subseteq Nat /\ IsFiniteSet(Times(events, mine))
      BY TimesFinite
    <2>2. Times(events, mine) # {}
      BY DEF Times
    <2>3. CASE row = None
      BY <2>1, <2>2, <2>3
    <2>4. CASE row # None
      <3>1. row.seen \in Nat
        BY <1>1, <2>4 DEF Member
      <3> QED
        BY <2>1, <2>2, <2>4, <3>1, FS_AddElement
    <2> QED
      BY <2>3, <2>4
  <1>3. Last(times) \in Nat
    BY <1>2, LastBelongs
  <1>4. \A e : RoleSet(e) \in KnownRoles /\ StateSet(e) \in {"joined", "left"}
    BY DEF RoleSet, SafeRole, KnownRoles, StateSet
  <1>5. "sailor" \in KnownRoles
    BY DEF KnownRoles
  <1> QED
    BY <1>1, <1>3, <1>4, <1>5, Zenon DEF Projected, Member, Times

LEMMA ProjectType ==
    ASSUME NEW events, Log(events), NEW rows \in [Devices -> Member \cup {None}]
    PROVE  Project(rows, events) \in [Devices -> Member \cup {None}]
  <1>1. \A d \in Devices : By(d, events) \in SUBSET DOMAIN events
    BY DEF By
  <1> QED
    BY <1>1, ProjectedType DEF Project

\* Only the events at the positions that count are read.
LEMMA ProjectedAlike ==
    ASSUME NEW J, Log(J), NEW P \in SUBSET DOMAIN J, NEW all, \A i \in P : all[i] = J[i]
    PROVE  Projected(None, J, P) = Projected(None, all, P)
  <1> DEFINE Naming(e) == {i \in P : SetsRole(e[i])}
             Moving(e) == {i \in P : SetsState(e[i])}
  <1>1. /\ Naming(all) = Naming(J) /\ Moving(all) = Moving(J)
        /\ Times(all, P) = Times(J, P)
    BY Zenon DEF Times
  <1>2. \A S \in SUBSET P : S # {} => Last(S) \in P
    BY LastBelongs, FS_Subset DEF Log
  <1>3. /\ Naming(J) # {} => all[Last(Naming(J))] = J[Last(Naming(J))]
        /\ Moving(J) # {} => all[Last(Moving(J))] = J[Last(Moving(J))]
    BY <1>2
  <1> QED
    BY <1>1, <1>3, Zenon DEF Projected, Times

\* Of a log that goes on with later positions, projecting it at once and
\* projecting the rest onto the rows of the first part is the same.
LEMMA ProjectedOn ==
    ASSUME NEW J, NEW F, Log(J), Log(F),
           NEW A \in SUBSET DOMAIN J, NEW B \in SUBSET DOMAIN F, A # {}, B # {},
           \A i \in A, k \in B : i < k,
           NEW all, \A i \in A : all[i] = J[i], \A k \in B : all[k] = F[k]
    PROVE  Projected(Projected(None, J, A), F, B) = Projected(None, all, A \cup B)
  <1> DEFINE row == Projected(None, J, A)
             Naming(e, P) == {i \in P : SetsRole(e[i])}
             Moving(e, P) == {i \in P : SetsState(e[i])}
  <1>0. row # None /\ row \in Member
    BY ProjectedType, NoneAssumption
  <1>1. /\ Naming(all, A \cup B) = Naming(J, A) \cup Naming(F, B)
        /\ Moving(all, A \cup B) = Moving(J, A) \cup Moving(F, B)
        /\ Times(all, A \cup B) = Times(J, A) \cup Times(F, B)
    BY Zenon DEF Times
  <1>2. \A P \in SUBSET A : P \subseteq Nat /\ IsFiniteSet(P)
    BY FS_Subset DEF Log
  <1>3. \A P \in SUBSET B : P \subseteq Nat /\ IsFiniteSet(P)
    BY FS_Subset DEF Log
  <1>4. \A P \in SUBSET A, Q \in SUBSET B :
            /\ Q # {} => Last(P \cup Q) \in Q /\ Last(P \cup Q) = Last(Q)
            /\ Q = {} /\ P # {} => Last(P \cup Q) \in P /\ Last(P \cup Q) = Last(P)
    <2> SUFFICES ASSUME NEW P \in SUBSET A, NEW Q \in SUBSET B
                 PROVE  /\ Q # {} => Last(P \cup Q) \in Q /\ Last(P \cup Q) = Last(Q)
                        /\ Q = {} /\ P # {} => Last(P \cup Q) \in P /\ Last(P \cup Q) = Last(P)
      OBVIOUS
    <2>1. CASE Q # {}
      <3>1. Last(P \cup Q) = Last(Q)
        BY <1>2, <1>3, <2>1, LastOfLater
      <3> QED
        BY <1>3, <2>1, <3>1, LastBelongs
    <2>2. CASE Q = {} /\ P # {}
      <3>1. P \cup Q = P
        BY <2>2
      <3> QED
        BY <1>2, <2>2, <3>1, LastBelongs
    <2> QED
      BY <2>1, <2>2
  <1> DEFINE whole == Projected(None, all, A \cup B)
             rest == Projected(row, F, B)
  <1>5. rest.role = whole.role
    <2> DEFINE P == Naming(J, A)
               Q == Naming(F, B)
    <2>1. whole.role = IF P \cup Q # {} THEN RoleSet(all[Last(P \cup Q)]) ELSE "sailor"
      BY <1>1 DEF Projected
    <2>2. rest.role = IF Q # {} THEN RoleSet(F[Last(Q)]) ELSE row.role
      BY <1>0 DEF Projected
    <2>3. row.role = IF P # {} THEN RoleSet(J[Last(P)]) ELSE "sailor"
      BY DEF Projected
    <2>4. P \in SUBSET A /\ Q \in SUBSET B
      OBVIOUS
    <2> HIDE DEF P, Q, whole, rest, row
    <2>5. CASE Q # {}
      BY <1>4, <2>1, <2>2, <2>4, <2>5
    <2>6. CASE Q = {} /\ P # {}
      BY <1>4, <2>1, <2>2, <2>3, <2>4, <2>6
    <2>7. CASE Q = {} /\ P = {}
      BY <2>1, <2>2, <2>3, <2>7
    <2> QED
      BY <2>5, <2>6, <2>7
  <1>6. rest.state = whole.state
    <2> DEFINE P == Moving(J, A)
               Q == Moving(F, B)
    <2>1. whole.state = IF P \cup Q # {} THEN StateSet(all[Last(P \cup Q)]) ELSE "joined"
      BY <1>1 DEF Projected
    <2>2. rest.state = IF Q # {} THEN StateSet(F[Last(Q)]) ELSE row.state
      BY <1>0 DEF Projected
    <2>3. row.state = IF P # {} THEN StateSet(J[Last(P)]) ELSE "joined"
      BY DEF Projected
    <2>4. P \in SUBSET A /\ Q \in SUBSET B
      OBVIOUS
    <2> HIDE DEF P, Q, whole, rest, row
    <2>5. CASE Q # {}
      BY <1>4, <2>1, <2>2, <2>4, <2>5
    <2>6. CASE Q = {} /\ P # {}
      BY <1>4, <2>1, <2>2, <2>3, <2>4, <2>6
    <2>7. CASE Q = {} /\ P = {}
      BY <2>1, <2>2, <2>3, <2>7
    <2> QED
      BY <2>5, <2>6, <2>7
  <1>7. rest.seen = whole.seen
    <2>1. whole.seen = Last(Times(J, A) \cup Times(F, B))
      <3>1. whole.seen = Last(Times(all, A \cup B) \cup {})
        BY DEF Projected, Times
      <3> QED
        BY <1>1, <3>1
    <2>2. row.seen = Last(Times(J, A))
      <3>1. row.seen = Last(Times(J, A) \cup {})
        BY DEF Projected, Times
      <3> QED
        BY <3>1
    <2>3. rest.seen = Last(Times(F, B) \cup {row.seen})
      BY <1>0 DEF Projected, Times
    <2>4. Times(J, A) # {} /\ Times(F, B) # {}
      BY DEF Times
    <2> HIDE DEF rest, whole, row
    <2> QED
      BY <2>1, <2>2, <2>3, <2>4, TimesFinite, LastOfBoth
  <1>8. /\ rest = [role |-> rest.role, state |-> rest.state, seen |-> rest.seen]
        /\ whole = [role |-> whole.role, state |-> whole.state, seen |-> whole.seen]
    BY DEF Projected
  <1> HIDE DEF rest, whole
  <1>9. rest = whole
    BY <1>5, <1>6, <1>7, <1>8
  <1> QED
    BY <1>9 DEF rest, whole, row

LEMMA ProjectOn ==
    ASSUME NEW J, NEW F, Log(J), Log(F),
           \A i \in DOMAIN J, k \in DOMAIN F : i < k
    PROVE  Project(Project(NoMembers, J), F) = Project(NoMembers, Merged(J, F))
  <1> DEFINE all == Merged(J, F)
  <1>1. /\ DOMAIN all = DOMAIN J \cup DOMAIN F
        /\ \A i \in DOMAIN J : all[i] = J[i]
        /\ \A k \in DOMAIN F : all[k] = F[k]
    <2>1. \A k \in DOMAIN F : k \notin DOMAIN J
      BY DEF Log
    <2> QED
      BY <2>1 DEF Merged
  <1> HIDE DEF all
  <1>2. ASSUME NEW d \in Devices
        PROVE  Project(Project(NoMembers, J), F)[d] = Project(NoMembers, all)[d]
    <2> DEFINE A == By(d, J)
               B == By(d, F)
    <2>1. /\ A \in SUBSET DOMAIN J /\ B \in SUBSET DOMAIN F
          /\ By(d, all) = A \cup B
      BY <1>1 DEF By
    <2>2. Project(NoMembers, J)[d] = IF A = {} THEN None ELSE Projected(None, J, A)
      BY DEF Project, NoMembers
    <2>3. Project(NoMembers, all)[d] = IF A \cup B = {} THEN None
                                       ELSE Projected(None, all, A \cup B)
      BY <2>1 DEF Project, NoMembers
    <2>4. Project(Project(NoMembers, J), F)[d] =
              IF B = {} THEN Project(NoMembers, J)[d]
              ELSE Projected(Project(NoMembers, J)[d], F, B)
      BY DEF Project
    <2> HIDE DEF A, B
    <2>5. CASE A = {} /\ B = {}
      BY <2>2, <2>3, <2>4, <2>5
    <2>6. CASE A # {} /\ B # {}
      <3>1. \A i \in A, k \in B : i < k
        BY <2>1
      <3>2. Projected(Projected(None, J, A), F, B) = Projected(None, all, A \cup B)
        BY <1>1, <2>1, <2>6, <3>1, ProjectedOn
      <3> QED
        BY <2>2, <2>3, <2>4, <2>6, <3>2
    <2>7. CASE A # {} /\ B = {}
      <3>1. Projected(None, J, A) = Projected(None, all, A)
        BY <1>1, <2>1, ProjectedAlike
      <3> QED
        BY <2>2, <2>3, <2>4, <2>7, <3>1
    <2>8. CASE A = {} /\ B # {}
      <3>1. Projected(None, F, B) = Projected(None, all, B)
        BY <1>1, <2>1, ProjectedAlike
      <3> QED
        BY <2>2, <2>3, <2>4, <2>8, <3>1
    <2> QED
      BY <2>5, <2>6, <2>7, <2>8
  <1> QED
    BY <1>2 DEF all, Project

----------------------------------------------------------------------------
(* What the steps make of a task *)

IsTask(q, state, batch, rows, table, rebuilt, todo, reserved, revoking, flushed) ==
    /\ q \in Task
    /\ q.state = state /\ q.batch = batch /\ q.rows = rows /\ q.table = table
    /\ q.rebuilt = rebuilt /\ q.todo = todo /\ q.reserved = reserved
    /\ q.revoking = revoking /\ q.flushed = flushed

LEMMA TaskFields ==
    ASSUME NEW r \in Task
    PROVE  /\ r.state \in {"idle", "queued", "sending"} /\ r.batch \in Batches \cup {<<>>}
           /\ r.rows \in [Devices -> Member \cup {None}]
           /\ r.table \in [Devices -> Registration \cup {None}] /\ r.rebuilt \in BOOLEAN
           /\ r.todo \in SUBSET (EventIds \X Devices) /\ r.reserved \in SUBSET Delivery
           /\ r.revoking \in SUBSET Devices /\ r.flushed \in SUBSET Devices
           /\ r = [state |-> r.state, batch |-> r.batch, rows |-> r.rows,
                   table |-> r.table, rebuilt |-> r.rebuilt, todo |-> r.todo,
                   reserved |-> r.reserved, revoking |-> r.revoking, flushed |-> r.flushed]
  BY DEF Task

LEMMA IdleTask == Idle \in Task
  BY DEF Idle, Task, NoMembers

LEMMA QueuedRecord ==
    ASSUME NEW batch \in Batches,
           NEW q, q = [Idle EXCEPT !.state = "queued", !.batch = batch]
    PROVE  q \in Task /\ q.state = "queued" /\ q.batch = batch /\ q.table = NoMembers
           /\ q.todo = {} /\ q.reserved = {} /\ q.revoking = {} /\ q.flushed = {}
  BY DEF Idle, Task, NoMembers

LEMMA BeganRecord ==
    ASSUME NEW r \in Task, NEW rows \in [Devices -> Member \cup {None}],
           NEW table \in [Devices -> Registration \cup {None}], NEW rebuilt \in BOOLEAN,
           NEW todo \in SUBSET (EventIds \X Devices),
           NEW q, q = [r EXCEPT !.state = "sending", !.rows = rows, !.table = table,
                                !.rebuilt = rebuilt, !.todo = todo]
    PROVE  IsTask(q, "sending", r.batch, rows, table, rebuilt, todo, r.reserved,
                  r.revoking, r.flushed)
  <1> DEFINE alike == [state : {r.state, "sending"}, batch : {r.batch}, rows : {r.rows, rows},
                       table : {r.table, table}, rebuilt : {r.rebuilt, rebuilt},
                       todo : {r.todo, todo}, reserved : {r.reserved},
                       revoking : {r.revoking}, flushed : {r.flushed}]
  <1>1. r \in alike
    BY TaskFields
  <1>2. q \in alike
    BY <1>1
  <1>3. q.state = "sending" /\ q.rows = rows /\ q.table = table /\ q.rebuilt = rebuilt
        /\ q.todo = todo
    BY <1>1
  <1>4. alike \subseteq Task
    BY TaskFields DEF Task
  <1> HIDE DEF alike
  <1>5. q.batch = r.batch /\ q.reserved = r.reserved /\ q.revoking = r.revoking
        /\ q.flushed = r.flushed
    BY <1>2 DEF alike
  <1> QED
    BY <1>2, <1>3, <1>4, <1>5 DEF IsTask

LEMMA TriedRecord ==
    ASSUME NEW r \in Task, NEW todo \in SUBSET (EventIds \X Devices),
           NEW reserved \in SUBSET Delivery, NEW flushed \in SUBSET Devices,
           NEW revoking \in SUBSET Devices,
           NEW q, q = [r EXCEPT !.todo = todo, !.reserved = reserved,
                                !.flushed = flushed, !.revoking = revoking]
    PROVE  IsTask(q, r.state, r.batch, r.rows, r.table, r.rebuilt, todo, reserved,
                  revoking, flushed)
  <1> DEFINE alike == [state : {r.state}, batch : {r.batch}, rows : {r.rows},
                       table : {r.table}, rebuilt : {r.rebuilt}, todo : {r.todo, todo},
                       reserved : {r.reserved, reserved}, revoking : {r.revoking, revoking},
                       flushed : {r.flushed, flushed}]
  <1>1. r \in alike
    BY TaskFields
  <1>2. q \in alike
    BY <1>1
  <1>3. q.todo = todo /\ q.reserved = reserved /\ q.flushed = flushed /\ q.revoking = revoking
    BY <1>1
  <1>4. alike \subseteq Task
    BY TaskFields DEF Task
  <1> HIDE DEF alike
  <1>5. q.state = r.state /\ q.batch = r.batch /\ q.rows = r.rows /\ q.table = r.table
        /\ q.rebuilt = r.rebuilt
    BY <1>1, <1>2 DEF alike
  <1> QED
    BY <1>2, <1>3, <1>4, <1>5 DEF IsTask

LEMMA CrossedRecord ==
    ASSUME NEW r \in Task, NEW todo \in SUBSET (EventIds \X Devices),
           NEW q, q = [r EXCEPT !.todo = todo]
    PROVE  IsTask(q, r.state, r.batch, r.rows, r.table, r.rebuilt, todo, r.reserved,
                  r.revoking, r.flushed)
  <1> DEFINE alike == [state : {r.state}, batch : {r.batch}, rows : {r.rows},
                       table : {r.table}, rebuilt : {r.rebuilt}, todo : {r.todo, todo},
                       reserved : {r.reserved}, revoking : {r.revoking}, flushed : {r.flushed}]
  <1>1. r \in alike
    BY TaskFields
  <1>2. q \in alike /\ q.todo = todo
    BY <1>1
  <1>3. alike \subseteq Task
    BY TaskFields DEF Task
  <1> HIDE DEF alike
  <1>4. q.state = r.state /\ q.batch = r.batch /\ q.rows = r.rows /\ q.table = r.table
        /\ q.rebuilt = r.rebuilt /\ q.reserved = r.reserved /\ q.revoking = r.revoking
        /\ q.flushed = r.flushed
    BY <1>1, <1>2 DEF alike
  <1> QED
    BY <1>2, <1>3, <1>4 DEF IsTask

----------------------------------------------------------------------------
(* What a dispatch has read stands until it commits *)

Sending(t) == tasks[t].state = "sending"

\* Told, about to be told, or on file already.
Addressed(task, event, d) ==
    \/ <<event, d>> \in task.todo
    \/ \E row \in deliveries \cup task.reserved : row.event = event /\ row.device = d

\* What a task that is sending knows of the voyage.
Informed(task) ==
    /\ task.rows = Project(NoMembers, journal)
    /\ task.rebuilt \/ ready
    /\ \A m \in Messages(task.batch) :
           \A d \in Recipients(m, task.rows, task.table) : Addressed(task, m.event, d)

TaskInv(task) ==
    /\ task.state # "sending" => task.reserved = {} /\ task.revoking = {} /\ task.flushed = {}
                                 /\ task.todo = {}
    /\ \A d \in Devices : task.table[d] # None \/ d \in task.revoking \cup task.flushed
                          => regs[d] # None
    /\ \A pair \in task.todo : /\ task.table[pair[2]] # None
                               /\ task.rows[pair[2]] # None
                               /\ task.rows[pair[2]].state # "left"
    /\ task.state = "sending" => Informed(task)

PushInv ==
    /\ PushTypeOK
    /\ Log(journal)
    /\ \A t, u \in Tasks : Sending(t) /\ Sending(u) => t = u
    /\ ready => members = Project(NoMembers, journal)
    /\ \A t \in Tasks : TaskInv(tasks[t])

LEMMA RecipientsShrink ==
    ASSUME now \in Nat, now' \in Nat, now <= now', NEW m, NEW table,
           NEW rows \in [Devices -> Member \cup {None}]
    PROVE  Recipients(m, rows, table)' \subseteq Recipients(m, rows, table)
  <1>1. \A d \in Devices : Reachable(rows, d)' => Reachable(rows, d)
    <2> SUFFICES ASSUME NEW d \in Devices, Reachable(rows, d)' PROVE Reachable(rows, d)
      OBVIOUS
    <2>1. rows[d] # None /\ rows[d].state # "left" /\ now' < rows[d].seen + ExpireAfter
      BY DEF Reachable
    <2>2. rows[d].seen \in Nat /\ ExpireAfter \in Nat
      BY <2>1, PushAssumption DEF Member
    <2> QED
      BY <2>1, <2>2 DEF Reachable
  <1> QED
    BY <1>1 DEF Recipients

\* What a step does to the rest may leave what a task knows as it is.
LEMMA TaskStands ==
    ASSUME NEW task \in Task, TaskInv(task), now \in Nat, now' \in Nat, now <= now',
           \A d \in Devices : regs[d] # None => regs'[d] # None,
           deliveries \subseteq deliveries', ready => ready',
           task.state = "sending" => journal' = journal
    PROVE  TaskInv(task)'
  <1>1. /\ task.state # "sending" => task.reserved = {} /\ task.revoking = {}
                                     /\ task.flushed = {} /\ task.todo = {}
        /\ \A d \in Devices : task.table[d] # None \/ d \in task.revoking \cup task.flushed
                              => regs'[d] # None
        /\ \A pair \in task.todo : /\ task.table[pair[2]] # None
                                   /\ task.rows[pair[2]] # None
                                   /\ task.rows[pair[2]].state # "left"
    BY DEF TaskInv
  <1>2. ASSUME task.state = "sending" PROVE Informed(task)'
    <2>1. Informed(task) /\ journal' = journal
      BY <1>2 DEF TaskInv
    <2>2. ASSUME NEW m \in Messages(task.batch), NEW d \in Recipients(m, task.rows, task.table)'
          PROVE  Addressed(task, m.event, d)'
      <3>1. d \in Recipients(m, task.rows, task.table)
        BY <2>2, RecipientsShrink, TaskFields
      <3>2. Addressed(task, m.event, d)
        BY <2>1, <3>1 DEF Informed
      <3> QED
        BY <3>2 DEF Addressed
    <2>3. Project(NoMembers, journal)' = Project(NoMembers, journal)
      BY <2>1 DEF Project, By, Projected
    <2> QED
      BY <2>1, <2>2, <2>3 DEF Informed
  <1> QED
    BY <1>1, <1>2 DEF TaskInv

\* A step that moves one task and leaves the journal alone.
LEMMA OneTaskStep ==
    ASSUME PushInv, NEW t \in Tasks, NEW task \in Task,
           tasks' = [tasks EXCEPT ![t] = task], TaskInv(task)',
           task.state = "sending" => Sending(t) \/ ~Locked,
           UNCHANGED <<now, journal>>, ready => ready', ready' \in BOOLEAN,
           ready' => members' = Project(NoMembers, journal),
           members' \in [Devices -> Member \cup {None}],
           regs' \in [Devices -> Registration \cup {None}],
           \A d \in Devices : regs[d] # None => regs'[d] # None,
           deliveries \subseteq deliveries', deliveries' \subseteq Delivery,
           attempts' \in [EventIds \X Devices -> Nat],
           syncs' \in Nat, changes' \in Nat, losses' \in Nat
    PROVE  PushInv'
  <1>1. /\ tasks' \in [Tasks -> Task] /\ tasks'[t] = task
        /\ \A u \in Tasks \ {t} : tasks'[u] = tasks[u]
    BY DEF PushInv, PushTypeOK
  <1>2. PushTypeOK'
    <2>1. Elements(journal)' = Elements(journal)
      BY DEF Elements
    <2> QED
      BY <1>1, <2>1 DEF PushInv, PushTypeOK
  <1>3. Log(journal)'
    BY DEF PushInv, Log
  <1>4. ASSUME NEW u \in Tasks \ {t} PROVE TaskInv(tasks[u])'
    BY TaskStands DEF PushInv, PushTypeOK
  <1>5. \A u \in Tasks : TaskInv(tasks[u])'
    <2>1. TaskInv(tasks[t])'
      BY <1>1
    <2> QED
      BY <1>4, <2>1
  <1>6. \A u, v \in Tasks : Sending(u)' /\ Sending(v)' => u = v
    BY <1>1 DEF PushInv, Sending, Locked
  <1>7. Project(NoMembers, journal)' = Project(NoMembers, journal)
    BY DEF Project, By, Projected
  <1> QED
    BY <1>2, <1>3, <1>5, <1>6, <1>7 DEF PushInv

\* A step that leaves the tasks and the journal alone.
LEMMA NoTaskStep ==
    ASSUME PushInv, UNCHANGED <<journal, ready, members, tasks, deliveries, attempts>>,
           regs' \in [Devices -> Registration \cup {None}],
           \A d \in Devices : regs[d] # None => regs'[d] # None,
           now' \in Nat, now <= now', syncs' \in Nat, changes' \in Nat, losses' \in Nat
    PROVE  PushInv'
  <1>1. PushTypeOK'
    BY DEF PushInv, PushTypeOK, Elements, AllEvents
  <1>2. Log(journal)'
    BY DEF PushInv, Log
  <1>3. ASSUME NEW u \in Tasks PROVE TaskInv(tasks[u])'
    BY TaskStands DEF PushInv, PushTypeOK
  <1>4. \A u \in Tasks : TaskInv(tasks[u])'
    BY <1>3
  <1>5. \A u, v \in Tasks : Sending(u)' /\ Sending(v)' => u = v
    BY DEF PushInv, Sending
  <1>6. Project(NoMembers, journal)' = Project(NoMembers, journal)
    BY DEF Project, By, Projected
  <1> QED
    BY <1>1, <1>2, <1>4, <1>5, <1>6 DEF PushInv

----------------------------------------------------------------------------
(* Each step keeps it *)

LEMMA BatchEvents ==
    ASSUME NEW batch \in Batches \cup {<<>>, Earlier}
    PROVE  /\ DOMAIN batch \subseteq Nat \ {0} /\ IsFiniteSet(DOMAIN batch)
           /\ Elements(batch) \subseteq AllEvents
  <1>1. CASE batch = <<>>
    BY <1>1, FS_EmptySet DEF Elements
  <1>2. CASE batch \in Batches \cup {Earlier}
    <2>1. batch \in Seq(AllEvents)
      BY <1>2, UploadsAssumption
    <2>2. DOMAIN batch = 1..Len(batch) /\ Len(batch) \in Nat
      BY <2>1
    <2>3. ASSUME NEW n \in Nat PROVE IsFiniteSet(1..n) /\ 1..n \subseteq Nat \ {0}
      BY FS_Interval
    <2>4. Elements(batch) \subseteq AllEvents
      <3>1. CASE batch = Earlier
        <4>1. Elements(Earlier) \subseteq AllEvents
          BY Zenon DEF AllEvents
        <4> QED
          BY <3>1, <4>1
      <3>2. CASE batch \in Batches
        BY <3>2 DEF AllEvents
      <3> QED
        BY <1>2, <3>1, <3>2
    <2> QED
      BY <2>2, <2>3, <2>4
  <1> QED
    BY <1>1, <1>2

LEMMA MessageEvents ==
    ASSUME NEW batch \in Batches \cup {<<>>}, NEW m \in Messages(batch)
    PROVE  m.event \in EventIds
  <1>1. PICK e \in Elements(batch) : m \in Classify(e)
    BY DEF Messages
  <1>2. e \in AllEvents
    BY BatchEvents
  <1>3. m.event = e.id
    BY <1>1 DEF Classify, Message
  <1> QED
    BY <1>2, <1>3 DEF EventIds

\* What is stored of an upload is numbered after what is there.
LEMMA NewestIs ==
    ASSUME NEW J, DOMAIN J \subseteq Nat, IsFiniteSet(DOMAIN J), J = journal
    PROVE  Newest \in Nat /\ \A n \in DOMAIN J : n <= Newest
  BY LastBelongs DEF Newest

LEMMA NewEventsLog ==
    ASSUME PushInv, NEW batch \in Batches
    PROVE  /\ Log(NewEvents(batch))
           /\ \A i \in DOMAIN journal, k \in DOMAIN NewEvents(batch) : i < k
  <1> DEFINE new == {i \in DOMAIN batch : batch[i].id \notin StoredIds /\ now < Deadline}
             F == NewEvents(batch)
             places == {Newest + i : i \in new}
             f == [i \in new |-> Newest + i]
  <1>1. /\ DOMAIN batch \subseteq Nat \ {0} /\ IsFiniteSet(DOMAIN batch)
        /\ Elements(batch) \subseteq AllEvents
    BY BatchEvents
  <1>2. Newest \in Nat /\ \A n \in DOMAIN journal : n <= Newest
    BY NewestIs DEF PushInv, Log
  <1>3. F = [n \in places |-> batch[n - Newest]]
    BY DEF NewEvents
  <1>4. IsFiniteSet(places)
    <2>1. f \in Surjection(new, places)
      BY DEF Surjection
    <2>2. IsFiniteSet(new)
      BY <1>1, FS_Subset
    <2> QED
      BY <2>1, <2>2, FS_Surjection
  <1>5. \A n \in places : n \in Nat /\ n > Newest /\ n - Newest \in DOMAIN batch
    BY <1>1, <1>2
  <1> HIDE DEF places, F
  <1>6. DOMAIN F = places /\ \A n \in places : F[n] \in Elements(batch)
    BY <1>3, <1>5 DEF Elements
  <1>7. Log(F)
    BY <1>1, <1>4, <1>5, <1>6 DEF Log, Elements
  <1>8. DOMAIN journal \subseteq Nat
    BY DEF PushInv, Log
  <1>9. \A i \in DOMAIN journal, k \in DOMAIN F : i < k
    BY <1>2, <1>5, <1>6, <1>8
  <1> QED
    BY <1>7, <1>9 DEF F

LEMMA MergedLog ==
    ASSUME NEW J, NEW F, Log(J), Log(F)
    PROVE  Log(Merged(J, F))
  <1>1. DOMAIN Merged(J, F) = DOMAIN J \cup DOMAIN F
    BY DEF Merged
  <1>2. \A n \in DOMAIN J \cup DOMAIN F :
            Merged(J, F)[n] = IF n \in DOMAIN J THEN J[n] ELSE F[n]
    BY DEF Merged
  <1>3. IsFiniteSet(DOMAIN J \cup DOMAIN F)
    BY FS_Union DEF Log
  <1> QED
    BY <1>1, <1>2, <1>3 DEF Log, Elements

LEMMA SyncKeeps ==
    ASSUME PushInv, NEW batch \in Batches, Sync(batch)
    PROVE  PushInv'
  <1> DEFINE task == [Idle EXCEPT !.state = "queued", !.batch = batch]
             F == NewEvents(batch)
  <1>1. PICK t \in Tasks : tasks[t].state = "idle" /\ tasks' = [tasks EXCEPT ![t] = task]
    BY DEF Sync
  <1>2. /\ task \in Task /\ task.state = "queued" /\ task.table = NoMembers
        /\ task.todo = {} /\ task.reserved = {} /\ task.revoking = {} /\ task.flushed = {}
    BY QueuedRecord
  <1> HIDE DEF task
  <1>3. /\ tasks' \in [Tasks -> Task] /\ tasks'[t] = task
        /\ \A u \in Tasks \ {t} : tasks'[u] = tasks[u]
    BY <1>1, <1>2 DEF PushInv, PushTypeOK
  <1>4. Log(F) /\ \A i \in DOMAIN journal, k \in DOMAIN F : i < k
    BY NewEventsLog
  <1>5. journal' = Merged(journal, F) /\ members' = Project(members, F)
    BY DEF Sync, JournalAfter, MembersAfter
  <1>6. UNCHANGED <<now, ready, regs, deliveries, attempts, changes, losses>>
        /\ syncs' = syncs + 1 /\ ~Locked
    BY DEF Sync
  <1> HIDE DEF F
  <1>7. Log(journal)'
    <2>1. Log(Merged(journal, F))
      BY <1>4, MergedLog DEF PushInv
    <2> QED
      BY <1>5, <2>1 DEF Log, Elements
  <1>8. members' \in [Devices -> Member \cup {None}]
    BY <1>4, <1>5, ProjectType DEF PushInv, PushTypeOK
  <1>9. PushTypeOK'
    BY <1>3, <1>6, <1>7, <1>8 DEF PushInv, PushTypeOK, Log
  <1>10. \A u, v \in Tasks : Sending(u)' /\ Sending(v)' => u = v
    BY <1>2, <1>3, <1>6 DEF Sending, Locked
  <1>11. ready' => members' = Project(NoMembers, journal)'
    <2> SUFFICES ASSUME ready PROVE members' = Project(NoMembers, journal)'
      BY <1>6
    <2>1. Project(Project(NoMembers, journal), F) = Project(NoMembers, Merged(journal, F))
      BY <1>4, ProjectOn DEF PushInv
    <2>2. members = Project(NoMembers, journal)
      BY DEF PushInv
    <2>3. Project(NoMembers, journal)' = Project(NoMembers, Merged(journal, F))
      BY <1>5 DEF Project, By, Projected
    <2> QED
      BY <1>5, <2>1, <2>2, <2>3
  <1>12. ASSUME NEW u \in Tasks PROVE TaskInv(tasks[u])'
    <2>1. CASE u = t
      <3>1. TaskInv(task)'
        BY <1>2 DEF TaskInv, NoMembers
      <3> QED
        BY <1>3, <2>1, <3>1
    <2>2. CASE u # t
      <3>1. tasks[u].state # "sending" /\ TaskInv(tasks[u]) /\ tasks[u] \in Task
        BY <1>6 DEF Locked, PushInv, PushTypeOK
      <3> QED
        BY <1>3, <1>6, <2>2, <3>1, TaskStands DEF PushInv, PushTypeOK
    <2> QED
      BY <2>1, <2>2
  <1> QED
    BY <1>7, <1>9, <1>10, <1>11, <1>12 DEF PushInv

LEMMA IdleInv == TaskInv(Idle)
  BY DEF TaskInv, Idle, NoMembers

LEMMA IdleStep ==
    ASSUME PushInv, NEW t \in Tasks, tasks' = [tasks EXCEPT ![t] = Idle],
           UNCHANGED <<now, journal, ready, members, regs, deliveries, attempts, syncs, changes>>,
           losses' \in Nat
    PROVE  PushInv'
  <1>1. TaskInv(Idle)'
    BY DEF TaskInv, Idle, NoMembers
  <1>2. Idle.state = "idle"
    BY DEF Idle
  <1> QED
    BY <1>1, <1>2, IdleTask, OneTaskStep DEF PushInv, PushTypeOK

LEMMA BeginKeeps ==
    ASSUME PushInv, NEW t \in Tasks, BeginDispatch(t)
    PROVE  PushInv'
  <1>1. PICK rows, todo, rebuilt, task :
            /\ rows = IF ready THEN members ELSE Project(NoMembers, journal)
            /\ todo = UNION {{m.event} \X Recipients(m, rows, regs) :
                             m \in Messages(tasks[t].batch)}
            /\ rebuilt = ~ready
            /\ task = [tasks[t] EXCEPT !.state = "sending", !.rows = rows, !.table = regs,
                                       !.rebuilt = rebuilt, !.todo = todo]
    OBVIOUS
  <1>2. /\ tasks[t].state = "queued" /\ ~Locked
        /\ UNCHANGED <<now, journal, ready, members, regs, deliveries, attempts,
                       syncs, changes, losses>>
    BY DEF BeginDispatch
  <1>3. tasks' = [tasks EXCEPT ![t] = task]
    <2>1. tasks \in [Tasks -> Task]
      BY DEF PushInv, PushTypeOK
    <2>2. tasks' = [tasks EXCEPT ![t].state = "sending", ![t].rows = rows, ![t].table = regs,
                                 ![t].rebuilt = rebuilt, ![t].todo = todo]
      <3>1. tasks' = [tasks EXCEPT
                ![t].state = "sending",
                ![t].rows = IF ready THEN members ELSE Project(NoMembers, journal),
                ![t].table = regs,
                ![t].rebuilt = ~ready,
                ![t].todo = UNION {{m.event} \X Recipients(m, IF ready THEN members
                                       ELSE Project(NoMembers, journal), regs) :
                                   m \in Messages(tasks[t].batch)}]
        BY Zenon DEF BeginDispatch
      <3> QED
        BY <1>1, <3>1, Zenon
    <2> QED
      BY <1>1, <2>1, <2>2
  <1>4. rows = Project(NoMembers, journal) /\ rows \in [Devices -> Member \cup {None}]
    <2>1. NoMembers \in [Devices -> Member \cup {None}]
      BY DEF NoMembers
    <2> QED
      BY <1>1, <2>1, ProjectType DEF PushInv
  <1>5. tasks[t] \in Task /\ TaskInv(tasks[t]) /\ regs \in [Devices -> Registration \cup {None}]
    BY DEF PushInv, PushTypeOK
  <1>6. todo \in SUBSET (EventIds \X Devices)
    <2>1. \A m \in Messages(tasks[t].batch) : m.event \in EventIds
      BY <1>5, MessageEvents, TaskFields
    <2>2. \A m : Recipients(m, rows, regs) \subseteq Devices
      BY DEF Recipients
    <2> QED
      BY <1>1, <2>1, <2>2
  <1>7. \A pair \in todo : /\ regs[pair[2]] # None /\ rows[pair[2]] # None
                           /\ rows[pair[2]].state # "left"
    <2>1. ASSUME NEW pair \in todo PROVE \E m : pair[2] \in Recipients(m, rows, regs)
      BY <1>1
    <2> QED
      BY <2>1 DEF Recipients, Reachable
  <1>8. /\ task \in Task /\ task.state = "sending" /\ task.rows = rows /\ task.table = regs
        /\ task.rebuilt = rebuilt /\ task.todo = todo /\ task.batch = tasks[t].batch
        /\ task.reserved = {} /\ task.revoking = {} /\ task.flushed = {}
    <2>1. tasks[t].reserved = {} /\ tasks[t].revoking = {} /\ tasks[t].flushed = {}
      BY <1>2, <1>5 DEF TaskInv
    <2>2. rebuilt \in BOOLEAN
      BY <1>1, Zenon
    <2>3. PICK r \in Task, table \in [Devices -> Registration \cup {None}] :
              r = tasks[t] /\ table = regs
      BY <1>5
    <2>4. task = [r EXCEPT !.state = "sending", !.rows = rows, !.table = table,
                           !.rebuilt = rebuilt, !.todo = todo]
      BY <1>1, <2>3
    <2>5. IsTask(task, "sending", r.batch, rows, table, rebuilt, todo, r.reserved, r.revoking,
                 r.flushed)
      BY <1>4, <1>6, <2>2, <2>3, <2>4, BeganRecord
    <2> QED
      BY <2>1, <2>3, <2>5 DEF IsTask
  <1>9. task.rebuilt \/ ready
    BY <1>1, <1>8, Zenon
  <1>10. \A m \in Messages(task.batch) :
            \A d \in Recipients(m, task.rows, task.table) : <<m.event, d>> \in task.todo
    BY <1>1, <1>8
  <1>11. Informed(task)
    BY <1>4, <1>8, <1>9, <1>10 DEF Informed, Addressed
  <1>12. TaskInv(task)'
    <2>1. TaskInv(task)
      BY <1>7, <1>8, <1>11 DEF TaskInv
    <2> QED
      BY <1>2, <1>8, <2>1, TaskStands DEF PushInv, PushTypeOK
  <1> QED
    BY <1>2, <1>3, <1>8, <1>12, OneTaskStep DEF PushInv, PushTypeOK

\* A step that crosses one recipient off, and may reserve it and call.
LEMMA CrossedOff ==
    ASSUME PushInv, NEW t \in Tasks, Sending(t), NEW pair \in tasks[t].todo,
           NEW reserved \in SUBSET Delivery, tasks[t].reserved \subseteq reserved,
           NEW revoking \in SUBSET Devices, NEW flushed \in SUBSET Devices,
           revoking \cup flushed \subseteq tasks[t].revoking \cup tasks[t].flushed \cup {pair[2]},
           \E row \in deliveries \cup reserved : row.event = pair[1] /\ row.device = pair[2],
           NEW task \in Task, tasks' = [tasks EXCEPT ![t] = task],
           task.todo = tasks[t].todo \ {pair}, task.reserved = reserved,
           task.revoking = revoking, task.flushed = flushed,
           task.state = tasks[t].state, task.batch = tasks[t].batch,
           task.rows = tasks[t].rows, task.table = tasks[t].table,
           task.rebuilt = tasks[t].rebuilt,
           UNCHANGED <<now, journal, ready, members, regs, deliveries, syncs, changes, losses>>,
           attempts' \in [EventIds \X Devices -> Nat]
    PROVE  PushInv'
  <1>1. TaskInv(tasks[t]) /\ tasks[t] \in Task
    BY DEF PushInv, PushTypeOK
  <1>2. Informed(tasks[t])
    BY <1>1 DEF TaskInv, Sending
  <1>3. ASSUME NEW m \in Messages(task.batch), NEW d \in Recipients(m, task.rows, task.table)
        PROVE  Addressed(task, m.event, d)
    <2>1. Addressed(tasks[t], m.event, d)
      BY <1>2 DEF Informed
    <2>2. CASE <<m.event, d>> = pair
      BY <2>2 DEF Addressed
    <2>3. CASE <<m.event, d>> # pair
      BY <2>1, <2>3 DEF Addressed
    <2> QED
      BY <2>2, <2>3
  <1>4. task.rebuilt \/ ready
    BY <1>2, Zenon DEF Informed
  <1>5. Informed(task)
    BY <1>2, <1>3, <1>4 DEF Informed
  <1>6. \A d \in Devices : task.table[d] # None \/ d \in task.revoking \cup task.flushed
                         => regs[d] # None
    <2>1. pair \in EventIds \X Devices
      BY <1>1, TaskFields
    <2>2. tasks[t].table[pair[2]] # None
      BY <1>1 DEF TaskInv
    <2> QED
      BY <1>1, <2>1, <2>2 DEF TaskInv
  <1>7. TaskInv(task)'
    <2>1. TaskInv(task)
      BY <1>1, <1>5, <1>6 DEF TaskInv, Sending
    <2> QED
      BY <2>1, TaskStands DEF PushInv, PushTypeOK
  <1> QED
    BY <1>7, OneTaskStep DEF PushInv, PushTypeOK

LEMMA AlreadyMakes ==
    ASSUME PushInv, NEW t \in Tasks, AlreadyAttempted(t)
    PROVE  \E pair \in tasks[t].todo, task \in Task :
               /\ ~Reservable(t, pair)
               /\ tasks' = [tasks EXCEPT ![t] = task]
               /\ IsTask(task, tasks[t].state, tasks[t].batch, tasks[t].rows, tasks[t].table,
                         tasks[t].rebuilt, tasks[t].todo \ {pair}, tasks[t].reserved,
                         tasks[t].revoking, tasks[t].flushed)
  <1>1. PICK pair \in tasks[t].todo : /\ ~Reservable(t, pair)
                                      /\ tasks' = [tasks EXCEPT ![t].todo = @ \ {pair}]
    BY DEF AlreadyAttempted
  <1>2. tasks \in [Tasks -> Task]
    BY DEF PushInv, PushTypeOK
  <1>3. PICK r, todo, task : /\ r \in Task /\ r = tasks[t] /\ todo = r.todo \ {pair}
                             /\ task = [r EXCEPT !.todo = todo]
    BY <1>2
  <1>4. tasks' = [tasks EXCEPT ![t] = task]
    BY <1>1, <1>2, <1>3
  <1>5. todo \in SUBSET (EventIds \X Devices)
    BY <1>3, TaskFields
  <1>6. IsTask(task, r.state, r.batch, r.rows, r.table, r.rebuilt, todo, r.reserved,
               r.revoking, r.flushed)
    BY <1>3, <1>5, CrossedRecord
  <1>7. task \in Task
    BY <1>6 DEF IsTask
  <1> WITNESS pair \in tasks[t].todo
  <1> USE <1>7
  <1> WITNESS task \in Task
  <1> QED
    BY <1>1, <1>3, <1>4, <1>6

LEMMA AttemptMakes ==
    ASSUME PushInv, NEW t \in Tasks, Attempt(t)
    PROVE  \E pair \in tasks[t].todo, row \in Delivery, flushed \in SUBSET Devices,
              revoking \in SUBSET Devices, task \in Task :
               /\ Reservable(t, pair)
               /\ row.event = pair[1] /\ row.device = pair[2]
               /\ revoking \cup flushed
                      \subseteq tasks[t].revoking \cup tasks[t].flushed \cup {pair[2]}
               /\ tasks' = [tasks EXCEPT ![t] = task]
               /\ IsTask(task, tasks[t].state, tasks[t].batch, tasks[t].rows, tasks[t].table,
                         tasks[t].rebuilt, tasks[t].todo \ {pair},
                         tasks[t].reserved \cup {row}, revoking, flushed)
               /\ attempts' = IF pair[2] \in Configured
                              THEN [attempts EXCEPT ![pair] = @ + 1] ELSE attempts
  <1>1. PICK pair \in tasks[t].todo, status \in {"delivered", "failed", "not_configured"} :
            LET d == pair[2]
                rejected == tasks[t].table[d].token \in Invalid
            IN  /\ Reservable(t, pair)
                /\ tasks' = [tasks EXCEPT
                       ![t].todo = @ \ {pair},
                       ![t].reserved = @ \cup {[event |-> pair[1], device |-> d,
                                                status |-> status]},
                       ![t].flushed = @ \cup tasks[t].revoking,
                       ![t].revoking = IF rejected /\ d \in Configured THEN {d} ELSE {}]
                /\ attempts' = IF d \in Configured
                               THEN [attempts EXCEPT ![pair] = @ + 1] ELSE attempts
    BY Zenon DEF Attempt
  <1>2. tasks \in [Tasks -> Task]
    BY DEF PushInv, PushTypeOK
  <1>3. PICK r, row, todo, reserved, flushed, revoking, task :
            /\ r \in Task /\ r = tasks[t]
            /\ row = [event |-> pair[1], device |-> pair[2], status |-> status]
            /\ todo = r.todo \ {pair}
            /\ reserved = r.reserved \cup {row}
            /\ flushed = r.flushed \cup r.revoking
            /\ revoking = IF r.table[pair[2]].token \in Invalid /\ pair[2] \in Configured
                          THEN {pair[2]} ELSE {}
            /\ task = [r EXCEPT !.todo = todo, !.reserved = reserved,
                                !.flushed = flushed, !.revoking = revoking]
    BY <1>2
  <1>4. tasks' = [tasks EXCEPT ![t] = task]
    <2>1. tasks' = [tasks EXCEPT ![t].todo = @ \ {pair}, ![t].reserved = @ \cup {row},
                                 ![t].flushed = @ \cup tasks[t].revoking,
                                 ![t].revoking = revoking]
      BY <1>1, <1>3, Zenon
    <2> QED
      BY <1>2, <1>3, <2>1
  <1>5. pair \in EventIds \X Devices
    BY <1>2, TaskFields
  <1>6. row \in Delivery /\ row.event = pair[1] /\ row.device = pair[2]
    BY <1>3, <1>5 DEF Delivery
  <1>7. /\ todo \in SUBSET (EventIds \X Devices) /\ reserved \in SUBSET Delivery
        /\ revoking \in SUBSET Devices /\ flushed \in SUBSET Devices
    BY <1>3, <1>5, <1>6, TaskFields
  <1>8. IsTask(task, r.state, r.batch, r.rows, r.table, r.rebuilt, todo, reserved,
               revoking, flushed)
    BY <1>3, <1>7, TriedRecord
  <1>9. revoking \cup flushed \subseteq r.revoking \cup r.flushed \cup {pair[2]}
    BY <1>3
  <1>10. todo = tasks[t].todo \ {pair} /\ reserved = tasks[t].reserved \cup {row}
    BY <1>3
  <1>11. task \in Task
    BY <1>8 DEF IsTask
  <1> USE <1>6, <1>7, <1>11
  <1> WITNESS pair \in tasks[t].todo
  <1> WITNESS row \in Delivery
  <1> WITNESS flushed \in SUBSET Devices
  <1> WITNESS revoking \in SUBSET Devices
  <1> WITNESS task \in Task
  <1> QED
    BY <1>1, <1>3, <1>4, <1>6, <1>8, <1>9, <1>10

LEMMA AlreadyKeeps ==
    ASSUME PushInv, NEW t \in Tasks, AlreadyAttempted(t)
    PROVE  PushInv'
  <1>1. PICK pair \in tasks[t].todo, task \in Task :
            /\ ~Reservable(t, pair)
            /\ tasks' = [tasks EXCEPT ![t] = task]
            /\ IsTask(task, tasks[t].state, tasks[t].batch, tasks[t].rows, tasks[t].table,
                      tasks[t].rebuilt, tasks[t].todo \ {pair}, tasks[t].reserved,
                      tasks[t].revoking, tasks[t].flushed)
    BY AlreadyMakes
  <1>2. /\ Sending(t) /\ attempts' \in [EventIds \X Devices -> Nat]
        /\ UNCHANGED <<now, journal, ready, members, regs, deliveries, syncs, changes, losses>>
    BY DEF AlreadyAttempted, Sending, PushInv, PushTypeOK
  <1>3. tasks[t] \in Task
    BY DEF PushInv, PushTypeOK
  <1>4. \E row \in deliveries \cup tasks[t].reserved : row.event = pair[1] /\ row.device = pair[2]
    BY <1>1 DEF Reservable
  <1> QED
    BY <1>1, <1>2, <1>3, <1>4, TaskFields, CrossedOff DEF IsTask

LEMMA AttemptKeeps ==
    ASSUME PushInv, NEW t \in Tasks, Attempt(t)
    PROVE  PushInv'
  <1>1. PICK pair \in tasks[t].todo, row \in Delivery, flushed \in SUBSET Devices,
             revoking \in SUBSET Devices, task \in Task :
            /\ Reservable(t, pair)
            /\ row.event = pair[1] /\ row.device = pair[2]
            /\ revoking \cup flushed
                   \subseteq tasks[t].revoking \cup tasks[t].flushed \cup {pair[2]}
            /\ tasks' = [tasks EXCEPT ![t] = task]
            /\ IsTask(task, tasks[t].state, tasks[t].batch, tasks[t].rows, tasks[t].table,
                      tasks[t].rebuilt, tasks[t].todo \ {pair},
                      tasks[t].reserved \cup {row}, revoking, flushed)
            /\ attempts' = IF pair[2] \in Configured
                           THEN [attempts EXCEPT ![pair] = @ + 1] ELSE attempts
    BY AttemptMakes, Zenon
  <1>2. Sending(t) /\ UNCHANGED <<now, journal, ready, members, regs, deliveries,
                                  syncs, changes, losses>>
    BY DEF Attempt, Sending
  <1>3. tasks[t] \in Task /\ pair \in EventIds \X Devices
    BY TaskFields DEF PushInv, PushTypeOK
  <1>4. attempts' \in [EventIds \X Devices -> Nat]
    <2>1. attempts \in [EventIds \X Devices -> Nat]
      BY DEF PushInv, PushTypeOK
    <2> QED
      BY <1>1, <1>3, <2>1
  <1>5. tasks[t].reserved \cup {row} \in SUBSET Delivery
    BY <1>3, TaskFields
  <1> QED
    BY <1>1, <1>2, <1>4, <1>5, CrossedOff DEF IsTask

LEMMA CommitKeeps ==
    ASSUME PushInv, NEW t \in Tasks, CommitDispatch(t)
    PROVE  PushInv'
  <1>1. /\ tasks[t].state = "sending"
        /\ tasks' = [tasks EXCEPT ![t] = Idle] /\ ready' = TRUE
        /\ UNCHANGED <<now, journal, attempts, syncs, changes, losses>>
    BY DEF CommitDispatch
  <1>2. tasks[t] \in Task /\ TaskInv(tasks[t]) /\ Informed(tasks[t])
    BY <1>1 DEF PushInv, PushTypeOK, TaskInv
  <1>3. members' = Project(NoMembers, journal)
    <2>1. CASE tasks[t].rebuilt
      BY <1>2, <2>1 DEF CommitDispatch, Informed
    <2>2. CASE ~tasks[t].rebuilt
      <3>1. ready
        BY <1>2, <2>2, Zenon DEF Informed
      <3> QED
        BY <2>2, <3>1 DEF CommitDispatch, PushInv
    <2> QED
      BY <2>1, <2>2
  <1>4. members' \in [Devices -> Member \cup {None}]
    <2>1. NoMembers \in [Devices -> Member \cup {None}]
      BY DEF NoMembers
    <2> QED
      BY <1>3, <2>1, ProjectType DEF PushInv
  <1>5. /\ regs' \in [Devices -> Registration \cup {None}]
        /\ \A d \in Devices : regs[d] # None => regs'[d] # None
    <2>1. regs \in [Devices -> Registration \cup {None}]
      BY DEF PushInv, PushTypeOK
    <2>2. ASSUME NEW d \in Devices
          PROVE  /\ regs'[d] \in Registration \cup {None}
                 /\ regs[d] # None => regs'[d] # None
      <3>1. regs'[d] = IF d \in tasks[t].revoking \cup tasks[t].flushed
                       THEN [regs[d] EXCEPT !.revoked = TRUE] ELSE regs[d]
        BY DEF CommitDispatch
      <3>2. CASE d \in tasks[t].revoking \cup tasks[t].flushed
        <4>1. regs[d] \in Registration
          BY <1>2, <2>1, <3>2 DEF TaskInv
        <4>2. [regs[d] EXCEPT !.revoked = TRUE] \in Registration
          BY <4>1 DEF Registration
        <4> QED
          BY <3>1, <3>2, <4>2, NoneAssumption
      <3>3. CASE d \notin tasks[t].revoking \cup tasks[t].flushed
        BY <2>1, <3>1, <3>3
      <3> QED
        BY <3>2, <3>3
    <2>3. regs' = [d \in Devices |-> regs'[d]]
      BY DEF CommitDispatch
    <2> QED
      BY <2>2, <2>3
  <1>6. deliveries \subseteq deliveries' /\ deliveries' \subseteq Delivery
    BY <1>2, TaskFields DEF CommitDispatch, PushInv, PushTypeOK
  <1>7. Idle.state # "sending" /\ TaskInv(Idle)'
    BY DEF TaskInv, Idle, NoMembers
  <1> QED
    BY <1>1, <1>3, <1>4, <1>5, <1>6, <1>7, IdleTask, OneTaskStep DEF PushInv, PushTypeOK

LEMMA PushBegins == PushInit /\ now = 0 => PushInv
  <1> SUFFICES ASSUME PushInit, now = 0 PROVE PushInv
    OBVIOUS
  <1>1. /\ ready \in BOOLEAN /\ (ready => journal = <<>>) /\ journal \in {<<>>, Earlier}
        /\ members = NoMembers /\ regs = NoMembers /\ deliveries = {}
        /\ tasks = [t \in Tasks |-> Idle] /\ attempts = [p \in EventIds \X Devices |-> 0]
        /\ syncs = 0 /\ changes = 0 /\ losses = 0
    BY DEF PushInit
  <1>2. Log(journal)
    <2>1. \A batch \in {<<>>, Earlier} : Log(batch)
      BY BatchEvents DEF Log
    <2> QED
      BY <1>1, <2>1
  <1>3. ready => members = Project(NoMembers, journal)
    <2> SUFFICES ASSUME journal = <<>> PROVE NoMembers = Project(NoMembers, journal)
      BY <1>1
    <2>1. \A d \in Devices : By(d, journal) = {}
      BY DEF By
    <2> QED
      BY <2>1 DEF Project, NoMembers
  <1>4. \A t \in Tasks : tasks[t] = Idle /\ tasks[t].state = "idle"
    BY <1>1 DEF Idle
  <1>5. \A t \in Tasks : TaskInv(tasks[t])
    BY <1>4, IdleInv
  <1>6. PushTypeOK
    <2>1. NoMembers \in [Devices -> Member \cup {None}]
          /\ NoMembers \in [Devices -> Registration \cup {None}]
      BY DEF NoMembers
    <2>2. now \in Nat /\ attempts \in [EventIds \X Devices -> Nat]
      BY <1>1
    <2>3. DOMAIN journal \subseteq Nat /\ Elements(journal) \subseteq AllEvents
      BY <1>2 DEF Log
    <2> QED
      BY <1>1, <2>1, <2>2, <2>3, IdleTask DEF PushTypeOK
  <1> QED
    BY <1>2, <1>3, <1>4, <1>5, <1>6 DEF PushInv, Sending

LEMMA PushKeeps ==
    ASSUME PushInv, PushNext
    PROVE  PushInv'
  <1>1. ASSUME NEW d \in Devices, NEW token \in Tokens, NEW choice \in Choices,
               Register(d, token, choice)
        PROVE  PushInv'
    <2>1. [token |-> token, preferences |-> choice, revoked |-> FALSE] \in Registration
      BY DEF Registration
    <2>2. /\ regs' \in [Devices -> Registration \cup {None}]
          /\ \A e \in Devices : regs[e] # None => regs'[e] # None
      BY <1>1, <2>1, NoneAssumption DEF Register, PushInv, PushTypeOK
    <2> QED
      BY <1>1, <2>2, NoTaskStep DEF Register, PushInv, PushTypeOK
  <1>2. ASSUME NEW d \in Devices, Revoke(d) PROVE PushInv'
    <2>1. regs \in [Devices -> Registration \cup {None}] /\ regs[d] \in Registration
      BY <1>2 DEF Revoke, PushInv, PushTypeOK
    <2>2. [regs[d] EXCEPT !.revoked = TRUE] \in Registration
      BY <2>1 DEF Registration
    <2>3. regs' = [regs EXCEPT ![d] = [regs[d] EXCEPT !.revoked = TRUE]]
      BY <1>2 DEF Revoke
    <2>4. /\ regs' \in [Devices -> Registration \cup {None}]
          /\ \A e \in Devices : regs[e] # None => regs'[e] # None
      BY <2>1, <2>2, <2>3, NoneAssumption
    <2> QED
      BY <1>2, <2>4, NoTaskStep DEF Revoke, PushInv, PushTypeOK
  <1>3. CASE PushTick
    BY <1>3, NoTaskStep DEF PushTick, TickTo, PushInv, PushTypeOK
  <1>4. ASSUME NEW t \in Tasks, NothingToTell(t) PROVE PushInv'
    BY <1>4, IdleStep DEF NothingToTell, PushInv, PushTypeOK
  <1>5. ASSUME NEW t \in Tasks, LoseTask(t) PROVE PushInv'
    <2>1. losses' \in Nat
      BY <1>5 DEF LoseTask, PushInv, PushTypeOK
    <2> QED
      BY <1>5, <2>1, IdleStep DEF LoseTask
  <1> QED
    BY <1>1, <1>2, <1>3, <1>4, <1>5, SyncKeeps, BeginKeeps, AlreadyKeeps, AttemptKeeps,
       CommitKeeps DEF PushNext

\* The other services move the clock at most.
LEMMA PushRests ==
    ASSUME PushInv, UNCHANGED pushVars, now' \in Nat, now <= now'
    PROVE  PushInv'
  BY NoTaskStep DEF pushVars, PushInv, PushTypeOK

----------------------------------------------------------------------------
(* What is called is recorded *)

\* An attempt at p is on file, or will be when the dispatch that made it commits.
Recorded(p) ==
    \/ \E row \in deliveries : <<row.event, row.device>> = p
    \/ \E t \in Tasks : \E row \in tasks[t].reserved : <<row.event, row.device>> = p

AttemptInv ==
    /\ PushInv
    /\ \A p \in EventIds \X Devices :
           attempts[p] <= losses + (IF Recorded(p) THEN 1 ELSE 0)

\* A step that calls nobody and forgets no reservation.
LEMMA QuietStep ==
    ASSUME AttemptInv, PushInv', losses' = losses, attempts' = attempts,
           deliveries \subseteq deliveries',
           \A t \in Tasks : tasks[t].reserved \subseteq tasks'[t].reserved \cup deliveries'
    PROVE  AttemptInv'
  <1>1. \A p \in EventIds \X Devices : Recorded(p) => Recorded(p)'
    BY DEF Recorded
  <1>2. ASSUME NEW p \in EventIds \X Devices
        PROVE  attempts'[p] <= losses' + (IF Recorded(p)' THEN 1 ELSE 0)
    <2>1. /\ attempts[p] \in Nat /\ losses \in Nat
          /\ attempts[p] <= losses + (IF Recorded(p) THEN 1 ELSE 0)
      BY DEF AttemptInv, PushInv, PushTypeOK
    <2> QED
      BY <1>1, <2>1
  <1> QED
    BY <1>2 DEF AttemptInv

\* A step that sets one task, which calls nobody, likewise.
LEMMA QuietTask ==
    ASSUME AttemptInv, PushInv', losses' = losses, attempts' = attempts,
           deliveries \subseteq deliveries', NEW t \in Tasks, NEW task,
           tasks' = [tasks EXCEPT ![t] = task],
           tasks[t].reserved \subseteq task.reserved \cup deliveries'
    PROVE  AttemptInv'
  <1>1. tasks'[t] = task /\ \A u \in Tasks \ {t} : tasks'[u] = tasks[u]
    BY DEF AttemptInv, PushInv, PushTypeOK
  <1> QED
    BY <1>1, QuietStep

\* What is called was not recorded, and is now.
LEMMA AttemptAttempts ==
    ASSUME AttemptInv, PushInv', NEW t \in Tasks, Attempt(t)
    PROVE  AttemptInv'
  <1>1. PICK pair \in tasks[t].todo, row \in Delivery, flushed \in SUBSET Devices,
             revoking \in SUBSET Devices, task \in Task :
            /\ Reservable(t, pair)
            /\ row.event = pair[1] /\ row.device = pair[2]
            /\ revoking \cup flushed
                   \subseteq tasks[t].revoking \cup tasks[t].flushed \cup {pair[2]}
            /\ tasks' = [tasks EXCEPT ![t] = task]
            /\ IsTask(task, tasks[t].state, tasks[t].batch, tasks[t].rows, tasks[t].table,
                      tasks[t].rebuilt, tasks[t].todo \ {pair},
                      tasks[t].reserved \cup {row}, revoking, flushed)
            /\ attempts' = IF pair[2] \in Configured
                           THEN [attempts EXCEPT ![pair] = @ + 1] ELSE attempts
    BY AttemptMakes, Zenon DEF AttemptInv
  <1>2. Sending(t) /\ UNCHANGED <<losses, deliveries>>
    BY DEF Attempt, Sending
  <1>3. /\ tasks' \in [Tasks -> Task] /\ tasks'[t] = task
        /\ \A u \in Tasks \ {t} : tasks'[u] = tasks[u] /\ tasks[u].reserved = {}
        /\ pair \in EventIds \X Devices
        /\ task.reserved = tasks[t].reserved \cup {row}
    <2>1. tasks \in [Tasks -> Task] /\ pair \in EventIds \X Devices
      BY TaskFields DEF AttemptInv, PushInv, PushTypeOK
    <2>2. \A u \in Tasks \ {t} : tasks[u].reserved = {}
      BY <1>2 DEF AttemptInv, PushInv, TaskInv, Sending
    <2> QED
      BY <1>1, <2>1, <2>2 DEF IsTask
  <1>4. \A p \in EventIds \X Devices : Recorded(p) => Recorded(p)'
    <2>1. \A u \in Tasks : tasks[u].reserved \subseteq tasks'[u].reserved
      BY <1>3
    <2> QED
      BY <1>2, <2>1 DEF Recorded
  <1>5. ~Recorded(pair) /\ Recorded(pair)'
    <2>1. pair = <<pair[1], pair[2]>>
      BY <1>3
    <2>2. row \in tasks'[t].reserved /\ <<row.event, row.device>> = pair
      BY <1>1, <1>3, <2>1
    <2> QED
      BY <1>1, <1>3, <2>2 DEF Recorded, Reservable
  <1>6. ASSUME NEW p \in EventIds \X Devices
        PROVE  attempts'[p] <= losses + (IF Recorded(p)' THEN 1 ELSE 0)
    <2>1. /\ attempts \in [EventIds \X Devices -> Nat]
          /\ attempts[p] \in Nat /\ losses \in Nat
          /\ attempts[p] <= losses + (IF Recorded(p) THEN 1 ELSE 0)
      BY DEF AttemptInv, PushInv, PushTypeOK
    <2>2. CASE attempts'[p] = attempts[p]
      BY <1>4, <2>1, <2>2
    <2>3. CASE p = pair /\ attempts'[p] = attempts[p] + 1
      <3>1. attempts[p] <= losses
        BY <1>5, <2>1, <2>3
      <3>2. Recorded(p)'
        BY <1>5, <2>3
      <3> QED
        BY <2>1, <2>3, <3>1, <3>2
    <2> QED
      BY <1>1, <2>1, <2>2, <2>3
  <1> QED
    BY <1>2, <1>6 DEF AttemptInv

LEMMA AttemptKept ==
    ASSUME AttemptInv, PushInv', PushNext
    PROVE  AttemptInv'
  <1>1. \A t \in Tasks : tasks[t].state # "sending" => tasks[t].reserved = {}
    BY DEF AttemptInv, PushInv, TaskInv
  <1>2. ASSUME NEW batch \in Batches, Sync(batch) PROVE AttemptInv'
    <2>1. PICK t, task : t \in Tasks /\ tasks[t].state = "idle" /\ tasks' = [tasks EXCEPT ![t] = task]
      BY <1>2 DEF Sync
    <2>2. tasks[t].reserved = {}
      BY <1>1, <2>1
    <2> QED
      BY <1>2, <2>1, <2>2, QuietTask DEF Sync
  <1>3. ASSUME NEW t \in Tasks, BeginDispatch(t) PROVE AttemptInv'
    <2>1. PICK task : tasks' = [tasks EXCEPT ![t] = task]
      BY <1>3 DEF BeginDispatch
    <2>2. tasks[t].reserved = {}
      BY <1>1, <1>3 DEF BeginDispatch
    <2> QED
      BY <1>3, <2>1, <2>2, QuietTask DEF BeginDispatch
  <1>4. ASSUME NEW t \in Tasks, NothingToTell(t) PROVE AttemptInv'
    <2>1. tasks[t].reserved = {}
      BY <1>1, <1>4 DEF NothingToTell
    <2> QED
      BY <1>4, <2>1, QuietTask DEF NothingToTell
  <1>5. ASSUME NEW t \in Tasks, AlreadyAttempted(t) PROVE AttemptInv'
    <2>1. PICK task : /\ tasks' = [tasks EXCEPT ![t] = task]
                      /\ task.reserved = tasks[t].reserved
      BY <1>5, AlreadyMakes DEF AttemptInv, IsTask
    <2> QED
      BY <1>5, <2>1, QuietTask DEF AlreadyAttempted
  <1>6. ASSUME NEW t \in Tasks, CommitDispatch(t) PROVE AttemptInv'
    BY <1>6, QuietTask DEF CommitDispatch
  <1>7. ASSUME NEW t \in Tasks, LoseTask(t) PROVE AttemptInv'
    <2>1. losses' = losses + 1 /\ attempts' = attempts
      BY <1>7 DEF LoseTask
    <2>2. ASSUME NEW p \in EventIds \X Devices
          PROVE  attempts'[p] <= losses' + (IF Recorded(p)' THEN 1 ELSE 0)
      <3>1. /\ attempts[p] \in Nat /\ losses \in Nat
            /\ attempts[p] <= losses + (IF Recorded(p) THEN 1 ELSE 0)
        BY DEF AttemptInv, PushInv, PushTypeOK
      <3> QED
        BY <2>1, <3>1
    <2> QED
      BY <2>2 DEF AttemptInv
  <1>8. ASSUME NEW d \in Devices, NEW token \in Tokens, NEW choice \in Choices,
               Register(d, token, choice)
        PROVE  AttemptInv'
    BY <1>8, QuietStep DEF Register
  <1>9. ASSUME NEW d \in Devices, Revoke(d) PROVE AttemptInv'
    BY <1>9, QuietStep DEF Revoke
  <1>10. CASE PushTick
    BY <1>10, QuietStep DEF PushTick
  <1> QED
    BY <1>2, <1>3, <1>4, <1>5, <1>6, <1>7, <1>8, <1>9, <1>10, AttemptAttempts DEF PushNext

----------------------------------------------------------------------------
(* The theorems *)

LEMMA AttemptBegins ==
    ASSUME now = 0, PushInit PROVE AttemptInv
  <1>1. /\ losses = 0 /\ attempts = [p \in EventIds \X Devices |-> 0]
        /\ PushInv
    BY PushBegins DEF PushInit
  <1>2. \A p \in EventIds \X Devices :
            attempts[p] <= losses + (IF Recorded(p) THEN 1 ELSE 0)
    BY <1>1
  <1> QED
    BY <1>1, <1>2 DEF AttemptInv

LEMMA AttemptsCounted ==
    ASSUME AttemptInv PROVE AtMostOneAttempt
  <1> SUFFICES ASSUME NEW p \in DOMAIN attempts PROVE attempts[p] <= 1 + losses
    BY DEF AtMostOneAttempt
  <1>1. /\ p \in EventIds \X Devices /\ attempts[p] \in Nat /\ losses \in Nat
        /\ attempts[p] <= losses + (IF Recorded(p) THEN 1 ELSE 0)
    BY DEF AttemptInv, PushInv, PushTypeOK
  <1> QED
    BY <1>1

LEMMA ProjectionKept ==
    ASSUME AttemptInv PROVE ProjectionIsTheJournal
  BY DEF AttemptInv, PushInv, ProjectionIsTheJournal

\* What a dispatch has read stands until it commits, and what it has called is
\* recorded: the invariant the theorems that follow rest on.
THEOREM PushInvariant == PushSpec => []AttemptInv
  <1>1. now = 0 /\ PushInit => AttemptInv
    BY AttemptBegins
  <1>2. AttemptInv /\ [PushNext]_<<now, pushVars>> => AttemptInv'
    <2> SUFFICES ASSUME AttemptInv, [PushNext]_<<now, pushVars>> PROVE AttemptInv'
      OBVIOUS
    <2>1. PushInv /\ now \in Nat
      BY DEF AttemptInv, PushInv, PushTypeOK
    <2>2. CASE PushNext
      BY <2>1, <2>2, PushKeeps, AttemptKept
    <2>3. CASE UNCHANGED <<now, pushVars>>
      <3>1. PushInv'
        BY <2>1, <2>3, PushRests
      <3> QED
        BY <2>3, <3>1, QuietStep DEF pushVars
    <2> QED
      BY <2>2, <2>3
  <1> QED
    BY <1>1, <1>2, PTL DEF PushSpec

\* "One provider attempt per durable event and recipient registration"
\* (models.py): however often an upload is repeated and however many tasks
\* dispatch it, only a dispatch that was lost can be heard again.
THEOREM OneAttemptEach == PushSpec => []AtMostOneAttempt
  <1>1. AttemptInv => AtMostOneAttempt
    BY AttemptsCounted
  <1> QED
    BY <1>1, PushInvariant, PTL

\* The member rows kept up to date upload by upload, through repeated events,
\* lost dispatches and a rebuild in the middle of a voyage, are the projection
\* of the journal.
THEOREM ProjectionAlwaysTheJournal == PushSpec => []ProjectionIsTheJournal
  <1>1. AttemptInv => ProjectionIsTheJournal
    BY ProjectionKept
  <1> QED
    BY <1>1, PushInvariant, PTL

\* No step calls a provider for a device whose sailor the journal says has left.
THEOREM NobodyWhoLeftHears == PushSpec => LeftHearNothing
  <1>1. AttemptInv /\ [PushNext]_<<now, pushVars>> =>
            [\A p \in DOMAIN attempts :
                 attempts'[p] > attempts[p] =>
                     LET row == Project(NoMembers, journal)[p[2]]
                     IN  row # None /\ row.state # "left"]_pushVars
    <2> SUFFICES ASSUME AttemptInv, [PushNext]_<<now, pushVars>>,
                        NEW p \in DOMAIN attempts, attempts'[p] > attempts[p]
                 PROVE  /\ Project(NoMembers, journal)[p[2]] # None
                        /\ Project(NoMembers, journal)[p[2]].state # "left"
      BY Zenon
    <2>1. attempts \in [EventIds \X Devices -> Nat] /\ attempts[p] \in Nat
      BY DEF AttemptInv, PushInv, PushTypeOK
    <2>2. attempts' # attempts
      BY <2>1
    <2>3. PICK t \in Tasks : Attempt(t)
      BY <2>2 DEF PushNext, Sync, Register, Revoke, NothingToTell, BeginDispatch,
         AlreadyAttempted, CommitDispatch, LoseTask, PushTick, pushVars
    <2>4. PICK pair \in tasks[t].todo :
              attempts' = IF pair[2] \in Configured
                          THEN [attempts EXCEPT ![pair] = @ + 1] ELSE attempts
      BY <2>3, AttemptMakes DEF AttemptInv
    <2>5. p = pair
      BY <2>1, <2>4
    <2>6. TaskInv(tasks[t]) /\ tasks[t].state = "sending"
      BY <2>3 DEF Attempt, AttemptInv, PushInv
    <2> QED
      BY <2>5, <2>6 DEF TaskInv, Informed
  <1> QED
    BY <1>1, PushInvariant, PTL DEF PushSpec, LeftHearNothing

\* When a dispatch commits, each coordinator it found registered, aboard and
\* not silent has been put an assistance call that named nobody.
THEOREM UrgentAlwaysReachesCoordinators == PushSpec => UrgentReachesCoordinators
  <1>1. AttemptInv /\ [PushNext]_<<now, pushVars>> =>
            [\A t \in Tasks :
               tasks[t].state = "sending" /\ tasks'[t].state = "idle" /\ losses' = losses =>
                   \A e \in Elements(tasks[t].batch), d \in Devices :
                       LET row == Project(NoMembers, journal)[d]
                       IN  /\ e.type = "statusMessage" /\ e.detail = "assistance"
                           /\ e.recipients = {} /\ e.device # d
                           /\ tasks[t].table[d] # None /\ ~tasks[t].table[d].revoked
                           /\ row # None
                           /\ row.role \in CoordinatorRoles /\ Reachable(Project(NoMembers, journal), d)
                           => \E x \in deliveries' : x.event = e.id /\ x.device = d]_pushVars
    <2> SUFFICES ASSUME AttemptInv, [PushNext]_<<now, pushVars>>, NEW t \in Tasks,
                        tasks[t].state = "sending", tasks'[t].state = "idle", losses' = losses,
                        NEW e \in Elements(tasks[t].batch), NEW d \in Devices,
                        e.type = "statusMessage", e.detail = "assistance",
                        e.recipients = {}, e.device # d,
                        tasks[t].table[d] # None, ~tasks[t].table[d].revoked,
                        Project(NoMembers, journal)[d] # None,
                        Project(NoMembers, journal)[d].role \in CoordinatorRoles,
                        Reachable(Project(NoMembers, journal), d)
                 PROVE  \E x \in deliveries' : x.event = e.id /\ x.device = d
      BY Zenon
    <2>1. PushInv /\ tasks \in [Tasks -> Task] /\ losses \in Nat
      BY DEF AttemptInv, PushInv, PushTypeOK
    <2>2. TaskInv(tasks[t]) /\ Informed(tasks[t])
      BY <2>1 DEF PushInv, TaskInv
    <2>3. CommitDispatch(t)
      <3>1. ASSUME tasks'[t] = tasks[t] PROVE FALSE
        BY <3>1
      <3>2. ASSUME NEW u \in Tasks, u # t, NEW task, tasks' = [tasks EXCEPT ![u] = task]
            PROVE  FALSE
        BY <2>1, <3>1, <3>2
      <3>3. ASSUME NEW batch \in Batches, Sync(batch) PROVE FALSE
        BY <3>2, <3>3 DEF Sync
      <3>4. ASSUME NEW u \in Tasks, NothingToTell(u) PROVE FALSE
        BY <3>2, <3>4 DEF NothingToTell
      <3>5. ASSUME NEW u \in Tasks, BeginDispatch(u) PROVE FALSE
        <4>1. PICK task : tasks' = [tasks EXCEPT ![u] = task] /\ tasks[u].state = "queued"
          BY <3>5 DEF BeginDispatch
        <4> QED
          BY <3>2, <4>1
      <3>6. ASSUME NEW u \in Tasks, AlreadyAttempted(u) PROVE FALSE
        <4>1. PICK task : tasks' = [tasks EXCEPT ![u] = task] /\ task.state = tasks[u].state
          BY <2>1, <3>6, AlreadyMakes DEF IsTask
        <4> QED
          BY <2>1, <3>2, <4>1
      <3>7. ASSUME NEW u \in Tasks, Attempt(u) PROVE FALSE
        <4>1. PICK task : tasks' = [tasks EXCEPT ![u] = task] /\ task.state = tasks[u].state
          BY <2>1, <3>7, AttemptMakes DEF IsTask
        <4> QED
          BY <2>1, <3>2, <4>1
      <3>8. ASSUME NEW u \in Tasks, LoseTask(u) PROVE FALSE
        BY <2>1, <3>8 DEF LoseTask
      <3>9. ASSUME NEW u \in Tasks, CommitDispatch(u) PROVE u = t
        BY <3>2, <3>9 DEF CommitDispatch
      <3>10. PushNext
        BY <3>1 DEF pushVars
      <3> QED
        BY <3>1, <3>3, <3>4, <3>5, <3>6, <3>7, <3>8, <3>9, <3>10
        DEF PushNext, Register, Revoke, PushTick
    <2> DEFINE m == Message(e, "safety", TRUE, e.recipients, NamedOrCoordinators(e), FALSE)
    <2>4. m \in Messages(tasks[t].batch)
      <3>1. Classify(e) = {m}
        BY DEF Classify
      <3> QED
        BY <3>1 DEF Messages
    <2>5. d \in Recipients(m, tasks[t].rows, tasks[t].table)
      <3>1. /\ m.sender = e.device /\ m.critical = TRUE /\ m.roles = CoordinatorRoles
        BY DEF Message, NamedOrCoordinators
      <3>2. tasks[t].rows = Project(NoMembers, journal)
        BY <2>2 DEF Informed
      <3>3. Targets(m, tasks[t].rows, d) /\ PreferenceAllows(m, tasks[t].table[d])
        BY <3>1, <3>2 DEF Targets, PreferenceAllows
      <3> HIDE DEF m
      <3> QED
        BY <3>1, <3>2, <3>3 DEF Recipients
    <2>6. Addressed(tasks[t], e.id, d)
      BY <2>2, <2>4, <2>5 DEF Informed, Message
    <2> QED
      BY <2>3, <2>6 DEF Addressed, CommitDispatch
  <1> QED
    BY <1>1, PushInvariant, PTL DEF PushSpec, UrgentReachesCoordinators
=============================================================================
