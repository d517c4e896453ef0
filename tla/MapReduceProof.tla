--------------------------- MODULE MapReduceProof ---------------------------
(***************************************************************************)
(* Theorems about MapReduce, for any finite sets of tasks, any workers,    *)
(* any number of crashes and of slow attempts: GetTask always finds the    *)
(* task it counted on, a monitor only takes back its own attempt, and the  *)
(* job implements Job.                                                     *)
(***************************************************************************)
EXTENDS MapReduce, FiniteSetTheorems, TLAPS

\* The counters tell how many tasks are done, and no such task is running.
CountsExact ==
    /\ finishedMap = Cardinality(done \cap MapTask)
    /\ finishedReduce = Cardinality(done \cap ReduceTask)
    /\ running \cap done = {}

\* An unfinished task that has a monitor has no other one, and it is the
\* monitor of the attempt in the map of running tasks.
MonitorsOwn ==
    \A m \in monitors : m.task \notin done =>
      /\ m.task \in running /\ m.ch = made[m.task]
      /\ \A n \in monitors : n.task = m.task => n = m

\* The files of the tasks that were counted are there.
FilesThere ==
    /\ \A t \in done \cap MapTask, r \in ReduceTask : <<t, r>> \in mid
    /\ \A r \in done \cap ReduceTask : out[r] = MapTask

MapSound(w) ==
    work[w].at = "map" =>
      /\ work[w].task \in MapTask
      /\ \A r \in ReduceTask \ work[w].todo : <<work[w].task, r>> \in mid

ReduceSound(w) ==
    /\ work[w].at = "reduce" => work[w].task \in ReduceTask /\ MapTask \subseteq done
    /\ work[w].at = "write" => work[w].task \in ReduceTask /\ work[w].seen = MapTask

ReportSound(w) ==
    work[w].at = "report" =>
      /\ work[w].task \in Task
      /\ work[w].task \in MapTask => \A r \in ReduceTask : <<work[w].task, r>> \in mid
      /\ work[w].task \in ReduceTask => out[work[w].task] = MapTask

ExitSound(w) == work[w].at = "exited" => Task \subseteq done

\* What a worker has written and read so far.
WorkSound(w) == MapSound(w) /\ ReduceSound(w) /\ ReportSound(w) /\ ExitSound(w)

\* main returns only when everything is done.
MainSound == main = "down" => Task \subseteq done

\* The inductive invariant.
JobInv ==
    /\ TypeOK /\ CountsExact /\ MonitorsOwn /\ FilesThere /\ MainSound
    /\ \A w \in Worker : WorkSound(w)

-----------------------------------------------------------------------------
(* Counting.                                                               *)

\* Of a finite set, more elements than are in R or in D: one is in neither.
LEMMA CountLeft ==
    ASSUME NEW S, IsFiniteSet(S), NEW R, NEW D, R \cap D = {}
    PROVE  Cardinality(S) > Cardinality(R \cap S) + Cardinality(D \cap S)
             <=> \E t \in S : t \notin R /\ t \notin D
<1> DEFINE A == R \cap S
           B == D \cap S
<1>1. IsFiniteSet(A) /\ IsFiniteSet(B)
  BY FS_Subset
<1>2. A \cap B = {} /\ A \cup B \in SUBSET S
  OBVIOUS
<1>3. Cardinality(A \cup B) = Cardinality(A) + Cardinality(B)
  <2>1. Cardinality(A \cup B) = Cardinality(A) + Cardinality(B) - Cardinality(A \cap B)
    BY <1>1, FS_Union
  <2>2. Cardinality(A \cap B) = 0 /\ Cardinality(A) \in Nat /\ Cardinality(B) \in Nat
    BY <1>1, <1>2, FS_EmptySet, FS_CardinalityType
  <2> HIDE DEF A, B
  <2> QED BY <2>1, <2>2
<1>4. /\ Cardinality(A \cup B) <= Cardinality(S)
      /\ Cardinality(S) = Cardinality(A \cup B) => S = A \cup B
      /\ IsFiniteSet(A \cup B)
  BY <1>2, FS_Subset
<1>5. Cardinality(S) \in Nat /\ Cardinality(A \cup B) \in Nat
  BY <1>4, FS_CardinalityType
<1>6. Cardinality(S) > Cardinality(A \cup B) <=> S # A \cup B
  BY <1>4, <1>5
<1>7. S # A \cup B <=> \E t \in S : t \notin R /\ t \notin D
  BY <1>2
<1> QED BY <1>3, <1>6, <1>7

\* GetTask's arithmetic tells whether an idle task exists.
LEMMA LeftIdle ==
    ASSUME TypeOK, CountsExact
    PROVE  AssignSound
<1>1. Left(MapTask, finishedMap) <=> \E t \in MapTask : Idle(t)
  BY CountLeft, TaskAssumption DEF Left, Idle, CountsExact
<1>2. Left(ReduceTask, finishedReduce) <=> \E t \in ReduceTask : Idle(t)
  BY CountLeft, TaskAssumption DEF Left, Idle, CountsExact
<1> QED BY <1>1, <1>2 DEF AssignSound

\* Reduce tasks are handed out, and workers dismissed, only after the maps.
LEMMA MapsDone ==
    ASSUME TypeOK, CountsExact, ~MapsPending
    PROVE  MapTask \subseteq done
BY LeftIdle DEF MapsPending, AssignSound, Idle

\* Counting the tasks that are done counts all of them only at the end.
LEMMA DoneMeansDone ==
    ASSUME TypeOK, CountsExact, Done
    PROVE  Task \subseteq done
<1>1. done \cap MapTask \in SUBSET MapTask /\ done \cap ReduceTask \in SUBSET ReduceTask
  OBVIOUS
<1>2. done \cap MapTask = MapTask
  BY <1>1, FS_Subset, TaskAssumption DEF Done, CountsExact
<1>3. done \cap ReduceTask = ReduceTask
  BY <1>1, FS_Subset, TaskAssumption DEF Done, CountsExact
<1> QED BY <1>2, <1>3 DEF Task

-----------------------------------------------------------------------------
(* The invariant.                                                          *)

\* Files and finished tasks only become more: what a worker has done stays.
LEMMA WorkKept ==
    ASSUME TypeOK, NEW w \in Worker, WorkSound(w), work'[w] = work[w],
           mid \subseteq mid', done \subseteq done',
           \A r \in ReduceTask : out[r] = MapTask => out'[r] = MapTask
    PROVE  WorkSound(w)'
BY DEF TypeOK, Works, WorkSound, MapSound, ReduceSound, ReportSound, ExitSound, Task

\* MakeCoordinator.
LEMMA JobInit == Init => JobInv
<1> SUFFICES ASSUME Init PROVE JobInv
  OBVIOUS
<1>1. TypeOK
  BY DEF Init, TypeOK, NoWork, Works, Stages
<1>2. CountsExact
  BY FS_EmptySet DEF Init, CountsExact
<1>3. \A w \in Worker : WorkSound(w)
  BY DEF Init, NoWork, WorkSound, MapSound, ReduceSound, ReportSound, ExitSound
<1> QED BY <1>1, <1>2, <1>3 DEF JobInv, Init, MonitorsOwn, FilesThere, MainSound

\* GetTask, handing out a task.
LEMMA AssignInv ==
    ASSUME JobInv, NEW w \in Worker, NEW t \in Task, Assign(w, t),
           t \in ReduceTask => ~MapsPending
    PROVE  JobInv'
<1>1. TypeOK'
  BY DEF JobInv, TypeOK, Assign, Works, Stages, Task, files
<1>2. CountsExact'
  BY DEF JobInv, CountsExact, Assign, Idle
<1>3. MonitorsOwn'
  <2>1. \A m \in monitors : m.task # t
    BY DEF JobInv, MonitorsOwn, Assign, Idle
  <2>2. \A u \in Task : u # t => made'[u] = made[u]
    BY DEF JobInv, TypeOK, Assign
  <2>3. made'[t] = made[t] + 1
    BY DEF JobInv, TypeOK, Assign
  <2>4. \A m \in monitors : m.task \in Task
    BY DEF JobInv, TypeOK
  <2> QED BY <2>1, <2>2, <2>3, <2>4 DEF JobInv, MonitorsOwn, Assign
<1>4. FilesThere' /\ MainSound'
  BY DEF JobInv, FilesThere, MainSound, Assign, files
<1>5. WorkSound(w)'
  <2>1. t \in ReduceTask => MapTask \subseteq done
    BY MapsDone DEF JobInv
  <2>2. work'[w] = [at |-> IF t \in MapTask THEN "map" ELSE "reduce", task |-> t,
                    ch |-> made[t] + 1, todo |-> ReduceTask, seen |-> {}]
    BY DEF JobInv, TypeOK, Assign
  <2> QED BY <2>1, <2>2
          DEF WorkSound, MapSound, ReduceSound, ReportSound, ExitSound, Assign, Task
<1>6. ASSUME NEW v \in Worker, v # w PROVE WorkSound(v)'
  <2>1. work'[v] = work[v]
    BY <1>6 DEF JobInv, TypeOK, Assign
  <2> QED BY <2>1, WorkKept DEF JobInv, Assign, files
<1> QED BY <1>1, <1>2, <1>3, <1>4, <1>5, <1>6 DEF JobInv

\* A step that changes only where worker w is, which then owes nothing, or
\* ends.
LEMMA LeaveInv ==
    ASSUME JobInv, NEW w \in Worker, NEW s \in {"exited", "crashed"},
           work' = [work EXCEPT ![w].at = s],
           s = "exited" => Task \subseteq done,
           UNCHANGED <<coordinator, monitors, main, files, slow>>
    PROVE  JobInv'
<1>1. TypeOK'
  BY DEF JobInv, TypeOK, Works, Stages, coordinator, files
<1>2. CountsExact' /\ MonitorsOwn' /\ FilesThere' /\ MainSound'
  BY DEF JobInv, CountsExact, MonitorsOwn, FilesThere, MainSound, coordinator, files
<1>3. work'[w].at = s
  BY DEF JobInv, TypeOK, Works
<1>4. WorkSound(w)'
  BY <1>3 DEF WorkSound, MapSound, ReduceSound, ReportSound, ExitSound, coordinator
<1>5. ASSUME NEW v \in Worker, v # w PROVE WorkSound(v)'
  <2>1. work'[v] = work[v]
    BY <1>5 DEF JobInv, TypeOK
  <2> QED BY <2>1, WorkKept DEF JobInv, coordinator, files
<1> QED BY <1>1, <1>2, <1>4, <1>5 DEF JobInv

\* GetTask.
LEMMA GetTaskInv ==
    ASSUME JobInv, NEW w \in Worker, GetTask(w), ~UNCHANGED vars
    PROVE  JobInv'
<1>1. CASE \E t \in MapTask : Assign(w, t)
  BY <1>1, AssignInv, TaskAssumption DEF Task
<1>2. CASE ~MapsPending /\ \E t \in ReduceTask : Assign(w, t)
  BY <1>2, AssignInv DEF Task
<1>3. CASE ~MapsPending /\ ~Left(ReduceTask, finishedReduce) /\ running \cap ReduceTask = {}
           /\ Dismiss(w)
  <2>1. MapTask \subseteq done
    BY <1>3, MapsDone DEF JobInv
  <2>2. ReduceTask \subseteq done
    BY <1>3, LeftIdle DEF JobInv, AssignSound, Idle
  <2> QED BY <1>3, <2>1, <2>2, LeaveInv DEF Dismiss, Task
<1> QED BY <1>1, <1>2, <1>3 DEF GetTask, Wait

\* FinishTask.
LEMMA FinishTaskInv ==
    ASSUME JobInv, NEW w \in Worker, FinishTask(w)
    PROVE  JobInv'
<1> DEFINE t == work[w].task
<1>0. ReportSound(w) /\ work[w].at = "report" /\ t \in Task
  BY DEF JobInv, WorkSound, ReportSound, FinishTask
<1>1. TypeOK'
  BY <1>0 DEF JobInv, TypeOK, FinishTask, MarkDone, NoWork, Works, Stages, files
<1>2. CountsExact'
  <2>1. CASE Counted(t) /\ MarkDone(t)
    <3>1. t \notin done
      BY <2>1 DEF Counted, JobInv, CountsExact
    <3>2. IsFiniteSet(done \cap MapTask) /\ IsFiniteSet(done \cap ReduceTask)
      BY FS_Subset, TaskAssumption
    <3>3. CASE t \in MapTask
      <4>1. done' \cap MapTask = (done \cap MapTask) \cup {t} /\ done' \cap ReduceTask = done \cap ReduceTask
        BY <2>1, <3>3, TaskAssumption DEF MarkDone
      <4> QED BY <2>1, <3>1, <3>2, <3>3, <4>1, FS_AddElement, TaskAssumption
              DEF MarkDone, FinishTask, JobInv, CountsExact
    <3>4. CASE t \in ReduceTask
      <4>1. done' \cap ReduceTask = (done \cap ReduceTask) \cup {t} /\ done' \cap MapTask = done \cap MapTask
        BY <2>1, <3>4, TaskAssumption DEF MarkDone
      <4> QED BY <2>1, <3>1, <3>2, <3>4, <4>1, FS_AddElement, TaskAssumption
              DEF MarkDone, FinishTask, JobInv, CountsExact
    <3> QED BY <1>0, <3>3, <3>4 DEF Task
  <2>2. CASE ~Counted(t) /\ UNCHANGED <<finishedMap, finishedReduce, done>>
    BY <2>2 DEF FinishTask, JobInv, CountsExact
  <2> QED BY <2>1, <2>2 DEF FinishTask
<1>3. MonitorsOwn'
  BY DEF JobInv, MonitorsOwn, FinishTask, Counted, MarkDone
<1>4. done \subseteq done' /\ done' \subseteq done \cup {t}
  BY DEF FinishTask, MarkDone
<1>5. FilesThere' /\ MainSound'
  BY <1>0, <1>4 DEF JobInv, FilesThere, MainSound, ReportSound, FinishTask, files
<1>6. WorkSound(w)'
  <2>1. work'[w] = NoWork
    BY DEF JobInv, TypeOK, FinishTask
  <2> QED BY <2>1 DEF NoWork, WorkSound, MapSound, ReduceSound, ReportSound, ExitSound
<1>7. ASSUME NEW v \in Worker, v # w PROVE WorkSound(v)'
  <2>1. work'[v] = work[v]
    BY <1>7 DEF JobInv, TypeOK, FinishTask
  <2> QED BY <1>4, <2>1, WorkKept DEF JobInv, FinishTask, files
<1> QED BY <1>1, <1>2, <1>3, <1>5, <1>6, <1>7 DEF JobInv

\* A step that leaves tasks, workers and files alone.
LEMMA QuietInv ==
    ASSUME JobInv, TypeOK', MonitorsOwn', MainSound',
           running' \subseteq running,
           UNCHANGED <<finishedMap, finishedReduce, done, made, work, files>>
    PROVE  JobInv'
<1>1. CountsExact'
  BY DEF JobInv, CountsExact
<1>2. FilesThere'
  BY DEF JobInv, FilesThere, files
<1>3. \A w \in Worker : WorkSound(w)'
  BY WorkKept DEF JobInv, files
<1> QED BY <1>1, <1>2, <1>3 DEF JobInv

\* mrcoordinator's main.
LEMMA MainReturnsInv ==
    ASSUME JobInv, MainReturns
    PROVE  JobInv'
<1>1. TypeOK'
  BY DEF JobInv, TypeOK, MainReturns, coordinator, files
<1>2. MonitorsOwn'
  BY DEF MonitorsOwn, MainReturns
<1>3. MainSound'
  BY DoneMeansDone DEF JobInv, MainSound, MainReturns, coordinator
<1> QED BY <1>1, <1>2, <1>3, QuietInv DEF MainReturns, coordinator

\* TaskMonitor.
LEMMA MonitorInv ==
    ASSUME JobInv, NEW m \in monitors, Expire(m) \/ TimeOut(m) \/ Cancel(m)
    PROVE  JobInv'
<1>1. CASE Expire(m)
  <2>1. TypeOK'
    BY <1>1 DEF JobInv, TypeOK, Expire, coordinator, files
  <2>2. MonitorsOwn'
    <3> DEFINE f == [m EXCEPT !.at = "fired"]
    <3>1. f.task = m.task /\ f.ch = m.ch
      BY DEF JobInv, TypeOK
    <3>2. monitors' = (monitors \ {m}) \cup {f} /\ UNCHANGED <<running, done, made>>
      BY <1>1 DEF Expire, coordinator
    <3>3. \A n \in monitors \ {m} : n.task = m.task => n.task \in done
      BY DEF JobInv, MonitorsOwn
    <3> HIDE DEF f
    <3>4. ASSUME NEW n \in monitors', n.task \notin done'
          PROVE  /\ n.task \in running' /\ n.ch = made'[n.task]
                 /\ \A q \in monitors' : q.task = n.task => q = n
      <4>1. CASE n = f
        BY <3>1, <3>2, <3>3, <3>4, <4>1 DEF JobInv, MonitorsOwn
      <4>2. CASE n \in monitors \ {m}
        BY <3>1, <3>2, <3>3, <3>4, <4>2 DEF JobInv, MonitorsOwn
      <4> QED BY <3>2, <4>1, <4>2
    <3> QED BY <3>4 DEF MonitorsOwn
  <2> QED BY <1>1, <2>1, <2>2, QuietInv DEF Expire, coordinator, JobInv, MainSound
<1>2. CASE TimeOut(m)
  <2>1. TypeOK'
    BY <1>2 DEF JobInv, TypeOK, TimeOut, Forget, files
  <2>2. MonitorsOwn'
    BY <1>2 DEF JobInv, MonitorsOwn, TimeOut, Forget
  <2> QED BY <1>2, <2>1, <2>2, QuietInv DEF TimeOut, Forget, JobInv, MainSound
<1>3. CASE Cancel(m)
  <2>1. TypeOK' /\ MonitorsOwn'
    BY <1>3 DEF JobInv, TypeOK, MonitorsOwn, Cancel, coordinator, files
  <2> QED BY <1>3, <2>1, QuietInv DEF Cancel, coordinator, JobInv, MainSound
<1> QED BY <1>1, <1>2, <1>3

\* A step of worker w on its own: it changes its place and its files.
LEMMA OwnWorkInv ==
    ASSUME JobInv, NEW w \in Worker, TypeOK', WorkSound(w)',
           \A v \in Worker : v # w => work'[v] = work[v],
           mid \subseteq mid', \A r \in ReduceTask : out[r] = MapTask => out'[r] = MapTask,
           UNCHANGED <<coordinator, monitors, main>>
    PROVE  JobInv'
<1>1. CountsExact' /\ MonitorsOwn' /\ MainSound'
  BY DEF JobInv, CountsExact, MonitorsOwn, MainSound, coordinator
<1>2. FilesThere'
  BY DEF JobInv, FilesThere, coordinator
<1>3. \A v \in Worker : v # w => WorkSound(v)'
  BY WorkKept DEF JobInv, coordinator
<1> QED BY <1>1, <1>2, <1>3 DEF JobInv

\* Worker, renaming an intermediate file.
LEMMA MapRenameInv ==
    ASSUME JobInv, NEW w \in Worker, MapRename(w)
    PROVE  JobInv'
<1>1. PICK r \in work[w].todo :
        /\ mid' = mid \cup {<<work[w].task, r>>}
        /\ work' = [work EXCEPT ![w].todo = @ \ {r},
                                ![w].at = IF work[w].todo = {r} THEN "report" ELSE @]
  BY DEF MapRename
<1>2. /\ work[w].at = "map" /\ work[w].task \in MapTask /\ r \in ReduceTask
      /\ work[w] \in Works
      /\ \A q \in ReduceTask \ work[w].todo : <<work[w].task, q>> \in mid
  BY DEF JobInv, TypeOK, Works, WorkSound, MapSound, MapRename
<1>3. /\ work'[w].task = work[w].task /\ work'[w].todo = work[w].todo \ {r}
      /\ work'[w].at = IF work[w].todo = {r} THEN "report" ELSE "map"
      /\ work'[w] \in Works
  BY <1>1, <1>2 DEF JobInv, TypeOK, Works, Stages
<1>4. \A v \in Worker : v # w => work'[v] = work[v]
  BY <1>1 DEF JobInv, TypeOK
<1>5. TypeOK'
  <2>1. work' \in [Worker -> Works]
    BY <1>1, <1>3, <1>4 DEF JobInv, TypeOK
  <2> QED BY <1>1, <1>2, <2>1 DEF JobInv, TypeOK, MapRename, coordinator
<1>6. WorkSound(w)'
  <2>1. \A q \in ReduceTask \ work'[w].todo : <<work[w].task, q>> \in mid'
    BY <1>1, <1>2, <1>3
  <2>2. work'[w].at = "report" => \A q \in ReduceTask : <<work[w].task, q>> \in mid'
    BY <1>3, <2>1
  <2>3. work[w].task \in Task /\ work[w].task \notin ReduceTask
    BY <1>2, TaskAssumption DEF Task
  <2> QED BY <1>2, <1>3, <2>1, <2>2, <2>3
          DEF WorkSound, MapSound, ReduceSound, ReportSound, ExitSound
<1> QED BY <1>1, <1>4, <1>5, <1>6, OwnWorkInv DEF MapRename

\* Worker, reading the intermediate files.
LEMMA ReduceReadInv ==
    ASSUME JobInv, NEW w \in Worker, ReduceRead(w)
    PROVE  JobInv'
<1>1. work[w] \in Works /\ work[w].task \in ReduceTask /\ MapTask \subseteq done
  BY DEF JobInv, TypeOK, WorkSound, ReduceSound, ReduceRead
<1>2. {m \in MapTask : <<m, work[w].task>> \in mid} = MapTask
  BY <1>1 DEF JobInv, FilesThere
<1>3. /\ work'[w].task = work[w].task /\ work'[w].seen = MapTask
      /\ work'[w].at = "write" /\ work'[w] \in Works
  BY <1>1, <1>2 DEF JobInv, TypeOK, Works, Stages, ReduceRead
<1>4. \A v \in Worker : v # w => work'[v] = work[v]
  BY DEF JobInv, TypeOK, ReduceRead
<1>5. TypeOK'
  <2>1. work' \in [Worker -> Works]
    BY <1>3, <1>4 DEF JobInv, TypeOK, ReduceRead
  <2> QED BY <2>1 DEF JobInv, TypeOK, ReduceRead, coordinator, files
<1>6. WorkSound(w)'
  BY <1>1, <1>3 DEF WorkSound, MapSound, ReduceSound, ReportSound, ExitSound
<1> QED BY <1>4, <1>5, <1>6, OwnWorkInv DEF ReduceRead, files

\* Worker, renaming the output file.
LEMMA ReduceRenameInv ==
    ASSUME JobInv, NEW w \in Worker, ReduceRename(w)
    PROVE  /\ JobInv'
           /\ out' = [out EXCEPT ![work[w].task] = MapTask]
           /\ work[w].task \in ReduceTask
<1>1. work[w] \in Works /\ work[w].task \in ReduceTask /\ work[w].seen = MapTask
  BY DEF JobInv, TypeOK, WorkSound, ReduceSound, ReduceRename
<1>2. out' = [out EXCEPT ![work[w].task] = MapTask]
  BY <1>1 DEF ReduceRename
<1>3. /\ work'[w].task = work[w].task /\ work'[w].at = "report" /\ work'[w] \in Works
  BY <1>1 DEF JobInv, TypeOK, Works, Stages, ReduceRename
<1>4. \A v \in Worker : v # w => work'[v] = work[v]
  BY DEF JobInv, TypeOK, ReduceRename
<1>5. TypeOK'
  <2>1. work' \in [Worker -> Works]
    BY <1>3, <1>4 DEF JobInv, TypeOK, ReduceRename
  <2> QED BY <1>2, <2>1 DEF JobInv, TypeOK, ReduceRename, coordinator
<1>6. out'[work[w].task] = MapTask
  BY <1>1, <1>2 DEF JobInv, TypeOK
<1>7. WorkSound(w)'
  BY <1>1, <1>3, <1>6, TaskAssumption
     DEF WorkSound, MapSound, ReduceSound, ReportSound, ExitSound, Task
<1>8. \A r \in ReduceTask : out[r] = MapTask => out'[r] = MapTask
  BY <1>1, <1>2 DEF JobInv, TypeOK
<1> QED BY <1>1, <1>2, <1>4, <1>5, <1>7, <1>8, OwnWorkInv DEF ReduceRename

\* Every step keeps the invariant.
LEMMA JobStep == JobInv /\ [Next]_vars => JobInv'
<1> SUFFICES ASSUME JobInv, [Next]_vars PROVE JobInv'
  OBVIOUS
<1>1. CASE UNCHANGED vars
  BY <1>1 DEF vars, coordinator, files, JobInv, TypeOK, CountsExact, MonitorsOwn, FilesThere,
              MainSound, WorkSound, MapSound, ReduceSound, ReportSound, ExitSound
<1>2. CASE MainReturns
  BY <1>2, MainReturnsInv
<1>3. CASE \E m \in monitors : Expire(m) \/ TimeOut(m) \/ Cancel(m)
  BY <1>3, MonitorInv
<1>4. ASSUME NEW w \in Worker, GetTask(w), ~UNCHANGED vars PROVE JobInv'
  BY <1>4, GetTaskInv
<1>5. ASSUME NEW w \in Worker, FinishTask(w) PROVE JobInv'
  BY <1>5, FinishTaskInv
<1>6. ASSUME NEW w \in Worker, MapRename(w) PROVE JobInv'
  BY <1>6, MapRenameInv
<1>7. ASSUME NEW w \in Worker, ReduceRead(w) PROVE JobInv'
  BY <1>7, ReduceReadInv
<1>8. ASSUME NEW w \in Worker, ReduceRename(w) PROVE JobInv'
  BY <1>8, ReduceRenameInv
<1>9. ASSUME NEW w \in Worker, Unanswered(w) PROVE JobInv'
  BY <1>9, LeaveInv DEF Unanswered, JobInv, MainSound
<1>10. ASSUME NEW w \in Worker, Crash(w) PROVE JobInv'
  BY <1>10, LeaveInv DEF Crash
<1> QED BY <1>1, <1>2, <1>3, <1>4, <1>5, <1>6, <1>7, <1>8, <1>9, <1>10 DEF Next, WorkerStep

\* The invariant holds in every reachable state.
THEOREM JobCorrect == Spec => []JobInv
BY JobInit, JobStep, PTL DEF Spec

\* GetTask finds a task whenever its counters say that one is left, for any
\* number of tasks, workers, crashes and time-outs.
THEOREM AssignCorrect == Spec => []AssignSound
<1>1. JobInv => AssignSound
  BY LeftIdle DEF JobInv
<1> QED BY <1>1, JobCorrect, PTL

\* TaskMonitor takes back only the attempt that it watches.
THEOREM TimeOutCorrect == Spec => TimeOutOwn
<1>1. JobInv => \A m \in monitors : TimeOut(m) /\ m.task \in running => m.ch = made[m.task]
  BY DEF JobInv, MonitorsOwn, CountsExact
<1> QED BY <1>1, JobCorrect, PTL DEF TimeOutOwn

-----------------------------------------------------------------------------
(* Refinement.                                                             *)

\* Everything is done only when every output file is complete.
LEMMA OutputComplete ==
    ASSUME JobInv, Task \subseteq done
    PROVE  \A r \in ReduceTask : out[r] = MapTask
BY DEF JobInv, FilesThere, Task

\* Somebody was told that the job is over.
Over == main = "down" \/ \E w \in Worker : work[w].at = "exited"

\* Steps that publish nothing; whoever ends, ends after the last output.
LEMMA SilentStep ==
    ASSUME JobInv, JobInv', UNCHANGED out, Over => Over'
    PROVE  [Model!Next]_(Model!vars)
<1>1. CASE Over' = Over
  BY <1>1 DEF Over, Model!vars
<1>2. CASE ~Over /\ Over'
  <2>1. Task \subseteq done'
    BY <1>2 DEF Over, JobInv, MainSound, WorkSound, ExitSound
  <2>2. \A r \in ReduceTask : out'[r] = MapTask
    BY <2>1 DEF JobInv, FilesThere, Task
  <2> QED BY <1>2, <2>2 DEF Over, Model!Next, Model!Finish
<1> QED BY <1>1, <1>2 DEF Over

\* Each step of the program is a step of Job, or leaves Job as it is.
LEMMA JobRefines ==
    ASSUME JobInv, JobInv', [Next]_vars
    PROVE  [Model!Next]_(Model!vars)
<1>1. CASE UNCHANGED vars
  BY <1>1, SilentStep DEF vars, coordinator, files, Over
<1>2. CASE MainReturns
  BY <1>2, SilentStep DEF MainReturns, files, Over
<1>3. CASE \E m \in monitors : Expire(m) \/ TimeOut(m) \/ Cancel(m)
  BY <1>3, SilentStep DEF Expire, TimeOut, Cancel, files, Over
<1>4. ASSUME NEW w \in Worker, WorkerStep(w) \/ Crash(w), ~ReduceRename(w), ~UNCHANGED vars
      PROVE  [Model!Next]_(Model!vars)
  <2>1. work[w].at # "exited" /\ work \in [Worker -> Works]
    BY <1>4 DEF JobInv, TypeOK, WorkerStep, GetTask, FinishTask, MapRename, ReduceRead, Unanswered, Crash, Gone
  <2>2. \A v \in Worker : v # w => work'[v] = work[v]
    BY <1>4, <2>1 DEF WorkerStep, GetTask, Assign, Wait, Dismiss, FinishTask, MapRename,
                      ReduceRead, Unanswered, Crash
  <2>3. UNCHANGED <<out, main>>
    BY <1>4 DEF WorkerStep, GetTask, Assign, Wait, Dismiss, FinishTask, MapRename,
                ReduceRead, Unanswered, Crash, files
  <2>4. Over => Over'
    BY <2>1, <2>2, <2>3 DEF Over
  <2> QED BY <2>3, <2>4, SilentStep
<1>5. ASSUME NEW w \in Worker, ReduceRename(w)
      PROVE  [Model!Next]_(Model!vars)
  <2>1. out' = [out EXCEPT ![work[w].task] = MapTask] /\ work[w].task \in ReduceTask
    BY <1>5, ReduceRenameInv
  <2>2. \A v \in Worker : work'[v].at = "exited" <=> work[v].at = "exited"
    BY <1>5 DEF JobInv, TypeOK, Works, ReduceRename
  <2>3. Over' = Over
    BY <1>5, <2>2 DEF Over, ReduceRename
  <2> QED BY <2>1, <2>3 DEF Over, Model!Next, Model!Publish
<1> QED BY <1>1, <1>2, <1>3, <1>4, <1>5 DEF Next, WorkerStep

\* Coordinator, monitors and workers implement Job: reduce output is computed
\* from all map output, and nobody ends before all of it is there.
THEOREM ImplementsJobCorrect == Spec => ImplementsJob
<1>1. Init => Model!Init
  BY DEF Init, Model!Init, NoWork
<1>2. JobInv /\ JobInv' /\ [Next]_vars => [Model!Next]_(Model!vars)
  BY JobRefines
<1> QED BY <1>1, <1>2, JobCorrect, PTL DEF Spec, ImplementsJob, Model!Spec
=============================================================================
