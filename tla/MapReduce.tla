----------------------------- MODULE MapReduce -----------------------------
(***************************************************************************)
(* The MapReduce coordinator (mr/coordinator.go, mr/rpc.go) with the       *)
(* monitors of its tasks, and the workers (mr/worker.go) with the files    *)
(* they share.                                                             *)
(*                                                                         *)
(* A handler and the time-out branch of a monitor run under c.mu: one      *)
(* action each.  A worker's calls are synchronous over a Unix socket that  *)
(* loses nothing while the coordinator lives.  A file is written under a   *)
(* temporary name, which is taken to be the worker's own, and renamed:     *)
(* only renames are actions.  An intermediate file is there or not; an     *)
(* output file is the set of map tasks whose output it was computed from.  *)
(* Map and reduce functions are deterministic.                             *)
(***************************************************************************)
EXTENDS Naturals, FiniteSets

CONSTANTS
    MapTask, ReduceTask,   \* c.MapTasks, c.ReduceTasks
    Worker,                \* worker processes
    CanCrash,              \* workers that may crash
    MaxSlow                \* bound: time-outs of attempts whose worker lives

Task == MapTask \cup ReduceTask

ASSUME TaskAssumption ==
    /\ IsFiniteSet(MapTask) /\ IsFiniteSet(ReduceTask)
    /\ MapTask \cap ReduceTask = {}
    /\ MapTask # {} /\ ReduceTask # {}

ASSUME WorkerAssumption == CanCrash \subseteq Worker /\ MaxSlow \in Nat

VARIABLES
    finishedMap, finishedReduce,   \* FinishedMapTasks, FinishedReduceTasks
    running,    \* keys of RunningMapTasks and RunningReduceTasks
    done,       \* tasks whose "done" is set
    made,       \* cancel channels made for each task; the last is in "running"
    monitors,   \* TaskMonitor goroutines
    main,       \* "up" until mrcoordinator's main returns
    work,       \* what each worker is doing
    mid,        \* intermediate files <<m, r>> under their final names
    out,        \* output files under their final names; {}: none
    slow        \* counts towards MaxSlow

coordinator == <<finishedMap, finishedReduce, running, done, made>>
files == <<mid, out>>
vars == <<coordinator, monitors, main, work, files, slow>>

\* A worker about to call GetTask.
NoWork == [at |-> "asking", task |-> {}, ch |-> 0, todo |-> {}, seen |-> {}]

Init ==
    /\ finishedMap = 0 /\ finishedReduce = 0
    /\ running = {} /\ done = {}
    /\ made = [t \in Task |-> 0]
    /\ monitors = {}
    /\ main = "up"
    /\ work = [w \in Worker |-> NoWork]
    /\ mid = {} /\ out = [r \in ReduceTask |-> {}]
    /\ slow = 0

-----------------------------------------------------------------------------
(* The coordinator's handlers.                                             *)

\* Some task of S, of which n are finished, is neither running nor finished,
\* as the counters tell.
Left(S, n) == Cardinality(S) > Cardinality(running \cap S) + n

\* The loop over the tasks finds it.
Idle(t) == t \notin running /\ t \notin done

\* Mutant: reduce tasks are handed out while the last maps are running.
MapsPendingLeft == Left(MapTask, finishedMap)

\* A map task is running or left: no reduce task may start.
MapsPending == running \cap MapTask # {} \/ Left(MapTask, finishedMap)

\* Hand out task t, the first idle one in the code, with a monitor.
Assign(w, t) ==
    /\ Idle(t)
    /\ running' = running \cup {t}
    /\ made' = [made EXCEPT ![t] = @ + 1]
    /\ monitors' = monitors \cup {[task |-> t, ch |-> made[t] + 1, at |-> "waiting"]}
    /\ work' = [work EXCEPT ![w] =
          [at |-> IF t \in MapTask THEN "map" ELSE "reduce", task |-> t, ch |-> made[t] + 1,
           todo |-> ReduceTask, seen |-> {}]]
    /\ UNCHANGED <<finishedMap, finishedReduce, done, main, files, slow>>

\* The answer is "wait": the worker sleeps and asks again.
Wait == UNCHANGED vars

\* The answer is "done".
Dismiss(w) ==
    /\ work' = [work EXCEPT ![w].at = "exited"]
    /\ UNCHANGED <<coordinator, monitors, main, files, slow>>

\* GetTask.
GetTask(w) ==
    /\ main = "up" /\ work[w].at = "asking"
    /\ \/ /\ MapsPending /\ Left(MapTask, finishedMap)
          /\ \E t \in MapTask : Assign(w, t)
       \/ MapsPending /\ ~Left(MapTask, finishedMap) /\ Wait
       \/ /\ ~MapsPending /\ Left(ReduceTask, finishedReduce)
          /\ \E t \in ReduceTask : Assign(w, t)
       \/ /\ ~MapsPending /\ ~Left(ReduceTask, finishedReduce)
          /\ \/ running \cap ReduceTask # {} /\ Wait
             \/ running \cap ReduceTask = {} /\ Dismiss(w)

\* Mutant: every report is counted.
CountedAlways(t) == TRUE

\* The first report of a task: it is in the map of running tasks.
Counted(t) == t \in running

\* Mutant: a finished task is not marked.
DoneUnmarked(t) == UNCHANGED <<finishedMap, finishedReduce, done>>

\* The task is counted and marked as done.
MarkDone(t) ==
    /\ done' = done \cup {t}
    /\ finishedMap' = IF t \in MapTask THEN finishedMap + 1 ELSE finishedMap
    /\ finishedReduce' = IF t \in ReduceTask THEN finishedReduce + 1 ELSE finishedReduce

\* FinishTask.  Removing the task also closes its channel.
FinishTask(w) ==
    LET t == work[w].task
    IN  /\ main = "up" /\ work[w].at = "report"
        /\ running' = running \ {t}
        /\ \/ Counted(t) /\ MarkDone(t)
           \/ ~Counted(t) /\ UNCHANGED <<finishedMap, finishedReduce, done>>
        /\ work' = [work EXCEPT ![w] = NoWork]
        /\ UNCHANGED <<made, monitors, main, files, slow>>

\* Done, polled by main without c.mu.  The counters only grow, so what it
\* reads is at worst old.
Done == finishedMap = Cardinality(MapTask) /\ finishedReduce = Cardinality(ReduceTask)

\* main returns, which ends the monitors too.
MainReturns ==
    /\ main = "up" /\ Done
    /\ main' = "down"
    /\ monitors' = {}
    /\ UNCHANGED <<coordinator, work, files, slow>>

-----------------------------------------------------------------------------
(* TaskMonitor.                                                            *)

\* The channel of monitor m was closed when its task left the map.
Closed(m) == ~(m.task \in running /\ m.ch = made[m.task])

\* A worker is still at the attempt that m watches.
Attended(m) ==
    \E w \in Worker : /\ work[w].at \in {"map", "reduce", "write", "report"}
                      /\ work[w].task = m.task /\ work[w].ch = m.ch

\* select takes timer.C, also if the channel is closed by now.
Expire(m) ==
    /\ m.at = "waiting"
    /\ \/ Attended(m) /\ slow < MaxSlow /\ slow' = slow + 1
       \/ ~Attended(m) /\ UNCHANGED slow
    /\ monitors' = (monitors \ {m}) \cup {[m EXCEPT !.at = "fired"]}
    /\ UNCHANGED <<coordinator, main, work, files>>

\* Mutant: the time-out is only reported.
ForgetNothing(m) == UNCHANGED running

\* Let the task be assigned again, whatever attempt is in the map.
Forget(m) == running' = running \ {m.task}

\* The time-out branch, once it has the lock.
TimeOut(m) ==
    /\ m.at = "fired"
    /\ Forget(m)
    /\ monitors' = monitors \ {m}
    /\ UNCHANGED <<finishedMap, finishedReduce, done, made, main, work, files, slow>>

\* select takes the closed channel.
Cancel(m) ==
    /\ m.at = "waiting" /\ Closed(m)
    /\ monitors' = monitors \ {m}
    /\ UNCHANGED <<coordinator, main, work, files, slow>>

-----------------------------------------------------------------------------
(* The worker.                                                             *)

\* Rename one intermediate file; after the last one, report.
MapRename(w) ==
    /\ work[w].at = "map"
    /\ \E r \in work[w].todo :
         /\ mid' = mid \cup {<<work[w].task, r>>}
         /\ work' = [work EXCEPT ![w].todo = @ \ {r},
                                 ![w].at = IF work[w].todo = {r} THEN "report" ELSE @]
    /\ UNCHANGED <<coordinator, monitors, main, out, slow>>

\* List and read the intermediate files of the task.
ReduceRead(w) ==
    /\ work[w].at = "reduce"
    /\ work' = [work EXCEPT ![w].at = "write",
                            ![w].seen = {m \in MapTask : <<m, work[w].task>> \in mid}]
    /\ UNCHANGED <<coordinator, monitors, main, files, slow>>

ReduceRename(w) ==
    /\ work[w].at = "write"
    /\ out' = [out EXCEPT ![work[w].task] = work[w].seen]
    /\ work' = [work EXCEPT ![w].at = "report"]
    /\ UNCHANGED <<coordinator, monitors, main, mid, slow>>

\* The coordinator does not answer any more: log.Fatal.
Unanswered(w) ==
    /\ main = "down" /\ work[w].at \in {"asking", "report"}
    /\ work' = [work EXCEPT ![w].at = "exited"]
    /\ UNCHANGED <<coordinator, monitors, main, files, slow>>

Gone(w) == work[w].at \in {"exited", "crashed"}

Crash(w) ==
    /\ w \in CanCrash /\ ~Gone(w)
    /\ work' = [work EXCEPT ![w].at = "crashed"]
    /\ UNCHANGED <<coordinator, monitors, main, files, slow>>

WorkerStep(w) ==
    \/ GetTask(w) \/ FinishTask(w) \/ MapRename(w) \/ ReduceRead(w)
    \/ ReduceRename(w) \/ Unanswered(w)

Next ==
    \/ MainReturns
    \/ \E m \in monitors : Expire(m) \/ TimeOut(m) \/ Cancel(m)
    \/ \E w \in Worker : WorkerStep(w) \/ Crash(w)

Spec == Init /\ [][Next]_vars

\* Processes and goroutines that can go on do so, and the timer of an attempt
\* that nobody works on fires.
Fairness ==
    /\ WF_vars(MainReturns)
    /\ WF_vars(\E m \in monitors : TimeOut(m))
    /\ WF_vars(\E m \in monitors : ~Attended(m) /\ ~Closed(m) /\ Expire(m))
    /\ \A w \in Worker : WF_vars(WorkerStep(w))

FairSpec == Spec /\ Fairness

-----------------------------------------------------------------------------
(* Properties.                                                             *)

Stages == {"asking", "map", "reduce", "write", "report", "exited", "crashed"}

Works == [at : Stages, task : Task \cup {{}}, ch : Nat, todo : SUBSET ReduceTask,
          seen : SUBSET MapTask]

\* Type invariant.
TypeOK ==
    /\ finishedMap \in Nat /\ finishedReduce \in Nat
    /\ running \subseteq Task /\ done \subseteq Task
    /\ made \in [Task -> Nat]
    /\ monitors \subseteq [task : Task, ch : Nat, at : {"waiting", "fired"}]
    /\ main \in {"up", "down"}
    /\ work \in [Worker -> Works]
    /\ mid \subseteq MapTask \X ReduceTask
    /\ out \in [ReduceTask -> SUBSET MapTask]
    /\ slow \in Nat

\* AssignSound: whenever the counters say that a task is left, GetTask finds
\* one: a late or repeated report is never counted twice.  Otherwise the
\* reply names no task and the worker ends with "unknown task type".
AssignSound ==
    /\ Left(MapTask, finishedMap) <=> \E t \in MapTask : Idle(t)
    /\ Left(ReduceTask, finishedReduce) <=> \E t \in ReduceTask : Idle(t)

\* TimeOutOwn: a monitor takes its task out of the map only while the attempt
\* that it watches is in there, although TaskMonitor does not compare.
TimeOutOwn ==
    [][\A m \in monitors : TimeOut(m) /\ m.task \in running => m.ch = made[m.task]]_vars

Model == INSTANCE Job WITH output <- out,
                           over <- main = "down" \/ \E w \in Worker : work[w].at = "exited"

\* ImplementsJob: reduce output is computed from all map output, in spite of
\* crashes, time-outs and several workers on one task, and neither main nor a
\* worker ends before all of it is there (test-mr.sh, early exit test).
ImplementsJob == Model!Spec

\* JobFinishes: with one worker that does not crash the job ends, and so does
\* every worker.
JobFinishes == <>(main = "down" /\ \A w \in Worker : Gone(w))
=============================================================================
