----------------------------- MODULE MapReduce -----------------------------
(***************************************************************************)
(* The MapReduce master and its workers (src/mr).  Every handler of the    *)
(* master runs under mu, so it is one action, unless it blocks: the task   *)
(* queue is a bounded channel that is sent to and received from under mu,  *)
(* and a sender that finds it full keeps mu for ever.  The result of a     *)
(* task is collected by a goroutine of its own, some time after the report *)
(* that started it.                                                        *)
(*                                                                         *)
(* A map task writes one file per reduce task; the model names the files   *)
(* by their map task.  The output of a reduce task is the sequence of      *)
(* files it was made from.                                                 *)
(***************************************************************************)
EXTENDS Integers, Sequences, FiniteSetsExt

CONSTANTS NMap,         \* the number of input files
          NReduce,      \* the number of reduce tasks
          Worker,
          Timings,      \* the timings to consider, of "prompt", "slow" and "late"
          MaxCrashes,   \* bound: workers that crash
          MaxTimeouts   \* bound: tasks queued again

ASSUME SizeAssumption == NMap \in Nat \ {0} /\ NReduce \in Nat \ {0}
ASSUME WorkerAssumption == IsFiniteSet(Worker)
ASSUME BoundAssumption == MaxCrashes \in Nat /\ MaxTimeouts \in Nat

VARIABLES TaskQueue,      \* the channel
          TaskMeta,       \* task number -> status and task
          MasterPhase,
          Intermediates,  \* the map tasks whose files were collected, in order
          results,        \* task -> how many goroutines are to collect its result
          master,         \* "up", "blocked" on a full queue, "panicked" or "exited"
          worker,         \* what each worker does, with its copy of a task
          output,         \* reduce task -> the files behind its output file
          crashes, timeouts,
          timing          \* what may happen in this behaviour; never changes

\* May a task time out while its worker still runs, and may a report come
\* before the result of an earlier one is collected?
SlowWorkers == timing = "slow"
LateResults == timing = "late"

masterVars == <<TaskQueue, TaskMeta, MasterPhase, Intermediates, results, master>>
vars == <<TaskQueue, TaskMeta, MasterPhase, Intermediates, results, master,
          worker, output, crashes, timeouts, timing>>

Maps == 0 .. NMap - 1
Reduces == 0 .. NReduce - 1

MapTask(n) == [TaskState |-> "Map", TaskNumber |-> n, Intermediates |-> <<>>]
ReduceTask(n, files) ==
    [TaskState |-> "Reduce", TaskNumber |-> n, Intermediates |-> files]

NoTask == MapTask(0)      \* what an idle worker remembers does not matter

Capacity_Maps == NMap

\* max(nReduce, len(files))
Capacity == IF NReduce > NMap THEN NReduce ELSE NMap

meta(status, task) == [TaskStatus |-> status, TaskReference |-> task]

\* The tasks of a phase, in the order they are queued.
mapTasks == [k \in 1 .. NMap |-> MapTask(k - 1)]
reduceTasks(files) == [k \in 1 .. NReduce |-> ReduceTask(k - 1, files)]

-----------------------------------------------------------------------------
(* The master                                                                *)

\* Tasks are sent one by one, until the channel is full.
fits(tasks) == Len(TaskQueue) + Len(tasks) <= Capacity
sent(tasks) == SubSeq(tasks, 1, Min({Len(tasks), Capacity - Len(TaskQueue)}))

status(n) == TaskMeta[n].TaskStatus

setStatus(S, s) ==
    [n \in DOMAIN TaskMeta |->
        IF n \in S THEN meta(s, TaskMeta[n].TaskReference) ELSE TaskMeta[n]]

\* AssignTask with a task in the queue.  A task of an earlier phase marks the
\* entry of its number all the same, and panics where there is none.
AssignTask(w) ==
    LET task == Head(TaskQueue)
        n == task.TaskNumber
    IN  /\ master = "up" /\ worker[w].does = "ask" /\ TaskQueue # <<>>
        /\ TaskQueue' = Tail(TaskQueue)
        /\ IF n \in DOMAIN TaskMeta
           THEN /\ TaskMeta' = setStatus({n}, "InProgress")
                /\ worker' = [worker EXCEPT ![w] = [does |-> "run", task |-> task]]
                /\ UNCHANGED master
           ELSE /\ master' = "panicked"
                /\ UNCHANGED <<TaskMeta, worker>>
        /\ UNCHANGED <<MasterPhase, Intermediates, results, output, crashes, timeouts, timing>>

\* AssignTask with an empty queue after the last phase; before, the worker is
\* told to wait and asks again.
AssignExit(w) ==
    /\ master = "up" /\ worker[w].does = "ask" /\ TaskQueue = <<>>
    /\ MasterPhase = "Exit"
    /\ worker' = [worker EXCEPT ![w].does = "gone"]
    /\ UNCHANGED <<masterVars, output, crashes, timeouts, timing>>

\* No goroutine; one more for a task; one less.
noResults == [task \in {} |-> 0]

started(task) ==
    [t \in DOMAIN results \cup {task} |->
        IF t \notin DOMAIN results THEN 1
        ELSE IF t = task THEN results[t] + 1 ELSE results[t]]

collected(task) ==
    [t \in {t \in DOMAIN results : t # task \/ results[t] > 1} |->
        IF t = task THEN results[t] - 1 ELSE results[t]]

discarded_StatusOnly(task) == status(task.TaskNumber) = "Completed"

\* The report of an earlier phase, or of a task that somebody else completed.
discarded(task) == \/ task.TaskState # MasterPhase
                   \/ status(task.TaskNumber) = "Completed"

TaskCompleted(w) ==
    LET task == worker[w].task
    IN  /\ master = "up" /\ worker[w].does = "report"
        /\ LateResults \/ results = noResults
        /\ worker' = [worker EXCEPT ![w].does = "ask"]
        /\ IF discarded(task)
           THEN UNCHANGED <<TaskMeta, results>>
           ELSE /\ TaskMeta' = setStatus({task.TaskNumber}, "Completed")
                /\ results' = started(task)
        /\ UNCHANGED <<TaskQueue, MasterPhase, Intermediates, master, output,
                       crashes, timeouts, timing>>

allTaskDone_NoneIdle == \A n \in DOMAIN TaskMeta : status(n) # "Idle"

allTaskDone == \A n \in DOMAIN TaskMeta : status(n) = "Completed"

\* createReduceTask, up to the send that blocks if there is one; the phase
\* changes after the last send.
createReduceTask(files) ==
    LET tasks == reduceTasks(files)
    IN  /\ TaskQueue' = TaskQueue \o sent(tasks)
        /\ TaskMeta' = [n \in 0 .. Len(sent(tasks)) - 1 |-> meta("Idle", tasks[n + 1])]
        /\ IF fits(tasks) THEN MasterPhase' = "Reduce" /\ UNCHANGED master
                          ELSE master' = "blocked" /\ UNCHANGED MasterPhase

CollectMap(task) ==
    /\ task.TaskState = "Map"
    /\ Intermediates' = Append(Intermediates, task.TaskNumber)
    /\ IF allTaskDone THEN createReduceTask(Intermediates')
                      ELSE UNCHANGED <<TaskQueue, TaskMeta, MasterPhase, master>>

CollectReduce_First(task) ==
    /\ task.TaskState = "Reduce"
    /\ MasterPhase' = "Exit"
    /\ UNCHANGED <<TaskQueue, TaskMeta, Intermediates, master>>

CollectReduce(task) ==
    /\ task.TaskState = "Reduce"
    /\ MasterPhase' = IF allTaskDone THEN "Exit" ELSE MasterPhase
    /\ UNCHANGED <<TaskQueue, TaskMeta, Intermediates, master>>

processTaskResult(task) ==
    /\ master = "up"
    /\ results' = collected(task)
    /\ CollectMap(task) \/ CollectReduce(task)
    /\ UNCHANGED <<worker, output, crashes, timeouts, timing>>

\* Somebody still runs, or is about to report, the task in entry n.
running(n) ==
    \E w \in Worker : /\ worker[w].does \in {"run", "report"}
                      /\ worker[w].task.TaskNumber = n

overdue_MapOnly(n) ==
    /\ status(n) = "InProgress" /\ MasterPhase = "Map"
    /\ SlowWorkers \/ ~running(n)

\* Entry n was assigned more than 10 seconds ago.
overdue(n) == /\ status(n) = "InProgress"
              /\ SlowWorkers \/ ~running(n)

requeued_StillInProgress(S) == TaskMeta

requeued(S) == setStatus(S, "Idle")

\* One round of catchTimeOut that finds the tasks of order overdue and walks
\* TaskMeta in that order: Go leaves the order of a map open.
catchTimeOut(order) ==
    LET again == [k \in 1 .. Len(order) |-> TaskMeta[order[k]].TaskReference]
        queued == {order[k] : k \in 1 .. Len(sent(again))}
    IN  /\ master = "up" /\ MasterPhase # "Exit"
        /\ \A n \in Range(order) : overdue(n)
        /\ timeouts + Len(order) <= MaxTimeouts
        /\ timeouts' = timeouts + Len(order)
        /\ TaskQueue' = TaskQueue \o sent(again)
        /\ TaskMeta' = requeued(queued)
        /\ master' = IF fits(again) THEN "up" ELSE "blocked"
        /\ UNCHANGED <<MasterPhase, Intermediates, results, worker, output, crashes, timing>>

\* Done answers true: the main program ends.
Done ==
    /\ master = "up" /\ MasterPhase = "Exit"
    /\ master' = "exited"
    /\ UNCHANGED <<TaskQueue, TaskMeta, MasterPhase, Intermediates, results,
                   worker, output, crashes, timeouts, timing>>

-----------------------------------------------------------------------------
(* The workers                                                               *)

mapper(w) ==
    /\ worker[w].does = "run" /\ worker[w].task.TaskState = "Map"
    /\ worker' = [worker EXCEPT ![w].does = "report"]
    /\ UNCHANGED <<masterVars, output, crashes, timeouts, timing>>

\* The output is written to a temporary file and renamed, then reported.
reducer(w) ==
    LET task == worker[w].task
    IN  /\ worker[w].does = "run" /\ task.TaskState = "Reduce"
        /\ output' = [output EXCEPT ![task.TaskNumber] = task.Intermediates]
        /\ worker' = [worker EXCEPT ![w].does = "report"]
        /\ UNCHANGED <<masterVars, crashes, timeouts, timing>>

\* A worker is killed.
Crash(w) ==
    /\ worker[w].does # "gone"
    /\ crashes < MaxCrashes
    /\ crashes' = crashes + 1
    /\ worker' = [worker EXCEPT ![w].does = "gone"]
    /\ UNCHANGED <<masterVars, output, timeouts, timing>>

masterDead == master \in {"panicked", "exited"}

\* A call that finds no master ends the worker.
MasterGone(w) ==
    /\ masterDead /\ worker[w].does \in {"ask", "report"}
    /\ worker' = [worker EXCEPT ![w].does = "gone"]
    /\ UNCHANGED <<masterVars, output, crashes, timeouts, timing>>

-----------------------------------------------------------------------------
\* MakeMaster, with createMapTask.
Init ==
    /\ TaskQueue = mapTasks
    /\ TaskMeta = [n \in Maps |-> meta("Idle", MapTask(n))]
    /\ MasterPhase = "Map"
    /\ Intermediates = <<>>
    /\ results = noResults
    /\ master = "up"
    /\ worker = [w \in Worker |-> [does |-> "ask", task |-> NoTask]]
    /\ output = [r \in Reduces |-> <<>>]
    /\ crashes = 0 /\ timeouts = 0 /\ timing \in Timings

Work(w) == \/ AssignTask(w) \/ AssignExit(w) \/ TaskCompleted(w)
           \/ mapper(w) \/ reducer(w) \/ MasterGone(w)

Collect == \E task \in DOMAIN results : processTaskResult(task)

Overdue == \E late \in SUBSET (DOMAIN TaskMeta) \ {{}} :
             \E order \in Bijection(1 .. Cardinality(late), late) : catchTimeOut(order)

Next == (\E w \in Worker : Work(w) \/ Crash(w)) \/ Collect \/ Overdue \/ Done

\* Workers loop, goroutines run, catchTimeOut wakes up every 5 seconds and the
\* main program calls Done every second.
Fairness == /\ \A w \in Worker : WF_vars(Work(w))
            /\ WF_vars(Collect)
            /\ WF_vars(Overdue)
            /\ WF_vars(Done)

Spec == Init /\ [][Next]_vars /\ Fairness

-----------------------------------------------------------------------------
(* Properties                                                                *)

\* A reduce task is handed the files of every map task: the reduce phase begins
\* when processTaskResult has collected them all (coordinator.go:213).
AllFilesHanded ==
    \A w \in Worker :
       worker[w].does = "run" /\ worker[w].task.TaskState = "Reduce"
          => Range(worker[w].task.Intermediates) = Maps

\* The same, as long as no report comes before an earlier one is collected.
NothingMissing == ~LateResults => AllFilesHanded

\* No file reaches the reducers twice: TaskCompleted drops the second result of
\* a task (coordinator.go:195), unless a task times out that is still running.
NothingTwice == ~SlowWorkers => IsInjective(Intermediates)

\* When the job is done, or more workers left than crashed (the early exit test of
\* main/test-mr.sh:213), every mr-out file is there unless the master panicked, and
\* if workers are prompt it was made from each map task's file exactly once.
JobExact ==
    /\ master # "panicked"
    /\ MasterPhase = "Exit" \/ Cardinality({w \in Worker : worker[w].does = "gone"}) > crashes
    => \A r \in Reduces :
          /\ output[r] # <<>>
          /\ timing = "prompt" => Range(output[r]) = Maps /\ Len(output[r]) = NMap

\* Unless a task times out that is still running, no handler blocks on the task
\* queue while it holds mu, so Done keeps answering (coordinator.go:73), and
\* AssignTask never meets a task without an entry in TaskMeta.
MasterServes == ~SlowWorkers => master \notin {"blocked", "panicked"}

\* Once the job is done it stays done and every output file keeps its content
\* (main/test-mr.sh:249), although a slow reducer may write the same file again,
\* unless a report comes before an earlier one is collected: the result still to be
\* collected then starts the reduce phase again (coordinator.go:212).
FinalOutput ==
    [][~LateResults /\ MasterPhase = "Exit" => MasterPhase' = "Exit" /\ output' = output]_vars

\* The files of a reduce phase are settled when it begins, with the same exception: no
\* second report of a map task, nor one that slow workers make after their task was
\* queued again, adds to them or takes the master back to the map phase.
PhaseForward ==
    [][~LateResults /\ MasterPhase = "Reduce"
         => MasterPhase' # "Map" /\ Intermediates' = Intermediates]_vars

\* As long as one worker stays alive every task is finished, those of crashed
\* workers included, the master ends and every worker leaves.
JobEnds ==
    timing = "prompt" => <>(master = "exited" /\ \A w \in Worker : worker[w].does = "gone")
=============================================================================
