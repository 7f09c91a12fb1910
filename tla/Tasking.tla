-------------------------------- MODULE Tasking --------------------------------
(***************************************************************************)
(* Tasks, their execution states and the example runtime that schedules      *)
(* them (frontends/tasking/task.hpp, core/executionState.hpp, the boost      *)
(* coroutines, examples/tasking).  Several workers pull tasks from one       *)
(* lock-free queue; a task that suspends itself is put back by the callback  *)
(* its worker triggers, and may then be run by any other worker while the    *)
(* first one is still leaving Task::run.                                     *)
(*                                                                          *)
(* The programs are those of examples/tasking: abcTasks, fibonacci and       *)
(* resourceList.  The tasks of the first and the last run to their end at    *)
(* once; a fibonacci task adds two tasks, suspends itself until both have    *)
(* finished, and adds up what they left on its stack.                        *)
(***************************************************************************)
EXTENDS Integers, Sequences, FiniteSets, Functions

CONSTANTS
  Workers,        \* the workers: one processing unit each
  Programs        \* the programs checked: [kind, size]

ASSUME TaskingAssumption ==
  /\ Workers # {}
  /\ Programs \subseteq [kind : {"abc", "work", "fibonacci"}, size : Nat]

VARIABLES
  program,     \* the program that runs
  queue,       \* _waitingTaskQueue
  count,       \* _taskCount
  done,        \* _finishedTaskHashSet
  task,        \* the tasks created so far, by label
  freed,       \* the tasks that have been deleted
  worker,      \* of each worker: where it is, its task, the state it read after it ran
  answer,      \* what the first task computed; -1 before
  main,        \* "awaiting" in Runtime::run, or "returned"
  exc          \* an uncaught exception

vars == <<program, queue, count, done, task, freed, worker, answer, main, exc>>

NoTask == -1

\* A task: the number it computes, where its result goes (parent and position),
\* its dependencies, its execution state, the coroutine's _runningContext and
\* _hasFinished, the next step of its function, its children and their results.
NewTask(x, into, deps) ==
  [arg |-> x, into |-> into, deps |-> deps, state |-> "uninitialized", entered |-> FALSE,
   ended |-> FALSE, stage |-> "begin", children |-> <<>>, results |-> <<0, 0>>]

Main == <<NoTask, 1>>

-----------------------------------------------------------------------------
(* The programs                                                             *)

\* abcTasks: C after B, B after A, A after the previous C; added in that order.
AbcTasks(n) ==
  [tasks |-> [t \in 0 .. 3 * n - 1 |-> NewTask(0, Main, IF t = 0 THEN {} ELSE {t - 1})],
   order |-> [i \in 1 .. 3 * n |-> 3 * ((i - 1) % n) + 2 - (i - 1) \div n]]

\* resourceList: independent tasks.
ResourceList(n) ==
  [tasks |-> [t \in 0 .. n - 1 |-> NewTask(0, Main, {})], order |-> [i \in 1 .. n |-> i - 1]]

\* fibonacci: one task, which creates the others.
FibonacciDriver(x) == [tasks |-> [t \in {0} |-> NewTask(x, Main, {})], order |-> <<0>>]

DEFAULT_MAX_TASKS == 65536

\* The number of tasks that fibonacci(x) takes, for x = 0, 1, ... 30.
fibonacciTaskCount ==
  <<1, 1, 3, 5, 9, 15, 25, 41, 67, 109, 177, 287, 465, 753, 1219, 1973, 3193, 5167, 8361, 13529, 21891, 35421,
    57313, 92735, 150049, 242785, 392835, 635621, 1028457, 1664079, 2692537>>

\* The main programs, with the capacity they construct the runtime with.
Launch(max, p) == [maxTasks |-> max, tasks |-> p.tasks, order |-> p.order]
AbcMain(n) == Launch(DEFAULT_MAX_TASKS, AbcTasks(n))
ResourceListMain(n) == Launch(DEFAULT_MAX_TASKS, ResourceList(n))
FibonacciMain(x) == Launch(fibonacciTaskCount[x + 1], FibonacciDriver(x))

Launched ==
  CASE program.kind = "abc" -> AbcMain(program.size)
    [] program.kind = "work" -> ResourceListMain(program.size)
    [] program.kind = "fibonacci" -> FibonacciMain(program.size)

IdleWorker == [pc |-> "pull", task |-> NoTask, seen |-> "none"]

\* Runtime::run has created and started the workers.
Init ==
  /\ program \in Programs
  /\ queue = Launched.order
  /\ count = Len(Launched.order)
  /\ done = {}
  /\ task = Launched.tasks
  /\ freed = {}
  /\ worker = [w \in Workers |-> IdleWorker]
  /\ answer = -1
  /\ main = "awaiting"
  /\ exc = "none"

-----------------------------------------------------------------------------
At(w, pc) == exc = "none" /\ worker[w].pc = pc
Go(w, pc) == worker' = [worker EXCEPT ![w].pc = pc]
Mine(w) == worker[w].task
Task(w) == task[Mine(w)]

Throw(kind) == exc' = kind /\ UNCHANGED <<program, queue, count, done, task, freed, worker, answer, main>>

\* AtomicQueueB::push spins while the queue is full.
QueuePush(t) == Len(queue) < Launched.maxTasks /\ queue' = Append(queue, t)

-----------------------------------------------------------------------------
(* checkWaitingTasks                                                        *)

\* The worker terminates itself when no task is left.
CheckTaskCount(w) ==
  /\ At(w, "pull")
  /\ Go(w, IF count = 0 THEN "terminate" ELSE "pop")
  /\ UNCHANGED <<program, queue, count, done, task, freed, answer, main, exc>>

PopTask(w) ==
  /\ At(w, "pop")
  /\ IF queue = <<>>
       THEN Go(w, "pull") /\ UNCHANGED queue
       ELSE /\ worker' = [worker EXCEPT ![w] = [pc |-> "check", task |-> Head(queue), seen |-> "none"]]
            /\ queue' = Tail(queue)
  /\ UNCHANGED <<program, count, done, task, freed, answer, main, exc>>

\* Mutant: one finished dependency is enough.
CheckTaskReadyAny(w) ==
  /\ At(w, "check")
  /\ Go(w, IF Task(w).deps = {} \/ Task(w).deps \cap done # {} THEN "run" ELSE "requeue")
  /\ UNCHANGED <<program, queue, count, done, task, freed, answer, main, exc>>

CheckTaskReady(w) ==
  /\ At(w, "check")
  /\ Go(w, IF Task(w).deps \subseteq done THEN "run" ELSE "requeue")
  /\ UNCHANGED <<program, queue, count, done, task, freed, answer, main, exc>>

Requeue(w) ==
  /\ At(w, "requeue")
  /\ QueuePush(Mine(w))
  /\ Go(w, "pull")
  /\ UNCHANGED <<program, count, done, task, freed, answer, main, exc>>

-----------------------------------------------------------------------------
(* The worker's main loop and Task::run                                      *)

\* A task pulled for the first time gets its execution state.
RunTask(w) ==
  /\ At(w, "run")
  /\ IF Task(w).state \notin {"uninitialized", "initialized", "suspended"}
       THEN Throw("RUNTIME")
       ELSE /\ task' = [task EXCEPT ![Mine(w)].state = IF @ = "uninitialized" THEN "initialized" ELSE @]
            /\ Go(w, "resume")
            /\ UNCHANGED <<program, queue, count, done, freed, answer, main, exc>>

\* ExecutionState::resume and Coroutine::resume.
Resume(w) ==
  /\ At(w, "resume")
  /\ IF Task(w).state \notin {"initialized", "suspended"} \/ Task(w).ended \/ Task(w).entered
       THEN Throw("RUNTIME")
       ELSE /\ task' = [task EXCEPT ![Mine(w)].state = "running", ![Mine(w)].entered = TRUE]
            /\ Go(w, "function")
            /\ UNCHANGED <<program, queue, count, done, freed, answer, main, exc>>

\* checkFinalization, and the state Task::run goes by from here on.
CheckFinalization(w) ==
  LET after == IF Task(w).ended THEN "finished" ELSE Task(w).state IN
  /\ At(w, "after")
  /\ task' = [task EXCEPT ![Mine(w)].state = after]
  /\ IF after \notin {"suspended", "finished"}
       THEN exc' = "RUNTIME" /\ UNCHANGED worker
       ELSE exc' = exc /\ worker' = [worker EXCEPT ![w].seen = after, ![w].pc = "callback"]
  /\ UNCHANGED <<program, queue, count, done, freed, answer, main>>

\* onTaskSuspend: awakenTask puts the task back.
OnTaskSuspend(w) ==
  /\ At(w, "callback") /\ worker[w].seen = "suspended"
  /\ QueuePush(Mine(w))
  /\ Go(w, "leave")
  /\ UNCHANGED <<program, count, done, task, freed, answer, main, exc>>

\* onTaskFinish counts the task ...
OnTaskFinish(w) ==
  /\ At(w, "callback") /\ worker[w].seen = "finished"
  /\ count' = count - 1
  /\ Go(w, "insert")
  /\ UNCHANGED <<program, queue, done, task, freed, answer, main, exc>>

\* Mutant: the label is not recorded.
InsertFinishedNot(w) ==
  /\ At(w, "insert")
  /\ Go(w, "delete")
  /\ UNCHANGED <<program, queue, count, done, task, freed, answer, main, exc>>

\* ... records its label ...
InsertFinished(w) ==
  /\ At(w, "insert")
  /\ done' = done \cup {Mine(w)}
  /\ Go(w, "delete")
  /\ UNCHANGED <<program, queue, count, task, freed, answer, main, exc>>

\* ... and deletes it.
DeleteTask(w) ==
  /\ At(w, "delete")
  /\ freed' = freed \cup {Mine(w)}
  /\ Go(w, "leave")
  /\ UNCHANGED <<program, queue, count, done, task, answer, main, exc>>

\* Mutant: the end of Task::run asks the task for its state again.
LeaveRunReread(w) ==
  /\ At(w, "leave")
  /\ worker' = [worker EXCEPT ![w] = IF worker[w].seen = "suspended" /\ Task(w).state = "finished"
                                       THEN [@ EXCEPT !.seen = "finished", !.pc = "callback"] ELSE IdleWorker]
  /\ UNCHANGED <<program, queue, count, done, task, freed, answer, main, exc>>

\* The rest of Task::run looks only at the state it has read.
LeaveRun(w) ==
  /\ At(w, "leave")
  /\ worker' = [worker EXCEPT ![w] = IdleWorker]
  /\ UNCHANGED <<program, queue, count, done, task, freed, answer, main, exc>>

\* The loop terminates the processing unit and returns.
LoopReturns(w) ==
  /\ At(w, "terminate")
  /\ Go(w, "exited")
  /\ UNCHANGED <<program, queue, count, done, task, freed, answer, main, exc>>

\* Runtime::run has awaited every worker.
RunReturns ==
  /\ exc = "none" /\ main = "awaiting"
  /\ \A w \in Workers : worker[w].pc = "exited"
  /\ main' = "returned"
  /\ UNCHANGED <<program, queue, count, done, task, freed, worker, answer, exc>>

-----------------------------------------------------------------------------
(* The task's function                                                      *)

InFunction(w, stage) == At(w, "function") /\ Task(w).stage = stage
Stage(w, stage) == task' = [task EXCEPT ![Mine(w)].stage = stage]

\* The function returns: its result goes where the caller wants it, and the
\* coroutine, or the pthreads execution state, is finished.
Return(w, value) ==
  LET t == Mine(w)
      p == task[t].into[1]
      ended == [task EXCEPT ![t].ended = TRUE, ![t].entered = FALSE] IN
  /\ IF p = NoTask THEN task' = ended /\ answer' = value
     ELSE task' = [ended EXCEPT ![p].results[task[t].into[2]] = value] /\ UNCHANGED answer
  /\ Go(w, "after")
  /\ UNCHANGED <<program, queue, count, done, freed, main, exc>>

ReturnAtOnce(w) ==
  /\ InFunction(w, "begin") /\ Task(w).arg <= 1
  /\ Return(w, Task(w).arg)

\* The labels are drawn and the two tasks constructed.
CreateTasks(w) ==
  LET t == Mine(w)
      a == Cardinality(DOMAIN task)
      parent == [task[t] EXCEPT !.stage = "count1", !.children = <<a, a + 1>>] IN
  /\ InFunction(w, "begin") /\ Task(w).arg > 1
  /\ task' = [l \in DOMAIN task \cup {a, a + 1} |->
                CASE l = t -> parent
                  [] l = a -> NewTask(task[t].arg - 1, <<t, 1>>, {})
                  [] l = a + 1 -> NewTask(task[t].arg - 2, <<t, 2>>, {})
                  [] OTHER -> task[l]]
  /\ UNCHANGED <<program, queue, count, done, freed, worker, answer, main, exc>>

\* Runtime::addTask of child i: the counter, then the queue.
CountTask(w) ==
  /\ \/ InFunction(w, "count1") /\ Stage(w, "push1")
     \/ InFunction(w, "count2") /\ Stage(w, "push2")
  /\ count' = count + 1
  /\ UNCHANGED <<program, queue, done, freed, worker, answer, main, exc>>

PushTask(w) ==
  /\ \/ InFunction(w, "push1") /\ QueuePush(Task(w).children[1]) /\ Stage(w, "count2")
     \/ InFunction(w, "push2") /\ QueuePush(Task(w).children[2]) /\ Stage(w, "depend")
  /\ UNCHANGED <<program, count, done, freed, worker, answer, main, exc>>

\* The dependencies are added, and Task::suspend marks the execution state ...
SuspendTask(w) ==
  /\ InFunction(w, "depend")
  /\ IF Task(w).state # "running" THEN Throw("RUNTIME")
     ELSE /\ task' = [task EXCEPT ![Mine(w)].deps = @ \cup Range(Task(w).children),
                                  ![Mine(w)].state = "suspended", ![Mine(w)].stage = "yield"]
          /\ UNCHANGED <<program, queue, count, done, freed, worker, answer, main, exc>>

\* Mutant: the task is put back before its coroutine has yielded.
YieldAwake(w) ==
  /\ InFunction(w, "yield")
  /\ IF \E i \in DOMAIN queue : queue[i] = Mine(w)
       THEN task' = [task EXCEPT ![Mine(w)].entered = FALSE, ![Mine(w)].stage = "sum"] /\ Go(w, "after") /\ UNCHANGED queue
       ELSE QueuePush(Mine(w)) /\ UNCHANGED <<task, worker>>
  /\ UNCHANGED <<program, count, done, freed, answer, main, exc>>

\* ... before the coroutine yields to the worker.
Yield(w) ==
  /\ InFunction(w, "yield")
  /\ task' = [task EXCEPT ![Mine(w)].entered = FALSE, ![Mine(w)].stage = "sum"]
  /\ Go(w, "after")
  /\ UNCHANGED <<program, queue, count, done, freed, answer, main, exc>>

ReturnSum(w) ==
  /\ InFunction(w, "sum")
  /\ Return(w, Task(w).results[1] + Task(w).results[2])

-----------------------------------------------------------------------------
Step(w) ==
  \/ CheckTaskCount(w) \/ PopTask(w) \/ CheckTaskReady(w) \/ Requeue(w)
  \/ RunTask(w) \/ Resume(w) \/ CheckFinalization(w)
  \/ OnTaskSuspend(w) \/ OnTaskFinish(w) \/ InsertFinished(w) \/ DeleteTask(w) \/ LeaveRun(w)
  \/ ReturnAtOnce(w) \/ CreateTasks(w) \/ CountTask(w) \/ PushTask(w)
  \/ SuspendTask(w) \/ Yield(w) \/ ReturnSum(w)
  \/ LoopReturns(w)

\* The program has ended.
Exited == (main = "returned" \/ exc # "none") /\ UNCHANGED vars

Next == (\E w \in Workers : Step(w)) \/ RunReturns \/ Exited

Spec == Init /\ [][Next]_vars

\* The operating system runs every worker's thread.
FairSpec == Spec /\ WF_vars(RunReturns) /\ \A w \in Workers : WF_vars(Step(w))

-----------------------------------------------------------------------------
(* Properties                                                               *)

Labels == DOMAIN task

\* The type invariant.
TypeOK ==
  /\ program \in Programs
  /\ Range(queue) \subseteq Labels /\ done \subseteq Labels /\ freed \subseteq Labels
  /\ count \in 0 .. Cardinality(Labels)
  /\ \A t \in Labels :
       /\ task[t].state \in {"uninitialized", "initialized", "running", "suspended", "finished"}
       /\ task[t].entered \in BOOLEAN /\ task[t].ended \in BOOLEAN
  /\ \A w \in Workers : worker[w].task \in Labels \cup {NoTask}
  /\ main \in {"awaiting", "returned"} /\ exc \in {"none", "RUNTIME"}

\* The worker still uses its task's memory.
Holds(w) == worker[w].pc \notin {"pull", "pop", "leave", "terminate", "exited"}

\* A task that was put back is run by one worker at a time, also while the one
\* that put it back has not left Task::run: no task is held by two workers, or
\* held and queued, no coroutine is resumed twice, and nobody throws.
OneWorkerPerTask ==
  /\ exc = "none"
  /\ \A v, w \in Workers : v # w /\ Holds(v) /\ Holds(w) => worker[v].task # worker[w].task
  /\ \A w \in Workers : Holds(w) => worker[w].task \notin Range(queue)
  /\ \A i, j \in DOMAIN queue : i # j => queue[i] # queue[j]

\* A deleted task is out of use: no worker holds it, it is not in the queue, and
\* no task that has not returned writes its result to it.
DeletedTasksUnused ==
  /\ \A w \in Workers : Holds(w) => worker[w].task \notin freed
  /\ Range(queue) \cap freed = {}
  /\ \A t \in Labels : ~task[t].ended => task[t].into[1] \notin freed

fibonacci[x \in Nat] == IF x <= 1 THEN x ELSE fibonacci[x - 1] + fibonacci[x - 2]

\* No task's function returns before all the tasks it depends on have finished,
\* whoever created them and whichever worker ran them.
DependenciesFirst == \A t \in Labels : task[t].ended => task[t].deps \subseteq done

\* When run returns, every task that was ever created has finished, is recorded
\* and is deleted: no worker leaves while a task is still to be counted.
AllTasksFinish ==
  main = "returned" =>
    /\ done = Labels /\ freed = Labels /\ count = 0
    /\ \A t \in Labels : task[t].state = "finished"

\* Tasks finish after their dependencies; when run returns, all have finished
\* and are deleted, and the first fibonacci task has computed the number.
RunComputesResult ==
  /\ DependenciesFirst
  /\ AllTasksFinish
  /\ main = "returned" /\ program.kind = "fibonacci" => answer = fibonacci[program.size]

\* Runtime::run returns: no worker stays behind once the tasks are done, and no
\* task waits for ever in the queue.
RunEnds == <>(main = "returned")
=============================================================================
