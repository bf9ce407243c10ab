------------------------------ MODULE AsyncTask ------------------------------
(***************************************************************************)
(* crates/polars-stream/src/async_executor/task.rs, and TaskScope of       *)
(* mod.rs: polling, joining and cancelling tasks.                          *)
(*                                                                         *)
(* Tasks of a scope are joined by the closure of task_scope (Main) or by   *)
(* another task of the scope, as in nodes/ordered_union.rs; the others are *)
(* in an AbortOnDropHandle.  What is done under the lock on a task's data  *)
(* is one step, except for a poll, which holds the lock while it lasts.    *)
(* The executor is a bag of Runnables here (see module Executor).          *)
(***************************************************************************)
EXTENDS Naturals, FiniteSets

CONSTANTS
    Task,
    Scoped,     \* the tasks spawned with TaskScope::spawn_task
    Joiner,     \* who awaits the JoinHandle of each task: Main or a task
    Runner,     \* executor threads
    Main,
    None

ASSUME AsyncTaskAssumption ==
    /\ Scoped \subseteq Task
    /\ Main \notin Task
    /\ None \notin Runner \cup Task
    /\ \A t \in Task :
        Joiner[t] = Main \/ (t \in Scoped /\ Joiner[t] \in Scoped \ {t})

VARIABLES
    tstate,     \* TaskState::state
    data,       \* the variant of TaskData; "Unborn" before spawn
    joinWaker,  \* the join waker next to the data is Some
    lock,       \* the runner that holds the lock on the data
    queue,      \* number of Runnables of a task in the executor's queues
    shared,     \* tasks of which someone else holds a Waker
    rpc,        \* where each runner is
    rtask,      \* the task it runs
    jpc,        \* the JoinHandle of each task
    jwoken,     \* Main was woken to poll this JoinHandle
    scope,      \* "open", "destroying" or "ended"
    handles,    \* cancel_handles
    completed,  \* completed_tasks
    freed       \* tasks whose last Arc is gone

taskVars == <<tstate, data, joinWaker, lock, queue, shared, freed>>
runnerVars == <<rpc, rtask>>
joinVars == <<jpc, jwoken>>
scopeVars == <<scope, handles, completed>>
vars == <<taskVars, runnerVars, joinVars, scopeVars>>

Init ==
    /\ tstate = [t \in Task |-> "IDLE"]
    /\ data = [t \in Task |-> "Unborn"]
    /\ joinWaker = [t \in Task |-> FALSE]
    /\ lock = [t \in Task |-> None]
    /\ queue = [t \in Task |-> 0]
    /\ shared = {}
    /\ rpc = [w \in Runner |-> "idle"]
    /\ rtask = [w \in Runner |-> None]
    /\ jpc = [t \in Task |-> "none"]
    /\ jwoken = [t \in Task |-> FALSE]
    /\ scope = "open"
    /\ handles = {}
    /\ completed = {}
    /\ freed = {}

-----------------------------------------------------------------------------
(* Waking: TaskState::wake and Wake::wake *)

Goto(w, label) == rpc' = [rpc EXCEPT ![w] = label]

\* Mutant: a running task is put in a queue at once.
WakeSchedulesRunning(t) == tstate[t] \in {"IDLE", "RUNNING"}

\* Line 40.
WakeSchedules(t) == tstate[t] = "IDLE"

\* Lines 32-42, 128-132, 193-196.
WakeTask(t) ==
    /\ tstate' = [tstate EXCEPT ![t] =
                    CASE @ = "RUNNING" -> "NOTIFIED_WHILE_RUNNING"
                      [] @ = "IDLE" -> "SCHEDULED"
                      [] OTHER -> @]
    /\ queue' = [queue EXCEPT ![t] = IF WakeSchedules(t) THEN @ + 1 ELSE @]

\* join_waker.wake() for the join waker of t, if there is one.
WakeJoiner(t, waker) ==
    IF waker /\ Joiner[t] # Main
    THEN WakeTask(Joiner[t]) /\ UNCHANGED jwoken
    ELSE /\ jwoken' = [jwoken EXCEPT ![t] = @ \/ waker]
         /\ UNCHANGED <<tstate, queue>>

\* A Waker that was cloned out of a poll wakes the task.
Wake(t) ==
    /\ t \in shared
    /\ WakeTask(t)
    /\ UNCHANGED <<data, joinWaker, lock, shared, freed, runnerVars, joinVars,
                   scopeVars>>

DropWaker(t) ==
    /\ t \in shared
    /\ shared' = shared \ {t}
    /\ UNCHANGED <<tstate, data, joinWaker, lock, queue, freed, runnerVars,
                   joinVars, scopeVars>>

-----------------------------------------------------------------------------
(* Spawning *)

\* Task::spawn and the schedule() of a task that was not woken before.
Born(t) ==
    /\ data[t] = "Unborn"
    /\ data' = [data EXCEPT ![t] = "Polling"]
    /\ jpc' = [jpc EXCEPT ![t] = "idle"]
    /\ WakeTask(t)
    /\ UNCHANGED <<joinWaker, lock, shared, freed, runnerVars, jwoken, scope>>

\* TaskScope::spawn_task, after clear_completed_tasks; the tasks whose handles
\* move into t were spawned before it.
SpawnScoped(t) ==
    /\ scope = "open"
    /\ t \in Scoped
    /\ \A u \in Task : Joiner[u] = t => data[u] # "Unborn"
    /\ handles' = (handles \ completed) \cup {t}
    /\ completed' = {}
    /\ Born(t)

\* spawn() and AbortOnDropHandle::new.
Spawn(t) ==
    /\ t \notin Scoped
    /\ Born(t)
    /\ UNCHANGED <<handles, completed>>

-----------------------------------------------------------------------------
(* DynTask::run *)

\* The executor takes a Runnable out of a queue.
TakeRunnable(w, t) ==
    /\ rpc[w] = "idle"
    /\ queue[t] > 0
    /\ queue' = [queue EXCEPT ![t] = @ - 1]
    /\ rtask' = [rtask EXCEPT ![w] = t]
    /\ Goto(w, "run")
    /\ UNCHANGED <<tstate, data, joinWaker, lock, shared, freed, joinVars, scopeVars>>

Release(w) ==
    /\ rtask' = [rtask EXCEPT ![w] = None]
    /\ Goto(w, "idle")

\* A failed assertion unwinds out of Executor::runner.
Die(w) ==
    /\ rtask' = [rtask EXCEPT ![w] = None]
    /\ Goto(w, "dead")

\* Lines 158-170.
RunLock(w) ==
    LET t == rtask[w] IN
    /\ rpc[w] = "run"
    /\ lock[t] = None
    /\ \/ /\ data[t] = "Polling"
          /\ tstate[t] = "SCHEDULED"
          /\ tstate' = [tstate EXCEPT ![t] = "RUNNING"]
          /\ lock' = [lock EXCEPT ![t] = w]
          /\ Goto(w, "poll")
          /\ UNCHANGED rtask
       \/ /\ data[t] = "Cancelled"
          /\ Release(w)
          /\ UNCHANGED <<tstate, lock>>
       \/ /\ \/ data[t] = "Polling" /\ tstate[t] # "SCHEDULED"
             \/ data[t] \notin {"Polling", "Cancelled"}
          /\ Die(w)
          /\ UNCHANGED <<tstate, lock>>
    /\ UNCHANGED <<data, joinWaker, queue, shared, freed, joinVars, scopeVars>>

\* The future hands out its waker.
PollShares(w) ==
    /\ rpc[w] = "poll"
    /\ shared' = shared \cup {rtask[w]}
    /\ UNCHANGED <<tstate, data, joinWaker, lock, queue, freed, runnerVars, joinVars,
                   scopeVars>>

\* Lines 175-176.
PollPending(w) ==
    /\ rpc[w] = "poll"
    /\ lock' = [lock EXCEPT ![rtask[w]] = None]
    /\ Goto(w, "reschedule")
    /\ UNCHANGED <<tstate, data, joinWaker, queue, shared, freed, rtask, joinVars,
                   scopeVars>>

\* Lines 53-56.
AfterRunning(s) ==
    CASE s = "RUNNING" -> "IDLE"
      [] s = "NOTIFIED_WHILE_RUNNING" -> "SCHEDULED"
      [] OTHER -> s

\* Mutant: the task is marked as scheduled but not put in a queue.
RescheduleUnqueued(w) ==
    LET t == rtask[w] IN
    /\ rpc[w] = "reschedule"
    /\ tstate' = [tstate EXCEPT ![t] = AfterRunning(@)]
    /\ Release(w)
    /\ UNCHANGED <<data, joinWaker, lock, queue, shared, freed, joinVars, scopeVars>>

\* Lines 51-60, 177-181; the panic of line 56 is outside of catch_unwind.
Reschedule(w) ==
    LET t == rtask[w] IN
    /\ rpc[w] = "reschedule"
    /\ tstate' = [tstate EXCEPT ![t] = AfterRunning(@)]
    /\ queue' = [queue EXCEPT ![t] =
                   IF tstate[t] = "NOTIFIED_WHILE_RUNNING" THEN @ + 1 ELSE @]
    /\ IF tstate[t] \in {"RUNNING", "NOTIFIED_WHILE_RUNNING"} THEN Release(w) ELSE Die(w)
    /\ UNCHANGED <<data, joinWaker, lock, shared, freed, joinVars, scopeVars>>

\* The JoinHandles in the future of t are dropped with it.
DropFuture(t) ==
    jpc' = [u \in Task |-> IF Joiner[u] = t /\ jpc[u] \in {"idle", "pending"}
                           THEN "dropped" ELSE jpc[u]]

\* Lines 172-174, 185-186: the poll is over, with an output or a panic.
PollDone(w, result) ==
    LET t == rtask[w] IN
    /\ \/ rpc[w] = "poll" /\ result \in {"Ready", "Panic"}
       \/ rpc[w] = "unwind" /\ result = "Panic"
    /\ data' = [data EXCEPT ![t] = result]
    /\ DropFuture(t)
    /\ lock' = [lock EXCEPT ![t] = None]
    /\ joinWaker' = [joinWaker EXCEPT ![t] = FALSE]
    /\ \/ joinWaker[t] /\ Goto(w, "wakeJoiner") /\ UNCHANGED rtask
       \/ ~joinWaker[t] /\ Release(w)
    /\ UNCHANGED <<tstate, queue, shared, freed, jwoken, scopeVars>>

\* Lines 187-190.
WakeAfterDone(w) ==
    /\ rpc[w] = "wakeJoiner"
    /\ WakeJoiner(rtask[w], TRUE)
    /\ Release(w)
    /\ UNCHANGED <<data, joinWaker, lock, shared, freed, jpc, scopeVars>>

-----------------------------------------------------------------------------
(* Joining: poll_join, JoinHandle::poll *)

\* Mutant: the waker is not kept.
KeepsJoinWakerNever(t) == FALSE

\* Line 218.
KeepsJoinWaker(t) == data[t] = "Polling"

\* Lines 217-228.
PollJoin(t) ==
    /\ jpc[t] \in {"idle", "pending"}
    /\ lock[t] = None
    /\ joinWaker' = [joinWaker EXCEPT ![t] = @ \/ KeepsJoinWaker(t)]
    /\ data' = [data EXCEPT ![t] = IF @ = "Polling" THEN @ ELSE "Joined"]
    /\ jpc' = [jpc EXCEPT ![t] = CASE data[t] = "Polling" -> "pending"
                                   [] data[t] = "Ready" -> "joined"
                                   [] OTHER -> "panicked"]

\* The closure of task_scope, or the owner of an AbortOnDropHandle, polls the
\* handle of t, at first or when it was woken.
MainJoins(t) ==
    /\ Joiner[t] = Main
    /\ jpc[t] = "idle" \/ jwoken[t]
    /\ PollJoin(t)
    /\ jwoken' = [jwoken EXCEPT ![t] = FALSE]
    /\ UNCHANGED <<tstate, lock, queue, shared, freed, runnerVars, scopeVars>>

\* A task polls the handle of t in its own poll, and unwinds if t did or was
\* cancelled.
TaskJoins(w, t) ==
    /\ rpc[w] = "poll"
    /\ Joiner[t] = rtask[w]
    /\ PollJoin(t)
    /\ Goto(w, IF jpc'[t] = "panicked" THEN "unwind" ELSE "poll")
    /\ UNCHANGED <<tstate, lock, queue, shared, freed, rtask, jwoken, scopeVars>>

-----------------------------------------------------------------------------
(* Cancelling *)

\* Lines 245-256, under the lock.
CancelData(t) ==
    \/ /\ data[t] \in {"Panic", "Joined"}
       /\ UNCHANGED <<tstate, data, joinWaker, queue, jwoken>>
    \/ /\ data[t] \notin {"Panic", "Joined"}
       /\ data' = [data EXCEPT ![t] = "Cancelled"]
       /\ joinWaker' = [joinWaker EXCEPT ![t] = FALSE]
       /\ WakeJoiner(t, joinWaker[t])

\* Mutant: a task that is being polled is not waited for.
CancelTryLock(t) ==
    \/ /\ t \in freed \/ lock[t] # None
       /\ UNCHANGED <<tstate, data, joinWaker, queue, jwoken>>
    \/ /\ t \notin freed
       /\ lock[t] = None
       /\ CancelData(t)

\* Lines 243-244, 311-317: nothing to do once the task is freed, and otherwise
\* the lock is waited for.
Cancel(t) ==
    \/ /\ t \in freed
       /\ UNCHANGED <<tstate, data, joinWaker, queue, jwoken>>
    \/ /\ t \notin freed
       /\ lock[t] = None
       /\ CancelData(t)

\* Lines 337-341: drop of an AbortOnDropHandle; after a join it changes nothing.
AbortHandle(t) ==
    /\ t \notin Scoped
    /\ jpc[t] \in {"idle", "pending"}
    /\ Cancel(t)
    /\ jpc' = [jpc EXCEPT ![t] = "dropped"]
    /\ UNCHANGED <<lock, shared, freed, runnerVars, scopeVars>>

\* mod.rs:337-340: the closure returns or unwinds, its JoinHandles are dropped.
EndClosure ==
    /\ scope = "open"
    /\ scope' = "destroying"
    /\ jpc' = [t \in Task |-> IF t \in Scoped /\ Joiner[t] = Main
                                 /\ jpc[t] \in {"idle", "pending"}
                              THEN "dropped" ELSE jpc[t]]
    /\ UNCHANGED <<taskVars, runnerVars, jwoken, handles, completed>>

\* mod.rs:271-273.
Destroy(t) ==
    /\ scope = "destroying"
    /\ t \in handles
    /\ handles' = handles \ {t}
    /\ Cancel(t)
    /\ IF data'[t] = data[t] THEN UNCHANGED jpc ELSE DropFuture(t)
    /\ UNCHANGED <<lock, shared, freed, runnerVars, scope, completed>>

EndDestroy ==
    /\ scope = "destroying"
    /\ handles = {}
    /\ scope' = "ended"
    /\ UNCHANGED <<taskVars, runnerVars, joinVars, handles, completed>>

\* The last Arc of t goes.  A task that is polled again holds one itself, in
\* the waker next to its future.  mod.rs:56-64 adds its key to completed_tasks.
Free(t) ==
    /\ data[t] \notin {"Unborn", "Polling"}
    /\ queue[t] = 0
    /\ t \notin shared \cup freed
    /\ jpc[t] \notin {"idle", "pending"}
    /\ \A w \in Runner : rtask[w] # t
    /\ \A u \in Task : Joiner[u] = t => ~joinWaker[u]
    /\ freed' = freed \cup {t}
    /\ completed' = completed \cup ({t} \cap Scoped)
    /\ UNCHANGED <<tstate, data, joinWaker, lock, queue, shared, runnerVars, joinVars,
                   scope, handles>>

-----------------------------------------------------------------------------

Next ==
    \/ \E w \in Runner :
        \/ \E t \in Task : TakeRunnable(w, t) \/ TaskJoins(w, t)
        \/ RunLock(w)
        \/ PollShares(w)
        \/ PollPending(w)
        \/ \E result \in {"Ready", "Panic"} : PollDone(w, result)
        \/ Reschedule(w)
        \/ WakeAfterDone(w)
    \/ \E t \in Task :
        \/ Wake(t)
        \/ DropWaker(t)
        \/ SpawnScoped(t)
        \/ Spawn(t)
        \/ MainJoins(t)
        \/ AbortHandle(t)
        \/ Destroy(t)
        \/ Free(t)
    \/ EndClosure
    \/ EndDestroy

Spec == Init /\ [][Next]_vars

-----------------------------------------------------------------------------

\* The type of every variable; a task has at most one Runnable.
TypeOK ==
    /\ tstate \in [Task -> {"IDLE", "SCHEDULED", "RUNNING", "NOTIFIED_WHILE_RUNNING"}]
    /\ data \in [Task -> {"Unborn", "Polling", "Ready", "Panic", "Cancelled", "Joined"}]
    /\ joinWaker \in [Task -> BOOLEAN]
    /\ lock \in [Task -> Runner \cup {None}]
    /\ queue \in [Task -> 0..1]
    /\ shared \subseteq Task
    /\ rpc \in [Runner -> {"idle", "run", "poll", "unwind", "reschedule", "wakeJoiner",
                           "dead"}]
    /\ rtask \in [Runner -> Task \cup {None}]
    /\ jpc \in [Task -> {"none", "idle", "pending", "joined", "panicked", "dropped"}]
    /\ jwoken \in [Task -> BOOLEAN]
    /\ scope \in {"open", "destroying", "ended"}
    /\ handles \subseteq Scoped
    /\ completed \subseteq Scoped
    /\ freed \subseteq Task

\* A task in progress is in a queue, or about to run, exactly when its state
\* says SCHEDULED: no wake is forgotten and none schedules it twice (lines
\* 31-61).
ScheduledOnce ==
    \A t \in Task : data[t] = "Polling" =>
        (tstate[t] = "SCHEDULED" <=>
            queue[t] = 1 \/ \E w \in Runner : rtask[w] = t /\ rpc[w] = "run")

\* The assertion of start_running (line 46) and the unreachable! of run (line
\* 169) never fire: they would end an executor thread.
NoRunnerDies == \A w \in Runner : rpc[w] # "dead"

\* mod.rs:255-256, 297: once task_scope returns, no future of the scope is
\* left, and none is being polled, so what it borrows may go.
ScopeRespected ==
    scope = "ended" =>
        /\ \A t \in Scoped : data[t] # "Polling"
        /\ \A w \in Runner : rpc[w] \in {"poll", "unwind"} => rtask[w] \notin Scoped

\* As long as no JoinHandle was polled after its task panicked or was
\* cancelled, no executor thread dies.
RunnersSurvive == (\A t \in Task : jpc[t] # "panicked") => NoRunnerDies

\* A JoinHandle that Main awaits is polled again once its task is done: Main
\* was woken, or a runner is about to wake it (lines 185-189, 218-219,
\* 252-254).
JoinNotLost ==
    \A t \in Task :
        Joiner[t] = Main /\ jpc[t] = "pending" /\ data[t] # "Polling" =>
            jwoken[t] \/ \E w \in Runner : rpc[w] = "wakeJoiner" /\ rtask[w] = t
=============================================================================
