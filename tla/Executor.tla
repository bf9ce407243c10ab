------------------------------- MODULE Executor -------------------------------
(***************************************************************************)
(* crates/polars-stream/src/async_executor/mod.rs: the work-stealing       *)
(* executor, on top of the park group, with the part of task.rs that       *)
(* decides when a task is put in a queue (TaskState).                      *)
(*                                                                         *)
(* Queues hold sets of tasks: which of several queued tasks a pop or a     *)
(* steal returns is left open, as no property depends on it.  A poll may   *)
(* wake any task, any number of times, and then is pending or done; other  *)
(* threads may wake any task at any time.  The first wake of a task is the *)
(* schedule() call of spawn_task or spawn.  Cancelling and joining are in  *)
(* module AsyncTask.                                                       *)
(***************************************************************************)
EXTENDS ParkGroup

CONSTANTS
    Task,
    HighPriority,   \* the tasks spawned with TaskPriority::High
    None,           \* an empty Option
    MaxWakes        \* bound on the wakes that change a TaskState

ASSUME TaskAssumption ==
    /\ IsFiniteSet(Task)
    /\ HighPriority \subseteq Task
    /\ None \notin Task
    /\ MaxWakes \in Nat

VARIABLES
    globalHigh,     \* global_high_prio_task_queue
    globalLow,      \* global_low_prio_task_queue
    highPrio,       \* high_prio_tasks of each thread
    slot,           \* local_slot of each thread
    unseen,         \* task lists try_steal_task has yet to visit
    held,           \* the task a worker found and runs
    arg,            \* the task a thread is scheduling
    tstate,         \* TaskState::state
    fresh,          \* TaskMetadata::freshly_spawned
    done,           \* tasks whose poll returned Ready
    wakes           \* wakes so far

queueVars == <<globalHigh, globalLow, highPrio, slot>>
taskVars == <<tstate, fresh, done, wakes>>
vars == <<parkVars, pc, ret, queueVars, unseen, held, arg, taskVars>>

TaskStates == {"IDLE", "SCHEDULED", "RUNNING", "NOTIFIED_WHILE_RUNNING"}

Init ==
    /\ ParkInit
    /\ pc = [th \in Thread |-> IF th \in Worker THEN "next" ELSE "outside"]
    /\ ret = [th \in Thread |-> IF th \in Worker THEN "next" ELSE "outside"]
    /\ globalHigh = {}
    /\ globalLow = {}
    /\ highPrio = [w \in Worker |-> {}]
    /\ slot = [w \in Worker |-> None]
    /\ unseen = [w \in Worker |-> {}]
    /\ held = [w \in Worker |-> None]
    /\ arg = [th \in Thread |-> None]
    /\ tstate = [t \in Task |-> "IDLE"]
    /\ fresh = [t \in Task |-> TRUE]
    /\ done = {}
    /\ wakes = 0

-----------------------------------------------------------------------------
(* Executor::runner and try_steal_task: looking for a task *)

\* A search that succeeds: the closure returns Some(task).
Found(w, t) ==
    /\ held' = [held EXCEPT ![w] = t]
    /\ parking' = [parking EXCEPT ![w] = FALSE]
    /\ Goto(w, "recruit")

\* The rest of the park group is untouched by a search.
ParkIdle == UNCHANGED <<numIdle, activeRecruiter, preparing, version, notified,
                        notifyRecruiter, recruiter, wversion, ret>>

\* Lines 190-192.
TakeSlot(w) ==
    /\ pc[w] = "next"
    /\ slot[w] # None
    /\ Found(w, slot[w])
    /\ slot' = [slot EXCEPT ![w] = None]
    /\ ParkIdle
    /\ UNCHANGED <<globalHigh, globalLow, highPrio, unseen, arg, taskVars>>

\* Lines 195-197.
PopLocal(w) ==
    /\ pc[w] = "next"
    /\ slot[w] = None
    /\ \E t \in highPrio[w] :
          /\ Found(w, t)
          /\ highPrio' = [highPrio EXCEPT ![w] = @ \ {t}]
    /\ ParkIdle
    /\ UNCHANGED <<globalHigh, globalLow, slot, unseen, arg, taskVars>>

\* Mutant: a worker whose slot is empty forgets its list.
StartStealEarly(w) ==
    /\ pc[w] = "next"
    /\ slot[w] = None
    /\ Goto(w, "stealHigh")
    /\ ParkIdle
    /\ UNCHANGED <<parking, queueVars, unseen, held, arg, taskVars>>

\* Line 200: nothing local, start stealing.
StartSteal(w) ==
    /\ pc[w] = "next"
    /\ slot[w] = None
    /\ highPrio[w] = {}
    /\ Goto(w, "stealHigh")
    /\ ParkIdle
    /\ UNCHANGED <<parking, queueVars, unseen, held, arg, taskVars>>

\* Lines 138-144.
StealGlobalHigh(w) ==
    /\ pc[w] = "stealHigh"
    /\ \/ \E t \in globalHigh :
             /\ Found(w, t)
             /\ globalHigh' = globalHigh \ {t}
       \/ /\ globalHigh = {}
          /\ Goto(w, "stealLow")
          /\ UNCHANGED <<globalHigh, held, parking>>
    /\ ParkIdle
    /\ UNCHANGED <<globalLow, highPrio, slot, unseen, arg, taskVars>>

\* Lines 146-152.
StealGlobalLow(w) ==
    /\ pc[w] = "stealLow"
    /\ \/ \E t \in globalLow :
             /\ Found(w, t)
             /\ globalLow' = globalLow \ {t}
             /\ UNCHANGED unseen
       \/ /\ globalLow = {}
          /\ Goto(w, "stealLists")
          /\ unseen' = [unseen EXCEPT ![w] = Worker]
          /\ UNCHANGED <<globalLow, held, parking>>
    /\ ParkIdle
    /\ UNCHANGED <<globalHigh, highPrio, slot, arg, taskVars>>

\* crossbeam's steal_batch_and_pop returns one task and moves up to half of
\* the others to the thief's list.
StealBatchAndPop(w, v, t, batch) ==
    /\ t \in highPrio[v]
    /\ batch \subseteq highPrio[v] \ {t}
    /\ 2 * Cardinality(batch) < Cardinality(highPrio[v])
    /\ highPrio' = IF v = w
                   THEN [highPrio EXCEPT ![w] = @ \ {t}]
                   ELSE [highPrio EXCEPT ![v] = @ \ ({t} \cup batch),
                                         ![w] = @ \cup batch]

\* Lines 155-175: the lists in a random order.  The code makes four passes;
\* one pass allows every outcome of four.
StealList(w, v) ==
    /\ pc[w] = "stealLists"
    /\ v \in unseen[w]
    /\ \/ \E t \in highPrio[v] : \E batch \in SUBSET (highPrio[v] \ {t}) :
             /\ StealBatchAndPop(w, v, t, batch)
             /\ Found(w, t)
             /\ unseen' = [unseen EXCEPT ![w] = {}]
       \/ /\ highPrio[v] = {}
          /\ unseen' = [unseen EXCEPT ![w] = @ \ {v}]
          /\ UNCHANGED <<pc, highPrio, held, parking>>
    /\ ParkIdle
    /\ UNCHANGED <<globalHigh, globalLow, slot, arg, taskVars>>

\* Lines 200-209: an empty-handed search is followed by prepare_park the
\* first time and by park the second time.
StealNone(w) ==
    /\ pc[w] = "stealLists"
    /\ unseen[w] = {}
    /\ Goto(w, IF parking[w] THEN "park" ELSE "prepareLoad")
    /\ ParkIdle
    /\ UNCHANGED <<parking, queueVars, unseen, held, arg, taskVars>>

-----------------------------------------------------------------------------
(* Task::run *)

\* Line 162: TaskState::start_running, asserted to meet SCHEDULED.
StartRunning(w) ==
    /\ pc[w] = "run"
    /\ tstate' = [tstate EXCEPT ![held[w]] = "RUNNING"]
    /\ Goto(w, "poll")
    /\ UNCHANGED <<parkVars, ret, queueVars, unseen, held, arg, fresh, done, wakes>>

\* Lines 51-60: TaskState::reschedule_after_running.
RescheduleAfterRunning(t) ==
    tstate' = [tstate EXCEPT ![t] =
                 IF @ = "NOTIFIED_WHILE_RUNNING" THEN "SCHEDULED" ELSE "IDLE"]

\* Lines 175-182: the poll is pending.
PollPending(w) ==
    /\ pc[w] = "poll"
    /\ RescheduleAfterRunning(held[w])
    /\ IF tstate'[held[w]] = "SCHEDULED"
       THEN /\ arg' = [arg EXCEPT ![w] = held[w]]
            /\ ret' = [ret EXCEPT ![w] = "next"]
            /\ Goto(w, "schedule")
       ELSE Goto(w, "next") /\ UNCHANGED <<arg, ret>>
    /\ held' = [held EXCEPT ![w] = None]
    /\ UNCHANGED <<parkVars, queueVars, unseen, fresh, done, wakes>>

\* Lines 172-190: the poll is ready or panicked; the TaskState stays RUNNING.
PollReady(w) ==
    /\ pc[w] = "poll"
    /\ done' = done \cup {held[w]}
    /\ held' = [held EXCEPT ![w] = None]
    /\ Goto(w, "next")
    /\ UNCHANGED <<parkVars, ret, queueVars, unseen, arg, tstate, fresh, wakes>>

-----------------------------------------------------------------------------
(* Waking and scheduling *)

\* TaskState::wake, lines 32-42 of task.rs.
WakeState(t) ==
    tstate' = [tstate EXCEPT ![t] =
                 CASE @ = "IDLE" -> "SCHEDULED"
                   [] @ = "RUNNING" -> "NOTIFIED_WHILE_RUNNING"
                   [] OTHER -> @]

\* Wake::wake or DynTask::schedule on a task: an idle one must be scheduled.
\* A wake that changes nothing is a stuttering step and is left out.
Wake(th, t) ==
    /\ pc[th] \in {"poll", "outside"}
    /\ wakes < MaxWakes
    /\ tstate[t] \in {"IDLE", "RUNNING"}
    /\ WakeState(t)
    /\ wakes' = wakes + 1
    /\ IF tstate[t] = "IDLE"
       THEN /\ arg' = [arg EXCEPT ![th] = t]
            /\ ret' = [ret EXCEPT ![th] = pc[th]]
            /\ Goto(th, "schedule")
       ELSE UNCHANGED <<pc, arg, ret>>
    /\ UNCHANGED <<parkVars, queueVars, unseen, held, fresh, done>>

PushGlobal(t) ==
    IF t \in HighPriority
    THEN globalHigh' = globalHigh \cup {t} /\ UNCHANGED globalLow
    ELSE globalLow' = globalLow \cup {t} /\ UNCHANGED globalHigh

\* Lines 94-98.
UseGlobalQueue(th, t) == th \notin Worker \/ fresh[t]

\* Lines 100-107.
ScheduleGlobal(th) ==
    LET t == arg[th]
    IN  /\ pc[th] = "schedule"
        /\ UseGlobalQueue(th, t)
        /\ fresh' = [fresh EXCEPT ![t] = FALSE]
        /\ PushGlobal(t)
        /\ arg' = [arg EXCEPT ![th] = None]
        /\ Goto(th, "unpark")
        /\ UNCHANGED <<parkVars, ret, highPrio, slot, unseen, held, tstate, done,
                       wakes>>

\* Lines 113-122: a high priority task takes the slot; the task it displaces
\* goes to the stealable list and is announced.
ScheduleLocalHigh(w) ==
    LET t == arg[w]
    IN  /\ pc[w] = "schedule"
        /\ ~UseGlobalQueue(w, t)
        /\ t \in HighPriority
        /\ slot' = [slot EXCEPT ![w] = t]
        /\ IF slot[w] = None
           THEN Goto(w, ret[w]) /\ UNCHANGED highPrio
           ELSE /\ highPrio' = [highPrio EXCEPT ![w] = @ \cup {slot[w]}]
                /\ Goto(w, "unpark")
        /\ arg' = [arg EXCEPT ![w] = None]
        /\ UNCHANGED <<parkVars, ret, globalHigh, globalLow, unseen, held, taskVars>>

\* Mutant: a low priority task may replace the task in the slot.
MayTakeSlotFull(w) == highPrio[w] = {}

\* Line 126.
MayTakeSlot(w) == highPrio[w] = {} /\ slot[w] = None

\* Lines 123-131.
ScheduleLocalLow(w) ==
    LET t == arg[w]
    IN  /\ pc[w] = "schedule"
        /\ ~UseGlobalQueue(w, t)
        /\ t \notin HighPriority
        /\ IF MayTakeSlot(w)
           THEN /\ slot' = [slot EXCEPT ![w] = t]
                /\ Goto(w, ret[w])
                /\ UNCHANGED globalLow
           ELSE /\ globalLow' = globalLow \cup {t}
                /\ Goto(w, "unpark")
                /\ UNCHANGED slot
        /\ arg' = [arg EXCEPT ![w] = None]
        /\ UNCHANGED <<parkVars, ret, globalHigh, highPrio, unseen, held, taskVars>>

-----------------------------------------------------------------------------

\* What a worker does by itself once it is in its loop.
SearchStep(w) ==
    \/ TakeSlot(w)
    \/ PopLocal(w)
    \/ StartSteal(w)
    \/ StealGlobalHigh(w)
    \/ StealGlobalLow(w)
    \/ \E v \in Worker : StealList(w, v)
    \/ StealNone(w)

PollStep(w) == StartRunning(w) \/ PollPending(w) \/ PollReady(w)

ScheduleLocal(w) == ScheduleLocalHigh(w) \/ ScheduleLocalLow(w)

WorkerStep(w) ==
    \/ SearchStep(w)
    \/ WorkerParkStep(w) /\ UNCHANGED <<queueVars, unseen, held, arg, taskVars>>
    \/ PollStep(w)
    \/ ScheduleLocal(w)

\* schedule_task on the global queues, from any thread.
ThreadStep(th) ==
    \/ ScheduleGlobal(th)
    \/ UnparkStep(th) /\ UNCHANGED <<queueVars, unseen, held, arg, taskVars>>

Next ==
    \/ \E w \in Worker : WorkerStep(w)
    \/ \E th \in Thread : ThreadStep(th)
    \/ \E th \in Thread, t \in Task : Wake(th, t)

Spec == Init /\ [][Next]_vars

\* Every thread keeps running, and every poll returns.  Nothing obliges
\* anybody to wake a task.
Fairness ==
    /\ \A w \in Worker : WF_vars(WorkerStep(w))
    /\ \A th \in Thread : WF_vars(ThreadStep(th))

FairSpec == Spec /\ Fairness

-----------------------------------------------------------------------------

WorkerLabels ==
    {"next", "stealHigh", "stealLow", "stealLists", "prepareLoad",
     "prepareSet", "park", "parkSlow", "recruit", "recruitNotify", "run",
     "poll", "schedule", "unpark", "unparkNotify"}

OutsideLabels == {"outside", "schedule", "unpark", "unparkNotify"}

\* The type of every variable of the park group and of the executor.
TypeOK ==
    /\ numIdle \in Nat
    /\ activeRecruiter \in BOOLEAN
    /\ preparing \in BOOLEAN
    /\ version \in Nat
    /\ notified \in Nat
    /\ notifyRecruiter \in BOOLEAN
    /\ recruiter \in [Worker -> BOOLEAN]
    /\ wversion \in [Worker -> Nat]
    /\ parking \in [Worker -> BOOLEAN]
    /\ pc \in [Thread -> WorkerLabels \cup OutsideLabels]
    /\ \A w \in Worker : pc[w] \in WorkerLabels /\ ret[w] \in {"next", "poll"}
    /\ \A o \in Outside : pc[o] \in OutsideLabels /\ ret[o] = "outside"
    /\ ret \in [Thread -> {"next", "poll", "outside"}]
    /\ globalHigh \subseteq Task
    /\ globalLow \subseteq Task
    /\ highPrio \in [Worker -> SUBSET Task]
    /\ slot \in [Worker -> Task \cup {None}]
    /\ unseen \in [Worker -> SUBSET Worker]
    /\ held \in [Worker -> Task \cup {None}]
    /\ arg \in [Thread -> Task \cup {None}]
    /\ tstate \in [Task -> TaskStates]
    /\ fresh \in [Task -> BOOLEAN]
    /\ done \subseteq Task
    /\ wakes \in 0..MaxWakes

Asleep == {w \in Worker : pc[w] = "parkSlow"}

\* Threads that took an idle worker out of the state but have not yet
\* notified it.
Notifying == {th \in Thread : pc[th] \in {"unparkNotify", "recruitNotify"}}

\* Threads the recruiter role is with: an awake worker that has it, or a
\* thread about to notify a sleeping worker as recruiter.
RoleHolders ==
    {w \in Worker : recruiter[w] /\ pc[w] # "parkSlow"}
        \cup {th \in Thread : pc[th] = "unparkNotify"}

\* park_group.rs, line 8: "There is at most one worker at a time which is
\* considered a 'recruiter'."  The bit in the state is set exactly while the
\* role is somewhere, with one thread or in the one pending notification, so
\* recruit_next and park never clear a bit that somebody else relies on.
OneRecruiter ==
    /\ \A x, y \in RoleHolders : x = y
    /\ notified \in {0, 1}
    /\ notifyRecruiter <=> notified = 1
    /\ RoleHolders # {} => notified = 0
    /\ activeRecruiter <=> RoleHolders # {} \/ notified = 1

\* The idle count in the state, the notifications and the notifiers under way
\* together are exactly the workers asleep: no worker is notified twice or
\* forgotten, and the count cannot underflow.
IdleAccounting ==
    numIdle + notified + Cardinality(Notifying) = Cardinality(Asleep)

\* No lost wakeup: as long as a worker is idle, a task in a global queue has
\* somebody who will look for it: a recruiter, who looks again before it
\* parks or recruits the next worker when it finds something, or the thread
\* that pushed a task and is about to call unpark_one.
NoLostWakeup ==
    numIdle > 0 /\ globalHigh \cup globalLow # {} =>
        activeRecruiter \/ \E th \in Thread : pc[th] = "unpark"

\* The slot and the list of a thread are only refilled by that thread, and
\* nobody can steal from the slot: a worker must not go to sleep, nor even
\* stop looking at them, with a task inside.
LocalTasksServed ==
    \A w \in Worker :
        pc[w] \in {"stealHigh", "stealLow", "stealLists", "prepareLoad",
                   "prepareSet", "park", "parkSlow"} =>
            slot[w] = None /\ highPrio[w] = {}

\* The worker found the task but has not started it.
AboutToRun(w) == pc[w] \in {"recruit", "recruitNotify", "run"}

\* Where a task that waits to be run is: in a queue, in a slot, in the hands
\* of the worker that will run it, or in those of a thread scheduling it.
Places(t) ==
    {<<"queue", q>> : q \in {p \in {"high", "low"} :
        t \in (IF p = "high" THEN globalHigh ELSE globalLow)}}
    \cup {<<"list", w>> : w \in {v \in Worker : t \in highPrio[v]}}
    \cup {<<"slot", w>> : w \in {v \in Worker : slot[v] = t}}
    \cup {<<"held", w>> : w \in {v \in Worker : held[v] = t /\ AboutToRun(v)}}
    \cup {<<"arg", th>> : th \in {x \in Thread : arg[x] = t}}

\* A task is in exactly one place while it is SCHEDULED and nowhere otherwise
\* (so start_running's assertion holds and no two threads can run it), and a
\* task being run is run by exactly one worker.
OwnedOnce ==
    \A t \in Task :
        /\ Cardinality(Places(t)) = IF tstate[t] = "SCHEDULED" THEN 1 ELSE 0
        /\ Cardinality({w \in Worker : held[w] = t /\ ~AboutToRun(w)})
             = IF tstate[t] \in {"IDLE", "SCHEDULED"} \/ t \in done THEN 0 ELSE 1

\* A task that is scheduled is run, and one that is notified while it runs is
\* run again unless this run completes it.
ScheduledRuns ==
    \A t \in Task :
        /\ tstate[t] = "SCHEDULED" ~> tstate[t] = "RUNNING"
        /\ tstate[t] = "NOTIFIED_WHILE_RUNNING" ~> tstate[t] = "RUNNING" \/ t \in done
-----------------------------------------------------------------------------
(* The invariants NoLostWakeup rests on. *)

\* Where a worker may be while it has the recruiter flag; asleep, the flag is
\* left over from before and is overwritten on waking.
RecruiterLabels ==
    {"next", "stealHigh", "stealLow", "stealLists", "prepareLoad",
     "prepareSet", "park", "parkSlow", "recruit", "recruitNotify"}

\* Control: a recruiter does not run tasks, and meets no local task when it
\* starts over; a ParkAttempt lives from prepare_park to the end of park.
ControlInv ==
    \A w \in Worker :
        /\ recruiter[w] => pc[w] \in RecruiterLabels
        /\ pc[w] = "recruitNotify" => recruiter[w]
        /\ recruiter[w] /\ pc[w] = "next" => slot[w] = None /\ highPrio[w] = {}
        /\ parking[w] => pc[w] \in {"stealHigh", "stealLow", "stealLists", "park",
                                   "parkSlow"}
        /\ pc[w] \in {"park", "parkSlow"} => parking[w]

\* A park attempt that has not been cancelled keeps the preparing bit set, so
\* the next unpark_one that wakes nobody cancels it.
AttemptInv ==
    \A w \in Worker :
        /\ wversion[w] <= version
        /\ parking[w] /\ pc[w] # "parkSlow" /\ version = wversion[w] => preparing

\* The park attempt has not been cancelled.
InForce(w) == parking[w] /\ version = wversion[w] /\ pc[w] # "parkSlow"

\* The search has left the high priority queue, or both queues, behind.
PastHigh == {w \in Worker : pc[w] \in {"stealLow", "stealLists", "park"}}
PastBoth == {w \in Worker : pc[w] \in {"stealLists", "park"}}

\* A worker with the role that found a task will not look further either.
RecruiterPast(past) ==
    \E r \in Worker :
        recruiter[r] /\ pc[r] # "parkSlow" /\ (r \in past \/ AboutToRun(r))

\* Calls of unpark_one that have not happened yet.
Announcing == {th \in Thread : pc[th] = "unpark"}

\* These n tasks are still to be announced, but for one that the recruiter,
\* if it can still meet it, was woken for.
Covered(n, past) ==
    \/ n <= Cardinality(Announcing)
    \/ /\ n <= Cardinality(Announcing) + 1
       /\ activeRecruiter
       /\ ~RecruiterPast(past)

\* Every task that appears behind the back of a worker about to park will be
\* announced, which cancels the attempt, or found by the recruiter.
CoverInv ==
    \A w \in Worker : InForce(w) =>
        /\ w \in PastHigh => Covered(Cardinality(globalHigh), PastHigh)
        /\ w \in PastBoth =>
              Covered(Cardinality(globalHigh) + Cardinality(globalLow), PastBoth)

\* The part of the inductive invariant that is no property of its own: what a
\* worker may do with the role and with a park attempt, and why a task pushed
\* during the attempt is not missed.
ParkProtocol == ControlInv /\ AttemptInv /\ CoverInv
=============================================================================
