---------------------------- MODULE ExecutorTypes ----------------------------
(***************************************************************************)
(* Type correctness of the executor, for any number of threads and tasks.  *)
(***************************************************************************)
EXTENDS Executor, FiniteSetTheorems, TLAPS

\* A worker between finding a task and the end of its poll has that task in
\* hand, and a thread inside schedule_task has the task it schedules.
HandInv ==
    /\ \A w \in Worker :
          \/ AboutToRun(w)
          \/ pc[w] = "poll"
          \/ pc[w] \in {"schedule", "unpark", "unparkNotify"} /\ ret[w] = "poll"
          => held[w] \in Task
    /\ \A th \in Thread : pc[th] = "schedule" => arg[th] \in Task

TypeInv == TypeOK /\ HandInv

\* The initial state is well typed.
LEMMA TypeInit == Init => TypeInv
  <1> SUFFICES ASSUME Init PROVE TypeInv
    OBVIOUS
  <1> USE ThreadAssumption, TaskAssumption DEF Init, ParkInit, Thread
  <1>1. /\ pc \in [Thread -> WorkerLabels \cup OutsideLabels]
        /\ \A w \in Worker : pc[w] \in WorkerLabels
        /\ \A o \in Outside : pc[o] \in OutsideLabels
    BY DEF WorkerLabels, OutsideLabels
  <1>2. /\ ret \in [Thread -> {"next", "poll", "outside"}]
        /\ \A w \in Worker : ret[w] \in {"next", "poll"}
        /\ \A o \in Outside : ret[o] = "outside"
    OBVIOUS
  <1>3. /\ recruiter \in [Worker -> BOOLEAN]
        /\ wversion \in [Worker -> Nat]
        /\ parking \in [Worker -> BOOLEAN]
    OBVIOUS
  <1>4. /\ highPrio \in [Worker -> SUBSET Task]
        /\ slot \in [Worker -> Task \cup {None}]
        /\ unseen \in [Worker -> SUBSET Worker]
        /\ held \in [Worker -> Task \cup {None}]
        /\ arg \in [Thread -> Task \cup {None}]
    OBVIOUS
  <1>5. /\ tstate \in [Task -> TaskStates]
        /\ fresh \in [Task -> BOOLEAN]
        /\ done \subseteq Task
        /\ wakes \in 0..MaxWakes
    BY DEF TaskStates
  <1>6. TypeOK
    BY <1>1, <1>2, <1>3, <1>4, <1>5 DEF TypeOK
  <1>7. HandInv
    BY DEF HandInv, AboutToRun
  <1> QED
    BY <1>6, <1>7 DEF TypeInv

\* Looking for a task keeps the types.
LEMMA TypeSearch ==
  ASSUME TypeInv, NEW w \in Worker, SearchStep(w)
  PROVE  TypeInv'
  <1> USE ThreadAssumption, TaskAssumption
          DEF TypeInv, TypeOK, HandInv, AboutToRun, Thread, WorkerLabels,
              OutsideLabels, ParkIdle, Found, Goto, taskVars, queueVars
  <1>1. CASE TakeSlot(w)
    BY <1>1 DEF TakeSlot
  <1>2. CASE PopLocal(w)
    BY <1>2 DEF PopLocal
  <1>3. CASE StartSteal(w)
    BY <1>3 DEF StartSteal
  <1>4. CASE StealGlobalHigh(w)
    <2>1. CASE globalHigh = {}
      BY <1>4, <2>1 DEF StealGlobalHigh
    <2>2. ASSUME NEW t \in globalHigh, Found(w, t), globalHigh' = globalHigh \ {t}
          PROVE  TypeInv'
      BY <1>4, <2>2 DEF StealGlobalHigh
    <2> QED
      BY <1>4, <2>1, <2>2 DEF StealGlobalHigh
  <1>5. CASE StealGlobalLow(w)
    <2>1. CASE globalLow = {}
      <3>1. unseen' \in [Worker -> SUBSET Worker]
        BY <1>5, <2>1 DEF StealGlobalLow
      <3>2. Goto(w, "stealLists") /\ UNCHANGED <<held, globalLow, parking>>
        BY <1>5, <2>1 DEF StealGlobalLow
      <3> QED
        BY <1>5, <3>1, <3>2 DEF StealGlobalLow
    <2>2. ASSUME NEW t \in globalLow, Found(w, t), globalLow' = globalLow \ {t},
                 UNCHANGED unseen
          PROVE  TypeInv'
      BY <1>5, <2>2 DEF StealGlobalLow
    <2> QED
      BY <1>5, <2>1, <2>2 DEF StealGlobalLow
  <1>6. ASSUME NEW v \in Worker, StealList(w, v)
        PROVE  TypeInv'
    <2>1. CASE highPrio[v] = {}
      BY <1>6, <2>1 DEF StealList
    <2>2. ASSUME NEW t \in highPrio[v], NEW batch \in SUBSET (highPrio[v] \ {t}),
                 StealBatchAndPop(w, v, t, batch), Found(w, t),
                 unseen' = [unseen EXCEPT ![w] = {}]
          PROVE  TypeInv'
      <3>1. highPrio' \in [Worker -> SUBSET Task]
        BY <2>2 DEF StealBatchAndPop
      <3> QED
        BY <1>6, <2>2, <3>1 DEF StealList
    <2> QED
      BY <1>6, <2>1, <2>2 DEF StealList
  <1>7. CASE StealNone(w)
    BY <1>7 DEF StealNone
  <1> QED
    BY <1>1, <1>2, <1>3, <1>4, <1>5, <1>6, <1>7 DEF SearchStep

\* The steps of the park group keep the types.
LEMMA TypePark ==
  ASSUME TypeInv, NEW w \in Worker, WorkerParkStep(w),
         UNCHANGED <<queueVars, unseen, held, arg, taskVars>>
  PROVE  TypeInv'
  <1> USE ThreadAssumption, TaskAssumption
          DEF TypeInv, TypeOK, HandInv, AboutToRun, Thread, WorkerLabels,
              OutsideLabels, Goto, taskVars, queueVars
  <1>1. CASE PrepareLoad(w)
    <2>1. CASE preparing
      <3>1. parking' \in [Worker -> BOOLEAN] /\ wversion' \in [Worker -> Nat]
        BY <1>1, <2>1 DEF PrepareLoad
      <3> QED
        BY <1>1, <2>1, <3>1 DEF PrepareLoad
    <2>2. CASE ~preparing
      BY <1>1, <2>2 DEF PrepareLoad
    <2> QED
      BY <2>1, <2>2
  <1>2. CASE PrepareSet(w)
    BY <1>2 DEF PrepareSet, MayPrepare, MarkPreparing
  <1>3. CASE ParkCancel(w)
    BY <1>3 DEF ParkCancel
  <1>4. CASE Park(w)
    BY <1>4 DEF Park, Resign
  <1>5. CASE ParkSlow(w)
    <2>1. notified' \in Nat
      BY <1>5 DEF ParkSlow
    <2> QED
      BY <1>5, <2>1 DEF ParkSlow
  <1>6. CASE RecruitNext(w)
    <2>1. CASE ~recruiter[w]
      <3>1. Goto(w, "run") /\ UNCHANGED <<numIdle, activeRecruiter, recruiter>>
        BY <1>6, <2>1 DEF RecruitNext
      <3> QED
        BY <1>6, <3>1 DEF RecruitNext
    <2>2. CASE recruiter[w] /\ numIdle > 0
      BY <1>6, <2>2 DEF RecruitNext
    <2>3. CASE recruiter[w] /\ numIdle = 0
      <3>1. /\ pc[w] = "recruit"
            /\ recruiter' = [recruiter EXCEPT ![w] = FALSE]
            /\ activeRecruiter' = FALSE
            /\ Goto(w, "run")
            /\ UNCHANGED <<numIdle, preparing, version, notified, notifyRecruiter,
                           wversion, parking, ret>>
        <4> HIDE DEF TypeInv, Goto
        <4> QED
          BY <1>6, <2>3 DEF RecruitNext
      <3> QED
        BY <3>1
    <2> QED
      BY <2>1, <2>2, <2>3
  <1>7. CASE RecruitNotify(w)
    BY <1>7 DEF RecruitNotify, NotifyAsRecruiter
  <1> QED
    BY <1>1, <1>2, <1>3, <1>4, <1>5, <1>6, <1>7 DEF WorkerParkStep

\* Running a task keeps the types.
LEMMA TypePoll ==
  ASSUME TypeInv, NEW w \in Worker, PollStep(w)
  PROVE  TypeInv'
  <1> USE ThreadAssumption, TaskAssumption
          DEF TypeInv, TypeOK, HandInv, AboutToRun, Thread, WorkerLabels,
              OutsideLabels, Goto, parkVars, taskVars, queueVars
  <1>1. CASE StartRunning(w)
    <2>1. tstate' \in [Task -> TaskStates]
      BY <1>1 DEF StartRunning, TaskStates
    <2> QED
      BY <1>1, <2>1 DEF StartRunning
  <1>2. CASE PollPending(w)
    <2>1. tstate' \in [Task -> TaskStates]
      BY <1>2 DEF PollPending, RescheduleAfterRunning, TaskStates
    <2>2. CASE tstate'[held[w]] = "SCHEDULED"
      BY <1>2, <2>1, <2>2 DEF PollPending
    <2>3. CASE tstate'[held[w]] # "SCHEDULED"
      BY <1>2, <2>1, <2>3 DEF PollPending
    <2> QED
      BY <2>2, <2>3
  <1>3. CASE PollReady(w)
    BY <1>3 DEF PollReady
  <1> QED
    BY <1>1, <1>2, <1>3 DEF PollStep

\* Scheduling on the worker's own queues keeps the types.
LEMMA TypeScheduleLocal ==
  ASSUME TypeInv, NEW w \in Worker, ScheduleLocal(w)
  PROVE  TypeInv'
  <1> USE ThreadAssumption, TaskAssumption
          DEF TypeInv, TypeOK, HandInv, AboutToRun, Thread, WorkerLabels,
              OutsideLabels, Goto, parkVars, taskVars
  <1>1. CASE ScheduleLocalHigh(w)
    <2>1. CASE slot[w] = None
      BY <1>1, <2>1 DEF ScheduleLocalHigh
    <2>2. CASE slot[w] # None
      <3>1. highPrio' \in [Worker -> SUBSET Task] /\ Goto(w, "unpark")
        BY <1>1, <2>2 DEF ScheduleLocalHigh
      <3> QED
        BY <1>1, <3>1 DEF ScheduleLocalHigh
    <2> QED
      BY <2>1, <2>2
  <1>2. CASE ScheduleLocalLow(w)
    <2>1. CASE MayTakeSlot(w)
      <3>1. /\ slot' = [slot EXCEPT ![w] = arg[w]]
            /\ Goto(w, ret[w])
            /\ arg' = [arg EXCEPT ![w] = None]
            /\ pc[w] = "schedule"
            /\ UNCHANGED <<parkVars, ret, globalHigh, globalLow, highPrio, unseen,
                           held, taskVars>>
        <4> HIDE DEF TypeInv, Goto
        <4> QED
          BY <1>2, <2>1 DEF ScheduleLocalLow
      <3> QED
        BY <3>1
    <2>2. CASE ~MayTakeSlot(w)
      <3>1. /\ globalLow' = globalLow \cup {arg[w]}
            /\ Goto(w, "unpark")
            /\ arg' = [arg EXCEPT ![w] = None]
            /\ pc[w] = "schedule"
            /\ UNCHANGED <<parkVars, ret, globalHigh, highPrio, slot, unseen, held,
                           taskVars>>
        <4> HIDE DEF TypeInv, Goto
        <4> QED
          BY <1>2, <2>2 DEF ScheduleLocalLow
      <3>2. globalLow' \subseteq Task
        BY <3>1
      <3> QED
        BY <3>1, <3>2
    <2> QED
      BY <2>1, <2>2
  <1> QED
    BY <1>1, <1>2 DEF ScheduleLocal

\* Scheduling on a global queue and the unpark_one that follows keep the types.
LEMMA TypeThread ==
  ASSUME TypeInv, NEW th \in Thread, ThreadStep(th)
  PROVE  TypeInv'
  <1> USE ThreadAssumption, TaskAssumption
          DEF TypeInv, TypeOK, HandInv, AboutToRun, Thread, WorkerLabels,
              OutsideLabels, Goto, parkVars, taskVars, queueVars
  <1>1. CASE ScheduleGlobal(th)
    <2>1. /\ fresh' \in [Task -> BOOLEAN]
          /\ globalHigh' \subseteq Task
          /\ globalLow' \subseteq Task
      BY <1>1 DEF ScheduleGlobal, PushGlobal
    <2> QED
      BY <1>1, <2>1 DEF ScheduleGlobal
  <1> DEFINE rest == UNCHANGED <<queueVars, unseen, held, arg, taskVars>>
  <1>2. CASE UnparkOne(th) /\ rest
    <2>1. CASE ShouldUnpark
      BY <1>2, <2>1 DEF UnparkOne, ShouldUnpark
    <2>2. CASE ~ShouldUnpark
      <3>1. /\ CancelParkAttempts
            /\ Goto(th, ret[th])
            /\ UNCHANGED <<numIdle, activeRecruiter, notified, notifyRecruiter,
                           recruiter, wversion, parking, ret>>
        <4> HIDE DEF TypeInv, Goto
        <4> QED
          BY <1>2, <2>2 DEF UnparkOne
      <3>2. version' \in Nat /\ preparing' \in BOOLEAN
        <4>1. version \in Nat /\ preparing \in BOOLEAN
          OBVIOUS
        <4> HIDE DEF TypeInv
        <4>2. CASE preparing
          <5>1. version' = version + 1
            BY <3>1, <4>2 DEF CancelParkAttempts
          <5>2. preparing' = FALSE
            BY <3>1, <4>2 DEF CancelParkAttempts
          <5>3. version' \in Nat
            BY <4>1, <5>1
          <5> QED
            BY <5>2, <5>3
        <4>3. CASE ~preparing
          <5>1. UNCHANGED <<version, preparing>>
            BY <3>1, <4>3 DEF CancelParkAttempts
          <5> QED
            BY <4>1, <5>1
        <4> QED
          BY <4>2, <4>3
      <3>3. TypeOK'
        <4>1. CASE th \in Worker
          BY <1>2, <3>1, <3>2, <4>1
        <4>2. CASE th \in Outside
          BY <1>2, <3>1, <3>2, <4>2
        <4> QED
          BY <4>1, <4>2
      <3>4. HandInv'
        BY <1>2, <2>2 DEF UnparkOne
      <3> QED
        BY <3>3, <3>4
    <2> QED
      BY <2>1, <2>2
  <1>3. CASE UnparkNotify(th) /\ rest
    BY <1>3 DEF UnparkNotify, NotifyAsRecruiter
  <1> QED
    BY <1>1, <1>2, <1>3 DEF ThreadStep, UnparkStep

\* Waking a task keeps the types.
LEMMA TypeWake ==
  ASSUME TypeInv, NEW th \in Thread, NEW t \in Task, Wake(th, t)
  PROVE  TypeInv'
  <1> USE ThreadAssumption, TaskAssumption
          DEF TypeInv, TypeOK, HandInv, AboutToRun, Thread, WorkerLabels,
              OutsideLabels, Goto, parkVars, queueVars
  <1>1. tstate' \in [Task -> TaskStates] /\ wakes' \in 0..MaxWakes
    BY DEF Wake, WakeState, TaskStates
  <1>2. CASE tstate[t] = "IDLE"
    <2>1. TypeOK'
      <3>1. /\ pc[th] \in {"poll", "outside"}
            /\ Goto(th, "schedule")
            /\ arg' = [arg EXCEPT ![th] = t]
            /\ ret' = [ret EXCEPT ![th] = pc[th]]
            /\ UNCHANGED <<parkVars, queueVars, unseen, held, fresh, done>>
        <4> HIDE DEF TypeInv, Goto
        <4> QED
          BY <1>2 DEF Wake
      <3>2. CASE th \in Worker
        BY <1>1, <3>1, <3>2
      <3>3. CASE th \in Outside
        BY <1>1, <3>1, <3>3
      <3> QED
        BY <3>2, <3>3
    <2>2. HandInv'
      BY <1>2 DEF Wake
    <2> QED
      BY <2>1, <2>2
  <1>3. CASE tstate[t] # "IDLE"
    BY <1>1, <1>3 DEF Wake
  <1> QED
    BY <1>2, <1>3

\* Every step keeps the types.
LEMMA TypeNext == TypeInv /\ [Next]_vars => TypeInv'
  <1> SUFFICES ASSUME TypeInv, [Next]_vars PROVE TypeInv'
    OBVIOUS
  <1>1. CASE UNCHANGED vars
    BY <1>1 DEF vars, parkVars, queueVars, taskVars, TypeInv, TypeOK, HandInv,
                AboutToRun
  <1>2. ASSUME NEW w \in Worker, WorkerStep(w) PROVE TypeInv'
    BY <1>2, TypeSearch, TypePark, TypePoll, TypeScheduleLocal DEF WorkerStep
  <1> QED
    BY <1>1, <1>2, TypeThread, TypeWake DEF Next

\* Every variable keeps its type in every behaviour of the executor, and a
\* worker that runs or schedules a task has one.
THEOREM TypeCorrect == Spec => [](TypeOK /\ HandInv)
  BY TypeInit, TypeNext, PTL DEF Spec, TypeInv
=============================================================================
