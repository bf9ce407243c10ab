---------------------------- MODULE RecruiterProofs ----------------------------
(***************************************************************************)
(* The inductive invariants about the recruiter's role, the park attempts  *)
(* and the idle count, for any number of threads and tasks.                *)
(***************************************************************************)
EXTENDS ExecutorTypes


-----------------------------------------------------------------------------
(* The workers' control *)

\* The part of the types that the preservation lemmas below need.
Shape ==
    /\ pc \in [Thread -> WorkerLabels \cup OutsideLabels]
    /\ ret \in [Thread -> {"next", "poll", "outside"}]
    /\ recruiter \in [Worker -> BOOLEAN]
    /\ parking \in [Worker -> BOOLEAN]
    /\ slot \in [Worker -> Task \cup {None}]
    /\ highPrio \in [Worker -> SUBSET Task]
    /\ version \in Nat
    /\ wversion \in [Worker -> Nat]
    /\ numIdle \in Nat
    /\ notified \in Nat
    /\ Worker \subseteq Thread

\* The types of the park group's variables, for use where the whole type
\* invariant would slow the provers down.
LEMMA ShapeOfType == TypeInv => Shape
  BY DEF TypeInv, TypeOK, Shape, Thread

ServeInv == ControlInv /\ LocalTasksServed

\* Every step keeps the recruiter and the park attempts within their labels,
\* and a worker that looks elsewhere has no task of its own left.
LEMMA ServeNext ==
  ASSUME TypeInv, ServeInv, [Next]_vars
  PROVE  ServeInv'
  <1>1. Shape
    BY ShapeOfType
  <1> USE <1>1 DEF ServeInv, ControlInv, LocalTasksServed, RecruiterLabels, Goto, Shape
  <1>2. CASE UNCHANGED vars
    BY <1>2 DEF vars, parkVars, queueVars
  <1>3. ASSUME NEW w \in Worker, SearchStep(w) PROVE ServeInv'
    <2> USE DEF ParkIdle, Found, taskVars, queueVars
    <2>1. CASE TakeSlot(w)
      BY <2>1 DEF TakeSlot
    <2>2. CASE PopLocal(w)
      BY <2>2 DEF PopLocal
    <2>3. CASE StartSteal(w)
      BY <2>3 DEF StartSteal
    <2>4. CASE StealGlobalHigh(w)
      BY <2>4 DEF StealGlobalHigh
    <2>5. CASE StealGlobalLow(w)
      BY <2>5 DEF StealGlobalLow
    <2>6. ASSUME NEW v \in Worker, StealList(w, v) PROVE ServeInv'
      BY <2>6 DEF StealList, StealBatchAndPop
    <2>7. CASE StealNone(w)
      BY <2>7 DEF StealNone
    <2> QED
      BY <1>3, <2>1, <2>2, <2>3, <2>4, <2>5, <2>6, <2>7 DEF SearchStep
  <1>4. ASSUME NEW w \in Worker, WorkerParkStep(w), UNCHANGED queueVars PROVE ServeInv'
    <2> USE <1>4 DEF queueVars
    <2>1. CASE PrepareLoad(w)
      BY <2>1 DEF PrepareLoad
    <2>2. CASE PrepareSet(w)
      BY <2>2 DEF PrepareSet
    <2>3. CASE ParkCancel(w)
      BY <2>3 DEF ParkCancel
    <2>4. CASE Park(w)
      BY <2>4 DEF Park
    <2>5. CASE ParkSlow(w)
      BY <2>5 DEF ParkSlow
    <2>6. CASE RecruitNext(w)
      BY <2>6 DEF RecruitNext
    <2>7. CASE RecruitNotify(w)
      BY <2>7 DEF RecruitNotify
    <2> QED
      BY <2>1, <2>2, <2>3, <2>4, <2>5, <2>6, <2>7 DEF WorkerParkStep
  <1>5. ASSUME NEW w \in Worker, PollStep(w) PROVE ServeInv'
    <2> USE DEF parkVars, queueVars
    <2>1. CASE StartRunning(w)
      BY <2>1 DEF StartRunning
    <2>2. CASE PollPending(w)
      BY <2>2 DEF PollPending
    <2>3. CASE PollReady(w)
      BY <2>3 DEF PollReady
    <2> QED
      BY <1>5, <2>1, <2>2, <2>3 DEF PollStep
  <1>6. ASSUME NEW w \in Worker, ScheduleLocal(w) PROVE ServeInv'
    <2>0. ret[w] \in {"next", "poll"}
      BY DEF TypeInv, TypeOK
    <2> USE <2>0 DEF parkVars
    <2>1. CASE ScheduleLocalHigh(w)
      BY <2>1 DEF ScheduleLocalHigh
    <2>2. CASE ScheduleLocalLow(w)
      BY <2>2 DEF ScheduleLocalLow
    <2> QED
      BY <1>6, <2>1, <2>2 DEF ScheduleLocal
  <1>7. ASSUME NEW th \in Thread, ThreadStep(th) PROVE ServeInv'
    <2>0. th \in Worker => ret[th] \in {"next", "poll"}
      BY DEF TypeInv, TypeOK
    <2> USE <2>0 DEF parkVars, queueVars
    <2>1. CASE ScheduleGlobal(th)
      BY <2>1 DEF ScheduleGlobal
    <2>2. CASE UnparkOne(th) /\ UNCHANGED queueVars
      BY <2>2 DEF UnparkOne
    <2>3. CASE UnparkNotify(th) /\ UNCHANGED queueVars
      BY <2>3 DEF UnparkNotify
    <2> QED
      BY <1>7, <2>1, <2>2, <2>3 DEF ThreadStep, UnparkStep
  <1>8. ASSUME NEW th \in Thread, NEW t \in Task, Wake(th, t) PROVE ServeInv'
    BY <1>8 DEF Wake, parkVars, queueVars
  <1> QED
    BY <1>2, <1>3, <1>4, <1>5, <1>6, <1>7, <1>8 DEF Next, WorkerStep, queueVars

\* A park attempt in force keeps the preparing bit set.
LEMMA AttemptNext ==
  ASSUME TypeInv, ControlInv, AttemptInv, [Next]_vars
  PROVE  AttemptInv'
  <1>1. Shape
    BY ShapeOfType
  <1> USE <1>1 DEF AttemptInv, ControlInv, Goto, Shape
  <1>2. CASE UNCHANGED vars
    BY <1>2 DEF vars, parkVars, queueVars
  <1>3. ASSUME NEW w \in Worker, SearchStep(w) PROVE AttemptInv'
    <2> USE DEF ParkIdle, Found, taskVars, queueVars
    <2>1. CASE TakeSlot(w)
      BY <2>1 DEF TakeSlot
    <2>2. CASE PopLocal(w)
      BY <2>2 DEF PopLocal
    <2>3. CASE StartSteal(w)
      BY <2>3 DEF StartSteal
    <2>4. CASE StealGlobalHigh(w)
      BY <2>4 DEF StealGlobalHigh
    <2>5. CASE StealGlobalLow(w)
      BY <2>5 DEF StealGlobalLow
    <2>6. ASSUME NEW v \in Worker, StealList(w, v) PROVE AttemptInv'
      BY <2>6 DEF StealList, StealBatchAndPop
    <2>7. CASE StealNone(w)
      BY <2>7 DEF StealNone
    <2> QED
      BY <1>3, <2>1, <2>2, <2>3, <2>4, <2>5, <2>6, <2>7 DEF SearchStep
  <1>4. ASSUME NEW w \in Worker, WorkerParkStep(w), UNCHANGED queueVars PROVE AttemptInv'
    <2> USE <1>4 DEF queueVars
    <2>1. CASE PrepareLoad(w)
      BY <2>1 DEF PrepareLoad
    <2>2. CASE PrepareSet(w)
      BY <2>2 DEF PrepareSet, MayPrepare, MarkPreparing
    <2>3. CASE ParkCancel(w)
      BY <2>3 DEF ParkCancel
    <2>4. CASE Park(w)
      BY <2>4 DEF Park, ParkCancelled
    <2>5. CASE ParkSlow(w)
      BY <2>5 DEF ParkSlow
    <2>6. CASE RecruitNext(w)
      BY <2>6 DEF RecruitNext
    <2>7. CASE RecruitNotify(w)
      BY <2>7 DEF RecruitNotify
    <2> QED
      BY <1>4, <2>1, <2>2, <2>3, <2>4, <2>5, <2>6, <2>7 DEF WorkerParkStep
  <1>5. ASSUME NEW w \in Worker, PollStep(w) PROVE AttemptInv'
    <2> USE DEF parkVars, queueVars
    <2>1. CASE StartRunning(w)
      BY <2>1 DEF StartRunning
    <2>2. CASE PollPending(w)
      BY <2>2 DEF PollPending
    <2>3. CASE PollReady(w)
      BY <2>3 DEF PollReady
    <2> QED
      BY <1>5, <2>1, <2>2, <2>3 DEF PollStep
  <1>6. ASSUME NEW w \in Worker, ScheduleLocal(w) PROVE AttemptInv'
    <2> USE DEF parkVars
    <2>1. CASE ScheduleLocalHigh(w)
      BY <2>1 DEF ScheduleLocalHigh
    <2>2. CASE ScheduleLocalLow(w)
      BY <2>2 DEF ScheduleLocalLow
    <2> QED
      BY <1>6, <2>1, <2>2 DEF ScheduleLocal
  <1>7. ASSUME NEW th \in Thread, ThreadStep(th) PROVE AttemptInv'
    <2> USE DEF parkVars, queueVars
    <2>1. CASE ScheduleGlobal(th)
      BY <2>1 DEF ScheduleGlobal
    <2>2. CASE UnparkOne(th) /\ UNCHANGED queueVars
      BY <2>2 DEF UnparkOne, CancelParkAttempts
    <2>3. CASE UnparkNotify(th) /\ UNCHANGED queueVars
      BY <2>3 DEF UnparkNotify
    <2> QED
      BY <1>7, <2>1, <2>2, <2>3 DEF ThreadStep, UnparkStep
  <1>8. ASSUME NEW th \in Thread, NEW t \in Task, Wake(th, t) PROVE AttemptInv'
    BY <1>8 DEF Wake, parkVars, queueVars
  <1> QED
    BY <1>2, <1>3, <1>4, <1>5, <1>6, <1>7, <1>8 DEF Next, WorkerStep, queueVars

\* The recruiter's role stays with one thread or one notification.
LEMMA RecruiterNext ==
  ASSUME TypeInv, ControlInv, OneRecruiter, [Next]_vars
  PROVE  OneRecruiter'
  <1>1. Shape
    BY ShapeOfType
  <1> USE <1>1 DEF OneRecruiter, RoleHolders, ControlInv, RecruiterLabels, Goto, Shape
  <1>2. CASE UNCHANGED vars
    BY <1>2 DEF vars, parkVars, queueVars
  <1>3. ASSUME NEW w \in Worker, SearchStep(w) PROVE OneRecruiter'
    <2> USE DEF ParkIdle, Found, taskVars, queueVars
    <2>1. CASE TakeSlot(w)
      BY <2>1 DEF TakeSlot
    <2>2. CASE PopLocal(w)
      BY <2>2 DEF PopLocal
    <2>3. CASE StartSteal(w)
      BY <2>3 DEF StartSteal
    <2>4. CASE StealGlobalHigh(w)
      BY <2>4 DEF StealGlobalHigh
    <2>5. CASE StealGlobalLow(w)
      BY <2>5 DEF StealGlobalLow
    <2>6. ASSUME NEW v \in Worker, StealList(w, v) PROVE OneRecruiter'
      BY <2>6 DEF StealList, StealBatchAndPop
    <2>7. CASE StealNone(w)
      BY <2>7 DEF StealNone
    <2> QED
      BY <1>3, <2>1, <2>2, <2>3, <2>4, <2>5, <2>6, <2>7 DEF SearchStep
  <1>4. ASSUME NEW w \in Worker, WorkerParkStep(w), UNCHANGED queueVars PROVE OneRecruiter'
    <2> USE <1>4 DEF queueVars
    <2>1. CASE PrepareLoad(w)
      BY <2>1 DEF PrepareLoad
    <2>2. CASE PrepareSet(w)
      <3>1. CASE MayPrepare(w) /\ activeRecruiter
        BY <2>2, <3>1 DEF PrepareSet
      <3>2. CASE MayPrepare(w) /\ ~activeRecruiter
        <4>1. /\ RoleHolders = {}
              /\ notified = 0
          BY <3>2
        <4>2. RoleHolders' = {w}
          <5>1. /\ recruiter'[w]
                /\ \A x \in Worker : x # w => recruiter'[x] = recruiter[x]
            <6>1. recruiter' = [recruiter EXCEPT ![w] = recruiter[w] \/ ~activeRecruiter]
              BY <2>2, <3>2 DEF PrepareSet
            <6>2. (recruiter[w] \/ ~activeRecruiter) = TRUE
              BY <3>2
            <6> QED
              BY <6>1, <6>2
          <5>2. /\ pc'[w] = "stealHigh"
                /\ \A x \in Thread : x # w => pc'[x] = pc[x]
            BY <2>2 DEF PrepareSet
          <5> QED
            BY <4>1, <5>1, <5>2
        <4>3. activeRecruiter' /\ UNCHANGED <<notified, notifyRecruiter>>
          BY <2>2, <3>2 DEF PrepareSet
        <4> HIDE DEF RoleHolders
        <4> QED
          BY <4>1, <4>2, <4>3
      <3>3. CASE ~MayPrepare(w)
        BY <2>2, <3>3 DEF PrepareSet
      <3> QED
        BY <3>1, <3>2, <3>3
    <2>3. CASE ParkCancel(w)
      BY <2>3 DEF ParkCancel
    <2>4. CASE Park(w)
      <3>1. CASE recruiter[w]
        <4>1. RoleHolders = {w} /\ notified = 0
          BY <2>4, <3>1 DEF Park
        <4>2. RoleHolders' = {}
          BY <2>4, <4>1 DEF Park
        <4>3. ~activeRecruiter' /\ UNCHANGED <<notified, notifyRecruiter>>
          BY <2>4, <3>1 DEF Park, Resign
        <4> HIDE DEF RoleHolders
        <4> QED
          BY <4>1, <4>2, <4>3
      <3>2. CASE ~recruiter[w]
        <4>1. RoleHolders' = RoleHolders
          BY <2>4, <3>2 DEF Park
        <4>2. (activeRecruiter' <=> activeRecruiter) /\ UNCHANGED <<notified, notifyRecruiter>>
          BY <2>4, <3>2 DEF Park, Resign
        <4> HIDE DEF RoleHolders
        <4> QED
          BY <4>1, <4>2
      <3> QED
        BY <3>1, <3>2
    <2>5. CASE ParkSlow(w)
      BY <2>5 DEF ParkSlow
    <2>6. CASE RecruitNext(w)
      BY <2>6 DEF RecruitNext
    <2>7. CASE RecruitNotify(w)
      BY <2>7 DEF RecruitNotify, NotifyAsRecruiter
    <2> QED
      BY <1>4, <2>1, <2>2, <2>3, <2>4, <2>5, <2>6, <2>7 DEF WorkerParkStep
  <1>5. ASSUME NEW w \in Worker, PollStep(w) PROVE OneRecruiter'
    <2> USE DEF parkVars, queueVars
    <2>1. CASE StartRunning(w)
      BY <2>1 DEF StartRunning
    <2>2. CASE PollPending(w)
      BY <2>2 DEF PollPending
    <2>3. CASE PollReady(w)
      BY <2>3 DEF PollReady
    <2> QED
      BY <1>5, <2>1, <2>2, <2>3 DEF PollStep
  <1>6. ASSUME NEW w \in Worker, ScheduleLocal(w) PROVE OneRecruiter'
    <2> USE DEF parkVars
    <2>1. CASE ScheduleLocalHigh(w)
      BY <2>1 DEF ScheduleLocalHigh
    <2>2. CASE ScheduleLocalLow(w)
      BY <2>2 DEF ScheduleLocalLow
    <2> QED
      BY <1>6, <2>1, <2>2 DEF ScheduleLocal
  <1>7. ASSUME NEW th \in Thread, ThreadStep(th) PROVE OneRecruiter'
    <2> USE DEF parkVars, queueVars
    <2>1. CASE ScheduleGlobal(th)
      BY <2>1 DEF ScheduleGlobal
    <2>2. CASE UnparkOne(th) /\ UNCHANGED queueVars
      BY <2>2 DEF UnparkOne, ShouldUnpark
    <2>3. CASE UnparkNotify(th) /\ UNCHANGED queueVars
      BY <2>3 DEF UnparkNotify, NotifyAsRecruiter
    <2> QED
      BY <1>7, <2>1, <2>2, <2>3 DEF ThreadStep, UnparkStep
  <1>8. ASSUME NEW th \in Thread, NEW t \in Task, Wake(th, t) PROVE OneRecruiter'
    BY <1>8 DEF Wake, parkVars, queueVars
  <1> QED
    BY <1>2, <1>3, <1>4, <1>5, <1>6, <1>7, <1>8 DEF Next, WorkerStep, queueVars

-----------------------------------------------------------------------------
(* The idle count *)

NotifyLabels == {"unparkNotify", "recruitNotify"}

\* How a move of one thread changes the numbers of notifiers and sleepers.
LEMMA IdleMove ==
  ASSUME TypeInv, NEW th \in Thread, NEW l, Goto(th, l),
         l = "parkSlow" \/ pc[th] = "parkSlow" => th \in Worker
  PROVE  /\ Cardinality(Notifying) \in Nat
         /\ Cardinality(Asleep) \in Nat
         /\ (pc[th] \in NotifyLabels <=> l \in NotifyLabels) =>
              Cardinality(Notifying)' = Cardinality(Notifying)
         /\ pc[th] \notin NotifyLabels /\ l \in NotifyLabels =>
              Cardinality(Notifying)' = Cardinality(Notifying) + 1
         /\ pc[th] \in NotifyLabels /\ l \notin NotifyLabels =>
              Cardinality(Notifying)' = Cardinality(Notifying) - 1
         /\ pc[th] # "parkSlow" /\ l # "parkSlow" =>
              Cardinality(Asleep)' = Cardinality(Asleep)
         /\ pc[th] # "parkSlow" /\ l = "parkSlow" =>
              Cardinality(Asleep)' = Cardinality(Asleep) + 1
         /\ pc[th] = "parkSlow" /\ l # "parkSlow" =>
              Cardinality(Asleep)' = Cardinality(Asleep) - 1
  <1>1. Shape
    BY ShapeOfType
  <1>2. IsFiniteSet(Notifying) /\ IsFiniteSet(Asleep)
    <2>1. IsFiniteSet(Thread)
      BY ThreadAssumption, FS_Union DEF Thread
    <2> QED
      BY <2>1, ThreadAssumption, FS_Subset DEF Notifying, Asleep
  <1> USE <1>1 DEF Shape, Goto, NotifyLabels
  <1>3. /\ (pc[th] \in NotifyLabels <=> l \in NotifyLabels) => Notifying' = Notifying
        /\ pc[th] # "parkSlow" /\ l # "parkSlow" => Asleep' = Asleep
    BY DEF Notifying, Asleep
  <1>4. pc[th] \notin NotifyLabels /\ l \in NotifyLabels =>
          Notifying' = Notifying \cup {th} /\ th \notin Notifying
    BY DEF Notifying
  <1>5. pc[th] \in NotifyLabels /\ l \notin NotifyLabels =>
          Notifying' = Notifying \ {th} /\ th \in Notifying
    BY DEF Notifying
  <1>6. pc[th] # "parkSlow" /\ l = "parkSlow" =>
          Asleep' = Asleep \cup {th} /\ th \notin Asleep
    BY DEF Asleep
  <1>7. pc[th] = "parkSlow" /\ l # "parkSlow" =>
          Asleep' = Asleep \ {th} /\ th \in Asleep
    BY DEF Asleep
  <1> HIDE DEF NotifyLabels, Goto, Shape
  <1>8. Cardinality(Notifying) \in Nat /\ Cardinality(Asleep) \in Nat
    BY <1>2, FS_CardinalityType
  <1>9. pc[th] \notin NotifyLabels /\ l \in NotifyLabels =>
          Cardinality(Notifying)' = Cardinality(Notifying) + 1
    BY <1>2, <1>4, FS_AddElement
  <1>10. pc[th] \in NotifyLabels /\ l \notin NotifyLabels =>
          Cardinality(Notifying)' = Cardinality(Notifying) - 1
    BY <1>2, <1>5, FS_RemoveElement
  <1>11. pc[th] # "parkSlow" /\ l = "parkSlow" =>
          Cardinality(Asleep)' = Cardinality(Asleep) + 1
    BY <1>2, <1>6, FS_AddElement
  <1>12. pc[th] = "parkSlow" /\ l # "parkSlow" =>
          Cardinality(Asleep)' = Cardinality(Asleep) - 1
    BY <1>2, <1>7, FS_RemoveElement
  <1> QED
    BY <1>3, <1>8, <1>9, <1>10, <1>11, <1>12

\* A step of a thread that neither sleeps nor notifies leaves the sum alone.
LEMMA IdleQuiet ==
  ASSUME TypeInv, IdleAccounting, NEW th \in Thread, NEW l, Goto(th, l),
         pc[th] \notin NotifyLabels \cup {"parkSlow"},
         l \notin NotifyLabels \cup {"parkSlow"},
         UNCHANGED <<numIdle, notified>>
  PROVE  IdleAccounting'
  BY IdleMove DEF IdleAccounting

\* Every step keeps the idle count right.
LEMMA IdleNext ==
  ASSUME TypeInv, OneRecruiter, IdleAccounting, [Next]_vars
  PROVE  IdleAccounting'
  <1>1. Shape
    BY ShapeOfType
  <1> USE <1>1 DEF Shape, NotifyLabels
  <1>2. CASE UNCHANGED vars
    BY <1>2 DEF IdleAccounting, Notifying, Asleep, vars, parkVars, queueVars
  <1>3. ASSUME NEW w \in Worker, SearchStep(w) PROVE IdleAccounting'
    <2> USE DEF ParkIdle, Found, taskVars, queueVars
    <2>1. CASE TakeSlot(w)
      BY <2>1, IdleQuiet DEF TakeSlot
    <2>2. CASE PopLocal(w)
      BY <2>2, IdleQuiet DEF PopLocal
    <2>3. CASE StartSteal(w)
      BY <2>3, IdleQuiet DEF StartSteal
    <2>4. CASE StealGlobalHigh(w)
      BY <2>4, IdleQuiet DEF StealGlobalHigh
    <2>5. CASE StealGlobalLow(w)
      BY <2>5, IdleQuiet DEF StealGlobalLow
    <2>6. ASSUME NEW v \in Worker, StealList(w, v) PROVE IdleAccounting'
      <3>1. CASE UNCHANGED pc
        BY <2>6, <3>1 DEF IdleAccounting, StealList, Notifying, Asleep
      <3>2. CASE Goto(w, "recruit")
        BY <2>6, <3>2, IdleQuiet DEF StealList
      <3> QED
        BY <2>6, <3>1, <3>2 DEF StealList
    <2>7. CASE StealNone(w)
      BY <2>7, IdleQuiet DEF StealNone
    <2> QED
      BY <1>3, <2>1, <2>2, <2>3, <2>4, <2>5, <2>6, <2>7 DEF SearchStep
  <1>4. ASSUME NEW w \in Worker, WorkerParkStep(w), UNCHANGED queueVars PROVE IdleAccounting'
    <2> USE <1>4 DEF queueVars
    <2>1. CASE PrepareLoad(w)
      BY <2>1, IdleQuiet DEF PrepareLoad
    <2>2. CASE PrepareSet(w)
      BY <2>2, IdleQuiet DEF PrepareSet
    <2>3. CASE ParkCancel(w)
      BY <2>3, IdleQuiet DEF ParkCancel
    <2>4. CASE Park(w)
      BY <2>4, IdleMove DEF IdleAccounting, Park
    <2>5. CASE ParkSlow(w)
      BY <2>5, IdleMove DEF IdleAccounting, ParkSlow
    <2>6. CASE RecruitNext(w)
      BY <2>6, IdleMove DEF IdleAccounting, RecruitNext
    <2>7. CASE RecruitNotify(w)
      BY <2>7, IdleMove DEF IdleAccounting, RecruitNotify, NotifyAsRecruiter
    <2> QED
      BY <1>4, <2>1, <2>2, <2>3, <2>4, <2>5, <2>6, <2>7 DEF WorkerParkStep
  <1>5. ASSUME NEW w \in Worker, PollStep(w) PROVE IdleAccounting'
    <2> USE DEF parkVars, queueVars
    <2>1. CASE StartRunning(w)
      BY <2>1, IdleQuiet DEF StartRunning
    <2>2. CASE PollPending(w)
      BY <2>2, IdleQuiet DEF PollPending
    <2>3. CASE PollReady(w)
      BY <2>3, IdleQuiet DEF PollReady
    <2> QED
      BY <1>5, <2>1, <2>2, <2>3 DEF PollStep
  <1>6. ASSUME NEW w \in Worker, ScheduleLocal(w) PROVE IdleAccounting'
    <2> USE DEF parkVars
    <2>1. CASE ScheduleLocalHigh(w)
      BY <2>1, IdleQuiet DEF ScheduleLocalHigh
    <2>2. CASE ScheduleLocalLow(w)
      BY <2>2, IdleQuiet DEF ScheduleLocalLow
    <2> QED
      BY <1>6, <2>1, <2>2 DEF ScheduleLocal
  <1>7. ASSUME NEW th \in Thread, ThreadStep(th) PROVE IdleAccounting'
    <2> USE DEF parkVars, queueVars
    <2>1. CASE ScheduleGlobal(th)
      BY <2>1, IdleQuiet DEF ScheduleGlobal
    <2>2. CASE UnparkOne(th) /\ UNCHANGED queueVars
      BY <2>2, IdleMove DEF IdleAccounting, UnparkOne, ShouldUnpark
    <2>3. CASE UnparkNotify(th) /\ UNCHANGED queueVars
      BY <2>3, IdleMove DEF IdleAccounting, UnparkNotify, NotifyAsRecruiter
    <2> QED
      BY <1>7, <2>1, <2>2, <2>3 DEF ThreadStep, UnparkStep
  <1>8. ASSUME NEW th \in Thread, NEW t \in Task, Wake(th, t) PROVE IdleAccounting'
    <2>1. UNCHANGED <<numIdle, notified>>
      BY <1>8 DEF Wake, parkVars
    <2>2. CASE UNCHANGED pc
      BY <2>1, <2>2 DEF IdleAccounting, Notifying, Asleep
    <2>3. CASE Goto(th, "schedule")
      BY <1>8, <2>1, <2>3, IdleQuiet DEF Wake
    <2> QED
      BY <1>8, <2>2, <2>3 DEF Wake
  <1> QED
    BY <1>2, <1>3, <1>4, <1>5, <1>6, <1>7, <1>8 DEF Next, WorkerStep, queueVars
=============================================================================
