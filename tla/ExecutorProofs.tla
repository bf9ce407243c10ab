--------------------------- MODULE ExecutorProofs ---------------------------
(***************************************************************************)
(* The executor loses no wakeup, for any number of threads and tasks.      *)
(***************************************************************************)
EXTENDS RecruiterProofs

-----------------------------------------------------------------------------
(* No lost wakeup *)

Finite ==
    /\ IsFiniteSet(globalHigh) /\ Cardinality(globalHigh) \in Nat
    /\ IsFiniteSet(globalLow) /\ Cardinality(globalLow) \in Nat
    /\ IsFiniteSet(Announcing) /\ Cardinality(Announcing) \in Nat

\* The queues and the pending announcements are finite.
LEMMA Counts == TypeInv => Finite
  <1> SUFFICES ASSUME TypeInv PROVE Finite
    OBVIOUS
  <1>1. IsFiniteSet(globalHigh) /\ IsFiniteSet(globalLow)
    BY TaskAssumption, FS_Subset DEF TypeInv, TypeOK
  <1>2. IsFiniteSet(Thread)
    BY ThreadAssumption, FS_Union DEF Thread
  <1>3. IsFiniteSet(Announcing)
    BY <1>2, FS_Subset DEF Announcing
  <1> QED
    BY <1>1, <1>3, FS_CardinalityType DEF Finite

\* Adding an element to a finite set adds at most one to its size.
LEMMA AddAtMostOne ==
  ASSUME NEW S, IsFiniteSet(S), NEW x
  PROVE  Cardinality(S \cup {x}) <= Cardinality(S) + 1
  <1>1. Cardinality(S) \in Nat
    BY FS_CardinalityType
  <1>2. CASE x \in S
    <2>1. S \cup {x} = S
      BY <1>2
    <2> QED
      BY <1>1, <2>1
  <1>3. CASE x \notin S
    <2>1. Cardinality(S \cup {x}) = Cardinality(S) + 1
      BY <1>3, FS_AddElement
    <2> QED
      BY <1>1, <2>1
  <1> QED
    BY <1>2, <1>3

\* How a move of one thread changes the number of pending announcements.
LEMMA AnnouncingMove ==
  ASSUME TypeInv, NEW th \in Thread, NEW l, Goto(th, l)
  PROVE  /\ pc[th] # "unpark" /\ l # "unpark" => Announcing' = Announcing
         /\ pc[th] # "unpark" /\ l = "unpark" =>
              Cardinality(Announcing)' = Cardinality(Announcing) + 1
         /\ pc[th] = "unpark" /\ l # "unpark" =>
              Cardinality(Announcing)' = Cardinality(Announcing) - 1
  <1>1. Shape
    BY ShapeOfType
  <1>2. IsFiniteSet(Announcing)
    BY Counts DEF Finite
  <1>3. ASSUME pc[th] # "unpark", l # "unpark" PROVE Announcing' = Announcing
    BY <1>1, <1>3 DEF Announcing, Goto, Shape
  <1>4. ASSUME pc[th] # "unpark", l = "unpark"
        PROVE  Cardinality(Announcing)' = Cardinality(Announcing) + 1
    <2>1. Announcing' = Announcing \cup {th} /\ th \notin Announcing
      BY <1>1, <1>4 DEF Announcing, Goto, Shape
    <2> QED
      BY <1>2, <2>1, FS_AddElement
  <1>5. ASSUME pc[th] = "unpark", l # "unpark"
        PROVE  Cardinality(Announcing)' = Cardinality(Announcing) - 1
    <2>1. Announcing' = Announcing \ {th} /\ th \in Announcing
      BY <1>1, <1>5 DEF Announcing, Goto, Shape
    <2> QED
      BY <1>2, <2>1, FS_RemoveElement
  <1> QED
    BY <1>3, <1>4, <1>5

\* The step puts no worker further in its search and leaves the recruiter's
\* bit alone.
Steady ==
    /\ \A x \in Worker : InForce(x)' =>
          /\ x \in PastHigh' => InForce(x) /\ x \in PastHigh
          /\ x \in PastBoth' => InForce(x) /\ x \in PastBoth
    /\ activeRecruiter => activeRecruiter'
    /\ RecruiterPast(PastHigh)' => RecruiterPast(PastHigh)
    /\ RecruiterPast(PastBoth)' => RecruiterPast(PastBoth)

\* Such a step keeps the cover if it announces every task it queues.
LEMMA CoverFrame ==
  ASSUME Finite, Finite', CoverInv, Steady,
         Cardinality(globalHigh)' + Cardinality(Announcing)
            <= Cardinality(globalHigh) + Cardinality(Announcing)',
         Cardinality(globalHigh)' + Cardinality(globalLow)' + Cardinality(Announcing)
            <= Cardinality(globalHigh) + Cardinality(globalLow) + Cardinality(Announcing)'
  PROVE  CoverInv'
  BY DEF CoverInv, Covered, Finite, Steady

\* The special case of a step that queues and announces nothing.
LEMMA CoverQuiet ==
  ASSUME Finite, CoverInv, Steady, UNCHANGED <<globalHigh, globalLow, Announcing>>
  PROVE  CoverInv'
  BY CoverFrame DEF CoverInv, Covered, Finite, Steady

\* Every step keeps the cover.
LEMMA CoverNext ==
  ASSUME TypeInv, ControlInv, OneRecruiter, AttemptInv, CoverInv, [Next]_vars
  PROVE  CoverInv'
  <1>1. Shape /\ Finite
    BY ShapeOfType, Counts
  <1>2. Finite'
    <2>1. TypeInv'
      BY TypeNext
    <2>2. TypeInv' => Finite'
      BY Counts, PTL
    <2> QED
      BY <2>1, <2>2
  <1>3. CASE UNCHANGED vars
    BY <1>3 DEF vars, parkVars, queueVars, CoverInv, Covered, RecruiterPast,
                InForce, PastHigh, PastBoth, Announcing, AboutToRun
  <1> DEFINE quiet == UNCHANGED <<globalHigh, globalLow, Announcing>>
  <1> USE <1>1 DEF Shape
  <1>4. ASSUME NEW w \in Worker, SearchStep(w) PROVE CoverInv'
    <2> USE DEF ParkIdle, Found, taskVars, queueVars
    <2>1. CASE TakeSlot(w)
      <3>1. quiet
        BY <2>1, AnnouncingMove DEF TakeSlot
      <3>2. Steady
        BY <2>1 DEF TakeSlot, Steady, InForce, PastHigh, PastBoth, RecruiterPast, AboutToRun, ControlInv,
                    RecruiterLabels, Goto
      <3> QED
        BY <3>1, <3>2, CoverQuiet
    <2>2. CASE PopLocal(w)
      <3>1. quiet
        BY <2>2, AnnouncingMove DEF PopLocal
      <3>2. Steady
        BY <2>2 DEF PopLocal, Steady, InForce, PastHigh, PastBoth, RecruiterPast, AboutToRun, ControlInv,
                    RecruiterLabels, Goto
      <3> QED
        BY <3>1, <3>2, CoverQuiet
    <2>3. CASE StartSteal(w)
      <3>1. quiet
        BY <2>3, AnnouncingMove DEF StartSteal
      <3>2. Steady
        BY <2>3 DEF StartSteal, Steady, InForce, PastHigh, PastBoth, RecruiterPast, AboutToRun, ControlInv,
                    RecruiterLabels, Goto
      <3> QED
        BY <3>1, <3>2, CoverQuiet
    <2>4. CASE StealGlobalHigh(w)
      <3>1. Announcing' = Announcing /\ UNCHANGED <<globalLow, activeRecruiter>>
        BY <2>4, AnnouncingMove DEF StealGlobalHigh
      <3>2. CASE globalHigh = {}
        <4>1. UNCHANGED globalHigh /\ Cardinality(globalHigh) = 0
          BY <2>4, <3>2, FS_EmptySet DEF StealGlobalHigh
        <4>2. \A x \in Worker : InForce(x)' /\ x \in PastBoth' =>
                 InForce(x) /\ x \in PastBoth
          BY <2>4, <3>2 DEF StealGlobalHigh, InForce, PastBoth, Goto
        <4>3. RecruiterPast(PastBoth)' => RecruiterPast(PastBoth)
          BY <2>4, <3>2 DEF StealGlobalHigh, PastBoth, RecruiterPast, AboutToRun, Goto
        <4> QED
          BY <3>1, <4>1, <4>2, <4>3 DEF CoverInv, Covered, Finite
      <3>3. ASSUME NEW t \in globalHigh, Found(w, t), globalHigh' = globalHigh \ {t}
            PROVE  CoverInv'
        <4>1. Cardinality(globalHigh)' = Cardinality(globalHigh) - 1
          BY <3>3, FS_RemoveElement DEF Finite
        <4>2. \A x \in Worker : InForce(x)' =>
                 /\ x \in PastHigh' => InForce(x) /\ x \in PastHigh
                 /\ x \in PastBoth' => InForce(x) /\ x \in PastBoth
          BY <2>4, <3>3 DEF StealGlobalHigh, InForce, PastHigh, PastBoth, Goto
        <4> QED
          BY <3>1, <4>1, <4>2 DEF CoverInv, Covered, Finite
      <3> QED
        BY <2>4, <3>2, <3>3 DEF StealGlobalHigh
    <2>5. CASE StealGlobalLow(w)
      <3>1. Announcing' = Announcing /\ UNCHANGED <<globalHigh, activeRecruiter>>
        BY <2>5, AnnouncingMove DEF StealGlobalLow
      <3>2. CASE globalLow = {}
        <4>1. UNCHANGED globalLow /\ Cardinality(globalLow) = 0
          BY <2>5, <3>2, FS_EmptySet DEF StealGlobalLow
        <4>2. \A x \in Worker : InForce(x)' =>
                 /\ x \in PastHigh' => InForce(x) /\ x \in PastHigh
                 /\ x \in PastBoth' => InForce(x) /\ x \in PastHigh
          BY <2>5, <3>2 DEF StealGlobalLow, InForce, PastHigh, PastBoth, Goto
        <4>3. /\ RecruiterPast(PastHigh)' => RecruiterPast(PastHigh)
              /\ RecruiterPast(PastBoth)' => RecruiterPast(PastHigh)
          BY <2>5, <3>2 DEF StealGlobalLow, PastHigh, PastBoth, RecruiterPast,
                            AboutToRun, Goto
        <4> QED
          BY <3>1, <4>1, <4>2, <4>3 DEF CoverInv, Covered, Finite
      <3>3. ASSUME NEW t \in globalLow, Found(w, t), globalLow' = globalLow \ {t}
            PROVE  CoverInv'
        <4>1. Cardinality(globalLow)' = Cardinality(globalLow) - 1
          BY <3>3, FS_RemoveElement DEF Finite
        <4>2. \A x \in Worker : InForce(x)' =>
                 /\ x \in PastHigh' => InForce(x) /\ x \in PastHigh
                 /\ x \in PastBoth' => InForce(x) /\ x \in PastBoth
          BY <2>5, <3>3 DEF StealGlobalLow, InForce, PastHigh, PastBoth, Goto
        <4>3. RecruiterPast(PastHigh)' => RecruiterPast(PastHigh)
          BY <2>5, <3>3 DEF StealGlobalLow, PastHigh, RecruiterPast, AboutToRun, Goto
        <4> QED
          BY <3>1, <4>1, <4>2, <4>3 DEF CoverInv, Covered, Finite
      <3> QED
        BY <2>5, <3>2, <3>3 DEF StealGlobalLow
    <2>6. ASSUME NEW v \in Worker, StealList(w, v) PROVE CoverInv'
      <3>1. quiet
        <4>1. CASE UNCHANGED pc
          BY <2>6, <4>1 DEF StealList, Announcing
        <4>2. CASE Goto(w, "recruit")
          BY <2>6, <4>2, AnnouncingMove DEF StealList
        <4> QED
          BY <2>6, <4>1, <4>2 DEF StealList
      <3>2. Steady
        BY <2>6 DEF StealList, Steady, InForce, PastHigh, PastBoth, RecruiterPast,
                    AboutToRun, ControlInv, RecruiterLabels, Goto
      <3> QED
        BY <3>1, <3>2, CoverQuiet
    <2>7. CASE StealNone(w)
      <3>1. quiet
        BY <2>7, AnnouncingMove DEF StealNone
      <3>2. Steady
        BY <2>7 DEF StealNone, Steady, InForce, PastHigh, PastBoth, RecruiterPast, AboutToRun, ControlInv,
                    RecruiterLabels, Goto
      <3> QED
        BY <3>1, <3>2, CoverQuiet
    <2> QED
      BY <1>4, <2>1, <2>2, <2>3, <2>4, <2>5, <2>6, <2>7 DEF SearchStep
  <1>5. ASSUME NEW w \in Worker, WorkerParkStep(w), UNCHANGED queueVars
        PROVE  CoverInv'
    <2> USE <1>5 DEF queueVars
    <2>1. CASE PrepareLoad(w)
      <3>1. quiet
        BY <2>1, AnnouncingMove DEF PrepareLoad
      <3>2. Steady
        BY <2>1 DEF PrepareLoad, Steady, InForce, PastHigh, PastBoth, RecruiterPast, AboutToRun, ControlInv,
                    RecruiterLabels, Goto
      <3> QED
        BY <3>1, <3>2, CoverQuiet
    <2>2. CASE PrepareSet(w)
      <3>1. quiet
        BY <2>2, AnnouncingMove DEF PrepareSet
      <3>2. Steady
        BY <2>2 DEF PrepareSet, Steady, InForce, PastHigh, PastBoth, RecruiterPast, AboutToRun, ControlInv,
                    RecruiterLabels, Goto
      <3> QED
        BY <3>1, <3>2, CoverQuiet
    <2>3. CASE ParkCancel(w)
      <3>1. quiet
        BY <2>3, AnnouncingMove DEF ParkCancel
      <3>2. Steady
        BY <2>3 DEF ParkCancel, Steady, InForce, PastHigh, PastBoth, RecruiterPast, AboutToRun, ControlInv,
                    RecruiterLabels, Goto
      <3> QED
        BY <3>1, <3>2, CoverQuiet
    <2>4. CASE Park(w)
      <3>1. quiet
        BY <2>4, AnnouncingMove DEF Park
      <3>2. \A x \in Worker : InForce(x)' =>
               /\ x \in PastHigh' => InForce(x) /\ x \in PastHigh
               /\ x \in PastBoth' => InForce(x) /\ x \in PastBoth
        BY <2>4 DEF Park, InForce, PastHigh, PastBoth, Goto
      <3>3. CASE recruiter[w]
        <4>1. RecruiterPast(PastHigh) /\ RecruiterPast(PastBoth)
          BY <2>4, <3>3 DEF Park, RecruiterPast, PastHigh, PastBoth
        <4> QED
          BY <3>1, <3>2, <4>1 DEF CoverInv, Covered, Finite
      <3>4. CASE ~recruiter[w]
        <4>1. Steady
          BY <2>4, <3>2, <3>4 DEF Park, Resign, Steady, RecruiterPast, PastHigh,
                                  PastBoth, AboutToRun, Goto
        <4> QED
          BY <3>1, <4>1, CoverQuiet
      <3> QED
        BY <3>3, <3>4
    <2>5. CASE ParkSlow(w)
      <3>1. quiet
        BY <2>5, AnnouncingMove DEF ParkSlow
      <3>2. Steady
        BY <2>5 DEF ParkSlow, Steady, InForce, PastHigh, PastBoth, RecruiterPast, AboutToRun, ControlInv,
                    RecruiterLabels, Goto
      <3> QED
        BY <3>1, <3>2, CoverQuiet
    <2>6. CASE RecruitNext(w)
      <3>1. quiet
        BY <2>6, AnnouncingMove DEF RecruitNext
      <3>2. \A x \in Worker : InForce(x)' =>
               /\ x \in PastHigh' => InForce(x) /\ x \in PastHigh
               /\ x \in PastBoth' => InForce(x) /\ x \in PastBoth
        BY <2>6 DEF RecruitNext, InForce, PastHigh, PastBoth, Goto
      <3>3. CASE recruiter[w]
        <4>1. RecruiterPast(PastHigh) /\ RecruiterPast(PastBoth)
          BY <2>6, <3>3 DEF RecruitNext, RecruiterPast, AboutToRun
        <4> QED
          BY <3>1, <3>2, <4>1 DEF CoverInv, Covered, Finite
      <3>4. CASE ~recruiter[w]
        <4>1. Steady
          BY <2>6, <3>2, <3>4 DEF RecruitNext, Steady, RecruiterPast, PastHigh,
                                  PastBoth, AboutToRun, Goto
        <4> QED
          BY <3>1, <4>1, CoverQuiet
      <3> QED
        BY <3>3, <3>4
    <2>7. CASE RecruitNotify(w)
      <3>1. quiet
        BY <2>7, AnnouncingMove DEF RecruitNotify
      <3>2. Steady
        BY <2>7 DEF RecruitNotify, Steady, InForce, PastHigh, PastBoth, RecruiterPast, AboutToRun, ControlInv,
                    RecruiterLabels, Goto
      <3> QED
        BY <3>1, <3>2, CoverQuiet
    <2> QED
      BY <1>5, <2>1, <2>2, <2>3, <2>4, <2>5, <2>6, <2>7 DEF WorkerParkStep
  <1>6. ASSUME NEW w \in Worker, PollStep(w) PROVE CoverInv'
    <2> USE DEF parkVars, queueVars
    <2>1. CASE StartRunning(w)
      <3>1. quiet
        BY <2>1, AnnouncingMove DEF StartRunning
      <3>2. Steady
        BY <2>1 DEF StartRunning, Steady, InForce, PastHigh, PastBoth, RecruiterPast, AboutToRun, ControlInv,
                    RecruiterLabels, Goto
      <3> QED
        BY <3>1, <3>2, CoverQuiet
    <2>2. CASE PollPending(w)
      <3>1. quiet
        BY <2>2, AnnouncingMove DEF PollPending
      <3>2. Steady
        BY <2>2 DEF PollPending, Steady, InForce, PastHigh, PastBoth, RecruiterPast, AboutToRun, ControlInv,
                    RecruiterLabels, Goto
      <3> QED
        BY <3>1, <3>2, CoverQuiet
    <2>3. CASE PollReady(w)
      <3>1. quiet
        BY <2>3, AnnouncingMove DEF PollReady
      <3>2. Steady
        BY <2>3 DEF PollReady, Steady, InForce, PastHigh, PastBoth, RecruiterPast, AboutToRun, ControlInv,
                    RecruiterLabels, Goto
      <3> QED
        BY <3>1, <3>2, CoverQuiet
    <2> QED
      BY <1>6, <2>1, <2>2, <2>3 DEF PollStep
  <1>7. ASSUME NEW w \in Worker, ScheduleLocal(w) PROVE CoverInv'
    <2>1. pc[w] = "schedule" /\ ~parking[w] /\ ~recruiter[w]
      BY <1>7 DEF ScheduleLocal, ScheduleLocalHigh, ScheduleLocalLow, ControlInv,
                  RecruiterLabels
    <2>2. \E l \in {"next", "poll", "unpark"} : Goto(w, l) /\ UNCHANGED parkVars
      <3>1. ret[w] \in {"next", "poll"}
        BY DEF TypeInv, TypeOK
      <3> QED
        BY <1>7, <3>1 DEF ScheduleLocal, ScheduleLocalHigh, ScheduleLocalLow
    <2>3. Steady
      BY <2>1, <2>2 DEF parkVars, Steady, InForce, PastHigh, PastBoth, RecruiterPast,
                        AboutToRun, Goto
    <2>4. UNCHANGED globalHigh /\ Cardinality(Announcing)' >= Cardinality(Announcing)
      <3>1. UNCHANGED globalHigh
        BY <1>7 DEF ScheduleLocal, ScheduleLocalHigh, ScheduleLocalLow
      <3> QED
        BY <2>1, <2>2, <3>1, AnnouncingMove DEF Finite
    <2>5. CASE UNCHANGED globalLow
      BY <1>2, <2>3, <2>4, <2>5, CoverFrame DEF Finite
    <2>6. ASSUME NEW t, globalLow' = globalLow \cup {t}, Goto(w, "unpark")
          PROVE  CoverInv'
      <3>1. Cardinality(globalLow)' <= Cardinality(globalLow) + 1
        BY <2>6, AddAtMostOne DEF Finite
      <3>2. Cardinality(Announcing)' = Cardinality(Announcing) + 1
        BY <2>1, <2>6, AnnouncingMove
      <3> QED
        BY <1>2, <2>3, <2>4, <3>1, <3>2, CoverFrame DEF Finite
    <2> QED
      BY <1>7, <2>5, <2>6 DEF ScheduleLocal, ScheduleLocalHigh, ScheduleLocalLow
  <1>8. ASSUME NEW th \in Thread, ThreadStep(th) PROVE CoverInv'
    <2> USE DEF parkVars, queueVars
    <2>1. CASE ScheduleGlobal(th)
      <3>1. Steady
        BY <2>1 DEF ScheduleGlobal, Steady, InForce, PastHigh, PastBoth, RecruiterPast,
                    AboutToRun, ControlInv, RecruiterLabels, Goto
      <3>2. Cardinality(Announcing)' = Cardinality(Announcing) + 1
        BY <2>1, AnnouncingMove DEF ScheduleGlobal
      <3>3. CASE arg[th] \in HighPriority
        <4>1. globalHigh' = globalHigh \cup {arg[th]} /\ UNCHANGED globalLow
          BY <2>1, <3>3 DEF ScheduleGlobal, PushGlobal
        <4>2. Cardinality(globalHigh)' <= Cardinality(globalHigh) + 1
          BY <4>1, AddAtMostOne DEF Finite
        <4> QED
          BY <1>2, <3>1, <3>2, <4>1, <4>2, CoverFrame DEF Finite
      <3>4. CASE arg[th] \notin HighPriority
        <4>1. globalLow' = globalLow \cup {arg[th]} /\ UNCHANGED globalHigh
          BY <2>1, <3>4 DEF ScheduleGlobal, PushGlobal
        <4>2. Cardinality(globalLow)' <= Cardinality(globalLow) + 1
          BY <4>1, AddAtMostOne DEF Finite
        <4> QED
          BY <1>2, <3>1, <3>2, <4>1, <4>2, CoverFrame DEF Finite
      <3> QED
        BY <3>3, <3>4
    <2>2. CASE UnparkOne(th) /\ UNCHANGED queueVars
      <3>1. CASE ShouldUnpark
        <4>1. Cardinality(Announcing)' = Cardinality(Announcing) - 1
          BY <2>2, <3>1, AnnouncingMove DEF UnparkOne
        <4>2. activeRecruiter' /\ ~activeRecruiter
          BY <2>2, <3>1 DEF UnparkOne, ShouldUnpark
        <4>3. ~RecruiterPast(PastHigh)' /\ ~RecruiterPast(PastBoth)'
          <5>1. \A r \in Worker : ~(recruiter[r] /\ pc[r] # "parkSlow")
            BY <4>2 DEF OneRecruiter, RoleHolders
          <5> QED
            BY <2>2, <3>1, <5>1 DEF UnparkOne, RecruiterPast, PastHigh, PastBoth,
                                    AboutToRun, Goto
        <4>4. \A x \in Worker : InForce(x)' =>
                 /\ x \in PastHigh' => InForce(x) /\ x \in PastHigh
                 /\ x \in PastBoth' => InForce(x) /\ x \in PastBoth
          BY <2>2, <3>1 DEF UnparkOne, InForce, PastHigh, PastBoth, Goto
        <4> QED
          BY <2>2, <4>1, <4>2, <4>3, <4>4 DEF CoverInv, Covered, Finite
      <3>2. CASE ~ShouldUnpark
        <4>1. \A x \in Worker : ~InForce(x)'
          BY <2>2, <3>2 DEF UnparkOne, CancelParkAttempts, AttemptInv, InForce,
                            ControlInv, Goto
        <4> QED
          BY <4>1 DEF CoverInv
      <3> QED
        BY <3>1, <3>2
    <2>3. CASE UnparkNotify(th) /\ UNCHANGED queueVars
      <3>1. quiet
        BY <2>3, AnnouncingMove DEF UnparkNotify
      <3>2. Steady
        BY <2>3 DEF UnparkNotify, Steady, InForce, PastHigh, PastBoth, RecruiterPast,
                    AboutToRun, ControlInv, RecruiterLabels, Goto
      <3> QED
        BY <3>1, <3>2, CoverQuiet
    <2> QED
      BY <1>8, <2>1, <2>2, <2>3 DEF ThreadStep, UnparkStep
  <1>9. ASSUME NEW th \in Thread, NEW t \in Task, Wake(th, t) PROVE CoverInv'
    <2> USE DEF parkVars, queueVars
    <2>1. quiet
      <3>1. CASE UNCHANGED pc
        BY <1>9, <3>1 DEF Wake, Announcing
      <3>2. CASE Goto(th, "schedule")
        BY <1>9, <3>2, AnnouncingMove DEF Wake
      <3> QED
        BY <1>9, <3>1, <3>2 DEF Wake
    <2>2. Steady
      BY <1>9 DEF Wake, Steady, InForce, PastHigh, PastBoth, RecruiterPast,
                  AboutToRun, ControlInv, RecruiterLabels, Goto
    <2> QED
      BY <2>1, <2>2, CoverQuiet
  <1> QED
    BY <1>3, <1>4, <1>5, <1>6, <1>7, <1>8, <1>9 DEF Next, WorkerStep, queueVars

\* Every step keeps a queued task from being forgotten: the only step that
\* could leave one behind is Park, and there the cover applies.
LEMMA WakeupNext ==
  ASSUME TypeInv, ControlInv, OneRecruiter, CoverInv, NoLostWakeup, [Next]_vars
  PROVE  NoLostWakeup'
  <1>1. Shape
    BY ShapeOfType
  <1> USE <1>1 DEF NoLostWakeup, Goto, Shape
  <1>2. CASE UNCHANGED vars
    BY <1>2 DEF vars, parkVars, queueVars
  <1>3. ASSUME NEW w \in Worker, SearchStep(w) PROVE NoLostWakeup'
    <2> USE DEF ParkIdle, Found, taskVars, queueVars
    <2>1. CASE TakeSlot(w)
      BY <2>1 DEF TakeSlot
    <2>2. CASE PopLocal(w)
      BY <2>2 DEF PopLocal
    <2>3. CASE StartSteal(w)
      BY <2>3 DEF StartSteal
    <2>4. CASE StealGlobalHigh(w)
      BY <2>4 DEF StealGlobalHigh
    <2>5. CASE StealGlobalLow(w)
      BY <2>5 DEF StealGlobalLow
    <2>6. ASSUME NEW v \in Worker, StealList(w, v) PROVE NoLostWakeup'
      BY <2>6 DEF StealList, StealBatchAndPop
    <2>7. CASE StealNone(w)
      BY <2>7 DEF StealNone
    <2> QED
      BY <1>3, <2>1, <2>2, <2>3, <2>4, <2>5, <2>6, <2>7 DEF SearchStep
  <1>4. ASSUME NEW w \in Worker, WorkerParkStep(w), UNCHANGED queueVars PROVE NoLostWakeup'
    <2> USE <1>4 DEF queueVars
    <2>1. CASE PrepareLoad(w)
      BY <2>1 DEF PrepareLoad
    <2>2. CASE PrepareSet(w)
      BY <2>2 DEF PrepareSet, MayPrepare, MarkPreparing
    <2>3. CASE ParkCancel(w)
      BY <2>3 DEF ParkCancel
    <2>4. CASE Park(w)
      <3>1. InForce(w) /\ w \in PastBoth
        BY <2>4 DEF Park, ParkCancelled, InForce, PastBoth, ControlInv
      <3>2. Finite
        BY Counts
      <3>3. CASE globalHigh \cup globalLow = {}
        BY <3>3
      <3>4. CASE globalHigh \cup globalLow # {} /\ ~recruiter[w] /\ activeRecruiter
        BY <2>4, <3>4 DEF Park, Resign
      <3>5. CASE globalHigh \cup globalLow # {} /\ (recruiter[w] \/ ~activeRecruiter)
        <4>1. Cardinality(globalHigh) + Cardinality(globalLow) <= Cardinality(Announcing)
          <5>1. recruiter[w] => RecruiterPast(PastBoth)
            BY <2>4, <3>1 DEF Park, RecruiterPast
          <5> QED
            BY <3>1, <3>2, <3>5, <5>1 DEF CoverInv, Covered
        <4>2. Cardinality(globalHigh) # 0 \/ Cardinality(globalLow) # 0
          BY <3>2, <3>5, FS_EmptySet DEF Finite
        <4>3. Cardinality(Announcing) # 0
          BY <3>2, <4>1, <4>2 DEF Finite
        <4>4. Announcing # {}
          BY <4>3, FS_EmptySet
        <4> QED
          BY <2>4, <4>4 DEF Park, Announcing
      <3> QED
        BY <3>3, <3>4, <3>5
    <2>5. CASE ParkSlow(w)
      BY <2>5 DEF ParkSlow
    <2>6. CASE RecruitNext(w)
      BY <2>6 DEF RecruitNext
    <2>7. CASE RecruitNotify(w)
      BY <2>7 DEF RecruitNotify
    <2> QED
      BY <1>4, <2>1, <2>2, <2>3, <2>4, <2>5, <2>6, <2>7 DEF WorkerParkStep
  <1>5. ASSUME NEW w \in Worker, PollStep(w) PROVE NoLostWakeup'
    <2> USE DEF parkVars, queueVars
    <2>1. CASE StartRunning(w)
      BY <2>1 DEF StartRunning
    <2>2. CASE PollPending(w)
      BY <2>2 DEF PollPending
    <2>3. CASE PollReady(w)
      BY <2>3 DEF PollReady
    <2> QED
      BY <1>5, <2>1, <2>2, <2>3 DEF PollStep
  <1>6. ASSUME NEW w \in Worker, ScheduleLocal(w) PROVE NoLostWakeup'
    <2> USE DEF parkVars
    <2>1. CASE ScheduleLocalHigh(w)
      BY <2>1 DEF ScheduleLocalHigh
    <2>2. CASE ScheduleLocalLow(w)
      BY <2>2 DEF ScheduleLocalLow
    <2> QED
      BY <1>6, <2>1, <2>2 DEF ScheduleLocal
  <1>7. ASSUME NEW th \in Thread, ThreadStep(th) PROVE NoLostWakeup'
    <2> USE DEF parkVars, queueVars
    <2>1. CASE ScheduleGlobal(th)
      BY <2>1 DEF ScheduleGlobal, PushGlobal
    <2>2. CASE UnparkOne(th) /\ UNCHANGED queueVars
      BY <2>2 DEF UnparkOne, ShouldUnpark
    <2>3. CASE UnparkNotify(th) /\ UNCHANGED queueVars
      BY <2>3 DEF UnparkNotify
    <2> QED
      BY <1>7, <2>1, <2>2, <2>3 DEF ThreadStep, UnparkStep
  <1>8. ASSUME NEW th \in Thread, NEW t \in Task, Wake(th, t) PROVE NoLostWakeup'
    BY <1>8 DEF Wake, parkVars, queueVars
  <1> QED
    BY <1>2, <1>3, <1>4, <1>5, <1>6, <1>7, <1>8 DEF Next, WorkerStep, queueVars

-----------------------------------------------------------------------------
(* The theorems *)

\* The inductive invariant.
IInv ==
    /\ TypeInv
    /\ ServeInv
    /\ OneRecruiter
    /\ IdleAccounting
    /\ AttemptInv
    /\ CoverInv
    /\ NoLostWakeup

\* The invariant holds at the start.
LEMMA IInvInit == Init => IInv
  <1> SUFFICES ASSUME Init PROVE IInv
    OBVIOUS
  <1>1. TypeInv
    BY TypeInit
  <1> USE ThreadAssumption DEF Init, ParkInit, Thread
  <1>2. ServeInv
    BY DEF ServeInv, ControlInv, LocalTasksServed, RecruiterLabels
  <1>3. OneRecruiter
    <2>1. RoleHolders = {}
      BY DEF RoleHolders
    <2> QED
      BY <2>1 DEF OneRecruiter
  <1>4. IdleAccounting
    <2>1. Notifying = {} /\ Asleep = {}
      BY DEF Notifying, Asleep
    <2> QED
      BY <2>1, FS_EmptySet DEF IdleAccounting
  <1>5. AttemptInv /\ CoverInv /\ NoLostWakeup
    BY DEF AttemptInv, CoverInv, InForce, NoLostWakeup
  <1> QED
    BY <1>1, <1>2, <1>3, <1>4, <1>5 DEF IInv

\* The invariant is inductive.
LEMMA IInvNext == IInv /\ [Next]_vars => IInv'
  <1> SUFFICES ASSUME IInv, [Next]_vars PROVE IInv'
    OBVIOUS
  <1>1. /\ TypeInv /\ ServeInv /\ OneRecruiter /\ IdleAccounting /\ AttemptInv
        /\ CoverInv /\ NoLostWakeup /\ ControlInv
    BY DEF IInv, ServeInv
  <1>2. TypeInv' /\ ServeInv'
    BY <1>1, TypeNext, ServeNext
  <1>3. OneRecruiter' /\ IdleAccounting'
    BY <1>1, RecruiterNext, IdleNext
  <1>4. AttemptInv' /\ CoverInv' /\ NoLostWakeup'
    BY <1>1, AttemptNext, CoverNext, WakeupNext
  <1> QED
    BY <1>2, <1>3, <1>4 DEF IInv

\* The invariant holds in every reachable state.
LEMMA IInvAlways == Spec => []IInv
  BY IInvInit, IInvNext, PTL DEF Spec

\* There is never more than one recruiter, and the bit in the state says
\* whether there is one, for any number of workers and callers.
THEOREM RecruiterUnique == Spec => []OneRecruiter
  <1>1. IInv => OneRecruiter
    BY DEF IInv
  <1> QED
    BY IInvAlways, <1>1, PTL

\* The idle count never loses a sleeping worker and never underflows.
THEOREM IdleCountExact == Spec => []IdleAccounting
  <1>1. IInv => IdleAccounting
    BY DEF IInv
  <1> QED
    BY IInvAlways, <1>1, PTL

\* No worker goes to sleep on a task only it can run.
THEOREM LocalTasksAreServed == Spec => []LocalTasksServed
  <1>1. IInv => LocalTasksServed
    BY DEF IInv, ServeInv
  <1> QED
    BY IInvAlways, <1>1, PTL

\* A task in a global queue while workers sleep always has a recruiter under
\* way or an unpark_one still to come, whatever the interleaving of pushes,
\* searches, prepare_park, park, recruit_next and unpark_one.
THEOREM NoWakeupIsLost == Spec => []NoLostWakeup
  <1>1. IInv => NoLostWakeup
    BY DEF IInv
  <1> QED
    BY IInvAlways, <1>1, PTL
=============================================================================
