------------------------------ MODULE ParkGroup ------------------------------
(***************************************************************************)
(* crates/polars-stream/src/async_executor/park_group.rs: the group of     *)
(* executor threads that put each other to sleep and wake each other.      *)
(*                                                                         *)
(* `state`, one AtomicU64 in the code, is the four variables numIdle,      *)
(* activeRecruiter, preparing and version, always read and written         *)
(* together in one step (every update in the code is one compare-exchange  *)
(* or fetch_update).  `notifications` is the mutex-protected pair behind   *)
(* the condition variable.  A method that touches shared memory more than  *)
(* once is split into one action per access, sequenced by pc.              *)
(*                                                                         *)
(* version has 30 bits in the code and wraps; here it is a natural number. *)
(* A wrap would need 2^30 cancelled park attempts during one park attempt. *)
(***************************************************************************)
EXTENDS Naturals, FiniteSets

CONSTANTS
    Worker,     \* the executor threads, one ParkGroupWorker each
    Outside     \* other threads that schedule tasks and so call unpark_one

ASSUME ThreadAssumption ==
    /\ IsFiniteSet(Worker)
    /\ IsFiniteSet(Outside)
    /\ Worker \cap Outside = {}

Thread == Worker \cup Outside

VARIABLES
    numIdle,            \* bits 0..32 of state: idle, not yet notified workers
    activeRecruiter,    \* bit 32 of state
    preparing,          \* bit 33 of state
    version,            \* bits 34..64 of state
    notified,           \* notifications.0
    notifyRecruiter,    \* notifications.1
    recruiter,          \* ParkGroupWorker::recruiter
    wversion,           \* ParkGroupWorker::version
    parking,            \* TRUE while the worker holds a ParkAttempt
    pc,                 \* where each thread is
    ret                 \* where a thread continues after schedule_task

parkVars == <<numIdle, activeRecruiter, preparing, version, notified,
              notifyRecruiter, recruiter, wversion, parking>>

Goto(th, label) == pc' = [pc EXCEPT ![th] = label]

ParkInit ==
    /\ numIdle = 0
    /\ activeRecruiter = FALSE
    /\ preparing = FALSE
    /\ version = 0
    /\ notified = 0
    /\ notifyRecruiter = FALSE
    /\ recruiter = [w \in Worker |-> FALSE]
    /\ wversion = [w \in Worker |-> 0]
    /\ parking = [w \in Worker |-> FALSE]

-----------------------------------------------------------------------------
(* ParkGroupWorker::prepare_park *)

\* Lines 88-93: the load.  When the preparing bit is already set the loop is
\* not entered; the worker holds its ParkAttempt and searches once more.
PrepareLoad(w) ==
    /\ pc[w] = "prepareLoad"
    /\ wversion' = [wversion EXCEPT ![w] = version]
    /\ IF preparing
       THEN /\ Goto(w, "stealHigh")
            /\ parking' = [parking EXCEPT ![w] = TRUE]
       ELSE Goto(w, "prepareSet") /\ UNCHANGED parking
    /\ UNCHANGED <<numIdle, activeRecruiter, preparing, version, notified,
                   notifyRecruiter, recruiter, ret>>

\* The loop's condition, line 93, on the state the compare-exchange meets.
MayPrepare(w) == ~preparing /\ version = wversion[w]

\* Mutant: prepare_park only claims the recruiter's role.
MarkPreparingForgotten == UNCHANGED preparing

\* What a successful prepare_park sets in the state, line 96.
MarkPreparing == preparing' = TRUE

\* Lines 93-112: the compare-exchange loop.  A failed exchange re-evaluates
\* the condition on the value it met, so the loop is one atomic step.
PrepareSet(w) ==
    /\ pc[w] = "prepareSet"
    /\ IF MayPrepare(w)
       THEN /\ MarkPreparing
            /\ activeRecruiter' = TRUE
            /\ recruiter' = [recruiter EXCEPT ![w] = @ \/ ~activeRecruiter]
       ELSE UNCHANGED <<preparing, activeRecruiter, recruiter>>
    /\ parking' = [parking EXCEPT ![w] = TRUE]
    /\ Goto(w, "stealHigh")
    /\ UNCHANGED <<numIdle, version, notified, notifyRecruiter, wversion, ret>>

-----------------------------------------------------------------------------
(* ParkAttempt::park and park_slow *)

\* Line 160: there was an unpark since prepare_park.
ParkCancelled(w) == version # wversion[w]

ParkCancel(w) ==
    /\ pc[w] = "park"
    /\ ParkCancelled(w)
    /\ Goto(w, "next")
    /\ parking' = [parking EXCEPT ![w] = FALSE]
    /\ UNCHANGED <<numIdle, activeRecruiter, preparing, version, notified,
                   notifyRecruiter, recruiter, wversion, ret>>

\* Mutant: a recruiter parks and leaves the bit behind.
ResignForgotten(w) == UNCHANGED activeRecruiter

\* Lines 163-167: one more idle worker, and a recruiter resigns.
Resign(w) == activeRecruiter' = (activeRecruiter /\ ~recruiter[w])

Park(w) ==
    /\ pc[w] = "park"
    /\ ~ParkCancelled(w)
    /\ numIdle' = numIdle + 1
    /\ Resign(w)
    /\ Goto(w, "parkSlow")
    /\ UNCHANGED <<preparing, version, notified, notifyRecruiter, recruiter,
                   wversion, parking, ret>>

\* Lines 176-185: blocked on the condition variable until there is a
\* notification; consuming it may make the worker the recruiter.
ParkSlow(w) ==
    /\ pc[w] = "parkSlow"
    /\ notified > 0
    /\ notified' = notified - 1
    /\ recruiter' = [recruiter EXCEPT ![w] = notifyRecruiter]
    /\ notifyRecruiter' = FALSE
    /\ parking' = [parking EXCEPT ![w] = FALSE]
    /\ Goto(w, "next")
    /\ UNCHANGED <<numIdle, activeRecruiter, preparing, version, wversion, ret>>

-----------------------------------------------------------------------------
(* ParkGroupWorker::recruit_next *)

\* Lines 119-139.  The holder of a found task hands the role to an idle
\* worker, or gives it up when there is none.
RecruitNext(w) ==
    /\ pc[w] = "recruit"
    /\ \/ /\ ~recruiter[w]
          /\ Goto(w, "run")
          /\ UNCHANGED <<numIdle, activeRecruiter, recruiter>>
       \/ /\ recruiter[w]
          /\ numIdle > 0
          /\ numIdle' = numIdle - 1
          /\ Goto(w, "recruitNotify")
          /\ UNCHANGED <<activeRecruiter, recruiter>>
       \/ /\ recruiter[w]
          /\ numIdle = 0
          /\ activeRecruiter' = FALSE
          /\ recruiter' = [recruiter EXCEPT ![w] = FALSE]
          /\ Goto(w, "run")
          /\ UNCHANGED numIdle
    /\ UNCHANGED <<preparing, version, notified, notifyRecruiter, wversion,
                   parking, ret>>

\* Mutant: the notification is not counted.
NotifyUncounted ==
    /\ UNCHANGED notified
    /\ notifyRecruiter' = TRUE

\* Lines 210-215: unpark_one_slow_as_recruiter.
NotifyAsRecruiter ==
    /\ notified' = notified + 1
    /\ notifyRecruiter' = TRUE

\* Lines 141-144.
RecruitNotify(w) ==
    /\ pc[w] = "recruitNotify"
    /\ NotifyAsRecruiter
    /\ recruiter' = [recruiter EXCEPT ![w] = FALSE]
    /\ Goto(w, "run")
    /\ UNCHANGED <<numIdle, activeRecruiter, preparing, version, wversion,
                   parking, ret>>

-----------------------------------------------------------------------------
(* ParkGroupInner::unpark_one *)

\* Mutant: no check that somebody is idle.
ShouldUnparkAnyway == ~activeRecruiter

\* Line 194.
ShouldUnpark == numIdle > 0 /\ ~activeRecruiter

\* Mutant: whoever is about to park is not told.
CancelNothing == UNCHANGED <<version, preparing>>

\* Lines 197-201: tell whoever is about to park that there is new work.
CancelParkAttempts ==
    IF preparing
    THEN version' = version + 1 /\ preparing' = FALSE
    ELSE UNCHANGED <<version, preparing>>

\* Lines 190-202.
UnparkOne(th) ==
    /\ pc[th] = "unpark"
    /\ IF ShouldUnpark
       THEN /\ numIdle' = numIdle - 1
            /\ activeRecruiter' = TRUE
            /\ Goto(th, "unparkNotify")
            /\ UNCHANGED <<version, preparing>>
       ELSE /\ CancelParkAttempts
            /\ Goto(th, ret[th])
            /\ UNCHANGED <<numIdle, activeRecruiter>>
    /\ UNCHANGED <<notified, notifyRecruiter, recruiter, wversion, parking, ret>>

\* Lines 204-206.
UnparkNotify(th) ==
    /\ pc[th] = "unparkNotify"
    /\ NotifyAsRecruiter
    /\ Goto(th, ret[th])
    /\ UNCHANGED <<numIdle, activeRecruiter, preparing, version, recruiter,
                   wversion, parking, ret>>

WorkerParkStep(w) ==
    \/ PrepareLoad(w)
    \/ PrepareSet(w)
    \/ ParkCancel(w)
    \/ Park(w)
    \/ ParkSlow(w)
    \/ RecruitNext(w)
    \/ RecruitNotify(w)

UnparkStep(th) == UnparkOne(th) \/ UnparkNotify(th)
=============================================================================
