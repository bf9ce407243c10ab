----------------------------- MODULE TaskParker -----------------------------
(***************************************************************************)
(* crates/polars-stream/src/async_primitives/task_parker.rs: a task parks  *)
(* itself until another one unparks it.                                    *)
(*                                                                         *)
(* Every actor is a task with a parker of its own.  A method is split at   *)
(* every access to the parker, sequenced by pc; an actor that calls unpark *)
(* goes on at ret, and one whose park future is ready goes on at "loop".   *)
(***************************************************************************)
EXTENDS Naturals

CONSTANT Actor

VARIABLES
    pstate,     \* TaskParker::state of each actor's parker
    pwaker,     \* TaskParker::waker is Some
    woken,      \* the actor's task has been woken since its last poll
    pc,         \* where each actor is
    target,     \* the parker an actor is unparking
    ret         \* where an actor goes on after unpark

parkerVars == <<pstate, pwaker, woken>>
callVars == <<target, ret>>

ParkerInit ==
    /\ pstate = [a \in Actor |-> "RUNNING"]
    /\ pwaker = [a \in Actor |-> FALSE]
    /\ woken = [a \in Actor |-> FALSE]

Goto(a, label) == pc' = [pc EXCEPT ![a] = label]

\* park(): line 24.
Park(a) == pstate' = [pstate EXCEPT ![a] = "PREPARING_TO_PARK"]

-----------------------------------------------------------------------------
(* unpark *)

CallUnpark(a, p, label) ==
    /\ target' = [target EXCEPT ![a] = p]
    /\ ret' = [ret EXCEPT ![a] = label]
    /\ Goto(a, "unparkLoad")

\* The locals of the call end with it.
Return(a) ==
    /\ target' = [target EXCEPT ![a] = a]
    /\ ret' = [ret EXCEPT ![a] = "idle"]
    /\ Goto(a, ret[a])

\* Mutant: only a parked task is unparked.
NeedsUnparkParked(p) == pstate[p] = "PARKED"

\* Line 31.
NeedsUnpark(p) == pstate[p] # "RUNNING"

\* Lines 30-31.
UnparkLoad(a) ==
    /\ pc[a] = "unparkLoad"
    /\ IF NeedsUnpark(target[a])
       THEN Goto(a, "unparkSwap") /\ UNCHANGED callVars
       ELSE Return(a)
    /\ UNCHANGED parkerVars

\* Lines 32-33.
UnparkSwap(a) ==
    /\ pc[a] = "unparkSwap"
    /\ pstate' = [pstate EXCEPT ![target[a]] = "RUNNING"]
    /\ IF pstate[target[a]] = "PARKED"
       THEN Goto(a, "unparkWake") /\ UNCHANGED callVars
       ELSE Return(a)
    /\ UNCHANGED <<pwaker, woken>>

\* Lines 34-36.
UnparkWake(a) ==
    /\ pc[a] = "unparkWake"
    /\ pwaker' = [pwaker EXCEPT ![target[a]] = FALSE]
    /\ woken' = [woken EXCEPT ![target[a]] = @ \/ pwaker[target[a]]]
    /\ Return(a)
    /\ UNCHANGED pstate

-----------------------------------------------------------------------------
(* TaskParkFuture::poll *)

\* Lines 50-53, 55, 62.
PollLoad(a) ==
    /\ pc[a] = "pollLoad"
    /\ \/ pstate[a] = "RUNNING" /\ Goto(a, "loop")
       \/ pstate[a] = "PARKED" /\ Goto(a, "pollRefresh")
       \/ pstate[a] = "PREPARING_TO_PARK" /\ Goto(a, "pollInstall")
    /\ UNCHANGED <<parkerVars, callVars>>

\* Lines 55-61.  While the waker is there it is replaced by one that wakes
\* the same task and the loop goes round with the same state: no change.
PollRefresh(a) ==
    /\ pc[a] = "pollRefresh"
    /\ ~pwaker[a]
    /\ Goto(a, "loop")
    /\ UNCHANGED <<parkerVars, callVars>>

\* Line 65.
PollInstall(a) ==
    /\ pc[a] = "pollInstall"
    /\ pwaker' = [pwaker EXCEPT ![a] = TRUE]
    /\ Goto(a, "pollExchange")
    /\ UNCHANGED <<pstate, woken, callVars>>

\* Lines 66-74: RUNNING is the only other state it can find.
PollExchange(a) ==
    /\ pc[a] = "pollExchange"
    /\ \/ /\ pstate[a] = "PREPARING_TO_PARK"
          /\ pstate' = [pstate EXCEPT ![a] = "PARKED"]
          /\ Goto(a, "parked")
       \/ /\ pstate[a] = "RUNNING"
          /\ Goto(a, "loop")
          /\ UNCHANGED pstate
    /\ UNCHANGED <<pwaker, woken, callVars>>

\* Lines 66, 73: the exchange is a weak one and may fail on the same state.
PollExchangeFails(a) ==
    /\ pc[a] = "pollExchange"
    /\ pstate[a] = "PREPARING_TO_PARK"
    /\ Goto(a, "pollInstall")
    /\ UNCHANGED <<parkerVars, callVars>>

ParkerStep(a) ==
    \/ UnparkLoad(a)
    \/ UnparkSwap(a)
    \/ UnparkWake(a)
    \/ PollLoad(a)
    \/ PollRefresh(a)
    \/ PollInstall(a)
    \/ PollExchange(a)

\* The task of a parked actor is polled again.
PollAgain(a) ==
    /\ pc[a] = "parked"
    /\ woken' = [woken EXCEPT ![a] = FALSE]
    /\ Goto(a, "pollLoad")
    /\ UNCHANGED <<pstate, pwaker, callVars>>

-----------------------------------------------------------------------------

ParkerLabels ==
    {"idle", "loop", "parked", "unparkLoad", "unparkSwap", "unparkWake",
     "pollLoad", "pollRefresh", "pollInstall", "pollExchange"}

ParkerTypeOK ==
    /\ pstate \in [Actor -> {"RUNNING", "PREPARING_TO_PARK", "PARKED"}]
    /\ pwaker \in [Actor -> BOOLEAN]
    /\ woken \in [Actor -> BOOLEAN]
    /\ target \in [Actor -> Actor]
=============================================================================
