------------------------------ MODULE Connector ------------------------------
(***************************************************************************)
(* crates/polars-stream/src/async_primitives/connector.rs: the channel     *)
(* behind every serial pipe.                                               *)
(*                                                                         *)
(* One sender task and one receiver task.  Each method is split at every   *)
(* access to shared memory: state (the set of its bits), the value cell    *)
(* and the two wakers.  sstate and rstate are the `state` locals.          *)
(*                                                                         *)
(* A task polls again when it was woken, and may poll for no reason (it    *)
(* can wait for other things too).  A pending future may be dropped, and   *)
(* either end may be dropped between operations.                           *)
(***************************************************************************)
EXTENDS Naturals, Sequences

CONSTANT MaxSends       \* the sender sends the values 1..MaxSends

ASSUME MaxSendsAssumption == MaxSends \in Nat \ {0}

Value == 1..MaxSends
NoValue == 0

VARIABLES
    state,          \* the bits of Connector::state
    cell,           \* Connector::value; reading it leaves the bits in place
    sendWaker,      \* a waker of the sender's task is registered
    recvWaker,
    swoken,         \* the sender's task has been woken since its last poll
    rwoken,
    spc, rpc,
    sstate, rstate, \* the local copies of the state
    svalue,         \* the value in the SendFuture
    smode, rmode,   \* poll_* ("poll") or try_* ("try")
    rvalue,         \* the value read by try_recv_impl
    sent,           \* values the sender has put in the channel
    received,       \* values the receiver has taken out of it
    refused,        \* a send returned Err
    ended,          \* a recv returned Err
    freed           \* values dropped with the Connector

senderVars == <<spc, sstate, svalue, smode, swoken>>
receiverVars == <<rpc, rstate, rmode, rvalue, rwoken>>
history == <<sent, received, refused, ended, freed>>
vars == <<state, cell, sendWaker, recvWaker, senderVars, receiverVars, history>>

Bits == {"FULL", "CLOSED", "WAITING"}

Init ==
    /\ state = {}
    /\ cell = NoValue
    /\ sendWaker = FALSE
    /\ recvWaker = FALSE
    /\ swoken = FALSE
    /\ rwoken = FALSE
    /\ spc = "idle"
    /\ rpc = "idle"
    /\ sstate = {}
    /\ rstate = {}
    /\ svalue = NoValue
    /\ smode = "poll"
    /\ rmode = "poll"
    /\ rvalue = NoValue
    /\ sent = <<>>
    /\ received = <<>>
    /\ refused = FALSE
    /\ ended = FALSE
    /\ freed = {}

\* AtomicWaker::wake takes the registered waker, if any, and wakes its task.
WakeSender ==
    /\ sendWaker' = FALSE
    /\ swoken' = (swoken \/ sendWaker)

WakeReceiver ==
    /\ recvWaker' = FALSE
    /\ rwoken' = (rwoken \/ recvWaker)

-----------------------------------------------------------------------------
(* The sender *)

\* Sender::send and the first poll of its future, or Sender::try_send.
StartSend(mode) ==
    /\ spc = "idle"
    /\ svalue < MaxSends
    /\ svalue' = svalue + 1
    /\ smode' = mode
    /\ spc' = "load"
    /\ UNCHANGED <<state, cell, sendWaker, recvWaker, sstate, swoken, receiverVars,
                   history>>

\* Mutant: try_send_impl does not look at FULL_BIT.
SendDecideUnchecked(s) ==
    /\ spc' = IF "CLOSED" \in s THEN "idle" ELSE "write"
    /\ refused' = (refused \/ "CLOSED" \in s)

\* Lines 91-98 and 105-110: what try_send_impl does with the state s it is
\* given, before it touches the value.
SendDecide(s) ==
    /\ spc' = CASE "CLOSED" \in s -> "idle"
                [] "CLOSED" \notin s /\ "FULL" \in s ->
                     IF smode = "poll" THEN "pending" ELSE "idle"
                [] OTHER -> "write"
    /\ refused' = (refused \/ "CLOSED" \in s)

\* Lines 79-80, 172.
SendLoad ==
    /\ spc = "load"
    /\ sstate' = state
    /\ IF smode = "poll" /\ "FULL" \in state
       THEN spc' = "register" /\ UNCHANGED refused
       ELSE SendDecide(state)
    /\ UNCHANGED <<state, cell, sendWaker, recvWaker, svalue, smode, swoken,
                   receiverVars, sent, received, ended, freed>>

\* Line 81.
SendRegister ==
    /\ spc = "register"
    /\ sendWaker' = TRUE
    /\ spc' = "exchange"
    /\ UNCHANGED <<state, cell, recvWaker, sstate, svalue, smode, swoken,
                   receiverVars, history>>

\* Lines 82-88: the state goes on with what the exchange saw.
SendExchange ==
    /\ spc = "exchange"
    /\ sstate' = state
    /\ state' = IF state = sstate THEN state \cup {"WAITING"} ELSE state
    /\ SendDecide(state)
    /\ UNCHANGED <<cell, sendWaker, recvWaker, svalue, smode, swoken, receiverVars,
                   sent, received, ended, freed>>

\* Line 113.
SendWrite ==
    /\ spc = "write"
    /\ cell' = svalue
    /\ spc' = "swap"
    /\ UNCHANGED <<state, sendWaker, recvWaker, sstate, svalue, smode, swoken,
                   receiverVars, history>>

\* Line 114.
SendSwap ==
    /\ spc = "swap"
    /\ sstate' = state
    /\ state' = {"FULL"}
    /\ sent' = IF "CLOSED" \in state THEN sent ELSE Append(sent, svalue)
    /\ spc' = "wake"
    /\ UNCHANGED <<cell, sendWaker, recvWaker, svalue, smode, swoken, receiverVars,
                   received, refused, ended, freed>>

\* Lines 115-118, 124.
SendWake ==
    /\ spc = "wake"
    /\ IF "WAITING" \in sstate THEN WakeReceiver ELSE UNCHANGED <<recvWaker, rwoken>>
    /\ spc' = IF "CLOSED" \in sstate THEN "takeBack" ELSE "idle"
    /\ UNCHANGED <<state, cell, sendWaker, sstate, svalue, smode, swoken, rpc,
                   rstate, rmode, rvalue, history>>

\* Mutant: the value is handed back but FULL_BIT stays set.
SendTakeBackFull ==
    /\ spc = "takeBack"
    /\ refused' = TRUE
    /\ spc' = "idle"
    /\ UNCHANGED <<state, cell, sendWaker, recvWaker, sstate, svalue, smode, swoken,
                   receiverVars, sent, received, ended, freed>>

\* Lines 119-120: the receiver went away while the value was written.
SendTakeBack ==
    /\ spc = "takeBack"
    /\ state' = {"CLOSED"}
    /\ refused' = TRUE
    /\ spc' = "idle"
    /\ UNCHANGED <<cell, sendWaker, recvWaker, sstate, svalue, smode, swoken,
                   receiverVars, sent, received, ended, freed>>

\* The executor polls the pending task again.
PollSendAgain ==
    /\ spc = "pending"
    /\ spc' = "load"
    /\ swoken' = FALSE
    /\ UNCHANGED <<state, cell, sendWaker, recvWaker, sstate, svalue, smode,
                   receiverVars, history>>

\* The SendFuture is dropped, and its value with it.
CancelSend ==
    /\ spc = "pending"
    /\ spc' = "idle"
    /\ UNCHANGED <<state, cell, sendWaker, recvWaker, sstate, svalue, smode, swoken,
                   receiverVars, history>>

-----------------------------------------------------------------------------
(* The receiver *)

\* Receiver::recv and the first poll of its future, or Receiver::try_recv.
StartRecv(mode) ==
    /\ rpc = "idle"
    /\ rmode' = mode
    /\ rpc' = "load"
    /\ UNCHANGED <<state, cell, sendWaker, recvWaker, rstate, rvalue, rwoken,
                   senderVars, history>>

\* Mutant: the closed bit is checked before the full bit.
RecvDecideClosedFirst(s) ==
    /\ rpc' = CASE "CLOSED" \in s -> "idle"
                [] "CLOSED" \notin s /\ "FULL" \in s -> "read"
                [] OTHER -> IF rmode = "poll" THEN "pending" ELSE "idle"
    /\ ended' = (ended \/ "CLOSED" \in s)

\* Mutant: the value is read whenever the channel is open.
RecvDecideUnchecked(s) ==
    /\ rpc' = IF "CLOSED" \in s THEN "idle" ELSE "read"
    /\ ended' = (ended \/ "CLOSED" \in s)

\* Lines 140-144 and 148, 164-168: what try_recv_impl does with the state s.
RecvDecide(s) ==
    /\ rpc' = CASE "FULL" \in s -> "read"
                [] "FULL" \notin s /\ "CLOSED" \in s -> "idle"
                [] OTHER -> IF rmode = "poll" THEN "pending" ELSE "idle"
    /\ ended' = (ended \/ ("FULL" \notin s /\ "CLOSED" \in s))

\* Lines 128-129, 176.
RecvLoad ==
    /\ rpc = "load"
    /\ rstate' = state
    /\ IF rmode = "poll" /\ "FULL" \notin state
       THEN rpc' = "register" /\ UNCHANGED ended
       ELSE RecvDecide(state)
    /\ UNCHANGED <<state, cell, sendWaker, recvWaker, rmode, rvalue, rwoken,
                   senderVars, sent, received, refused, freed>>

\* Line 130.
RecvRegister ==
    /\ rpc = "register"
    /\ recvWaker' = TRUE
    /\ rpc' = "exchange"
    /\ UNCHANGED <<state, cell, sendWaker, rstate, rmode, rvalue, rwoken,
                   senderVars, history>>

\* Mutant: the result of the exchange is not looked at.
RecvExchangeStale ==
    /\ rpc = "exchange"
    /\ state' = IF state = rstate THEN state \cup {"WAITING"} ELSE state
    /\ RecvDecide(rstate)
    /\ UNCHANGED <<cell, sendWaker, recvWaker, rstate, rmode, rvalue, rwoken,
                   senderVars, sent, received, refused, freed>>

\* Lines 131-137.
RecvExchange ==
    /\ rpc = "exchange"
    /\ rstate' = state
    /\ state' = IF state = rstate THEN state \cup {"WAITING"} ELSE state
    /\ RecvDecide(state)
    /\ UNCHANGED <<cell, sendWaker, recvWaker, rmode, rvalue, rwoken, senderVars,
                   sent, received, refused, freed>>

\* Line 150.
RecvRead ==
    /\ rpc = "read"
    /\ rvalue' = cell
    /\ rpc' = "swap"
    /\ UNCHANGED <<state, cell, sendWaker, recvWaker, rstate, rmode, rwoken,
                   senderVars, history>>

\* Line 151.
RecvSwap ==
    /\ rpc = "swap"
    /\ rstate' = state
    /\ state' = {}
    /\ received' = Append(received, rvalue)
    /\ rpc' = "wake"
    /\ UNCHANGED <<cell, sendWaker, recvWaker, rmode, rvalue, rwoken, senderVars,
                   sent, refused, ended, freed>>

\* Lines 152-158.
RecvWake ==
    /\ rpc = "wake"
    /\ IF "WAITING" \in rstate THEN WakeSender ELSE UNCHANGED <<sendWaker, swoken>>
    /\ rpc' = IF "CLOSED" \in rstate THEN "storeClosed" ELSE "idle"
    /\ UNCHANGED <<state, cell, recvWaker, rstate, rmode, rvalue, rwoken, spc,
                   sstate, svalue, smode, history>>

\* Line 156.
RecvStoreClosed ==
    /\ rpc = "storeClosed"
    /\ state' = {"CLOSED"}
    /\ rpc' = "idle"
    /\ UNCHANGED <<cell, sendWaker, recvWaker, rstate, rmode, rvalue, rwoken,
                   senderVars, history>>

PollRecvAgain ==
    /\ rpc = "pending"
    /\ rpc' = "load"
    /\ rwoken' = FALSE
    /\ UNCHANGED <<state, cell, sendWaker, recvWaker, rstate, rmode, rvalue,
                   senderVars, history>>

\* The RecvFuture is dropped.
CancelRecv ==
    /\ rpc = "pending"
    /\ rpc' = "idle"
    /\ UNCHANGED <<state, cell, sendWaker, recvWaker, rstate, rmode, rvalue, rwoken,
                   senderVars, history>>

-----------------------------------------------------------------------------
(* Closing: lines 182-186, in Drop for Sender and for Receiver *)

CloseSet(pc, pcNext) ==
    /\ pc = "idle"
    /\ state' = state \cup {"CLOSED"}
    /\ pcNext = "closeWakeSend"
    /\ UNCHANGED <<cell, sendWaker, recvWaker, sstate, svalue, smode, swoken, rstate,
                   rmode, rvalue, rwoken, history>>

CloseWakeSend(pc, pcNext) ==
    /\ pc = "closeWakeSend"
    /\ WakeSender
    /\ pcNext = "closeWakeRecv"
    /\ UNCHANGED <<state, cell, recvWaker, sstate, svalue, smode, rstate, rmode,
                   rvalue, rwoken, history>>

CloseWakeRecv(pc, pcNext) ==
    /\ pc = "closeWakeRecv"
    /\ WakeReceiver
    /\ pcNext = "gone"
    /\ UNCHANGED <<state, cell, sendWaker, sstate, svalue, smode, swoken, rstate,
                   rmode, rvalue, history>>

DropSender == CloseSet(spc, spc') /\ UNCHANGED rpc
DropReceiver == CloseSet(rpc, rpc') /\ UNCHANGED spc

SenderClosing ==
    /\ CloseWakeSend(spc, spc') \/ CloseWakeRecv(spc, spc')
    /\ UNCHANGED rpc

ReceiverClosing ==
    /\ CloseWakeSend(rpc, rpc') \/ CloseWakeRecv(rpc, rpc')
    /\ UNCHANGED spc

\* Lines 54-62: Drop for Connector, when the second Arc goes.
FreeConnector ==
    /\ spc = "gone"
    /\ rpc = "gone"
    /\ freed' = IF "FULL" \in state THEN {cell} ELSE {}
    /\ spc' = "freed"
    /\ UNCHANGED <<state, cell, sendWaker, recvWaker, sstate, svalue, smode, swoken,
                   receiverVars, sent, received, refused, ended>>

Freed == spc = "freed" /\ UNCHANGED vars

-----------------------------------------------------------------------------

\* The steps of an operation under way.
SenderStep ==
    \/ SendLoad
    \/ SendRegister
    \/ SendExchange
    \/ SendWrite
    \/ SendSwap
    \/ SendWake
    \/ SendTakeBack
    \/ SenderClosing

ReceiverStep ==
    \/ RecvLoad
    \/ RecvRegister
    \/ RecvExchange
    \/ RecvRead
    \/ RecvSwap
    \/ RecvWake
    \/ RecvStoreClosed
    \/ ReceiverClosing

Next ==
    \/ \E mode \in {"poll", "try"} : StartSend(mode) \/ StartRecv(mode)
    \/ SenderStep
    \/ ReceiverStep
    \/ PollSendAgain
    \/ PollRecvAgain
    \/ CancelSend
    \/ CancelRecv
    \/ DropSender
    \/ DropReceiver
    \/ FreeConnector
    \/ Freed

Spec == Init /\ [][Next]_vars

\* An operation that was started goes on, and a task that was woken is polled
\* (module Executor).  Nobody has to start an operation or to drop anything.
Fairness ==
    /\ WF_vars(SenderStep)
    /\ WF_vars(ReceiverStep)
    /\ WF_vars(swoken /\ PollSendAgain)
    /\ WF_vars(rwoken /\ PollRecvAgain)

FairSpec == Spec /\ Fairness

-----------------------------------------------------------------------------

SenderLabels ==
    {"idle", "load", "register", "exchange", "write", "swap", "wake", "takeBack",
     "pending", "closeWakeSend", "closeWakeRecv", "gone", "freed"}

ReceiverLabels ==
    {"idle", "load", "register", "exchange", "read", "swap", "wake", "storeClosed",
     "pending", "closeWakeSend", "closeWakeRecv", "gone"}

\* The type of every variable.
TypeOK ==
    /\ state \subseteq Bits
    /\ cell \in Value \cup {NoValue}
    /\ {sendWaker, recvWaker, swoken, rwoken, refused, ended} \subseteq BOOLEAN
    /\ spc \in SenderLabels
    /\ rpc \in ReceiverLabels
    /\ sstate \subseteq Bits
    /\ rstate \subseteq Bits
    /\ svalue \in Value \cup {NoValue}
    /\ smode \in {"poll", "try"}
    /\ rmode \in {"poll", "try"}
    /\ rvalue \in Value \cup {NoValue}
    /\ sent \in Seq(Value)
    /\ received \in Seq(Value)
    /\ freed \subseteq Value

SenderGone == spc \in {"closeWakeSend", "closeWakeRecv", "gone", "freed"}
ReceiverGone == rpc \in {"closeWakeSend", "closeWakeRecv", "gone"}

\* Lines 22-29: only one end may touch the value at a time.  The sender
\* writes it or takes it back, the receiver reads it.
CellExclusive == ~(spc \in {"write", "takeBack"} /\ rpc = "read")

\* When both ends are gone every value that was sent has been received or
\* dropped with the connector, and none both; what was handed back to the
\* sender is not dropped a second time.
FreedOnce ==
    spc = "freed" =>
        /\ Len(sent) = Len(received) + (IF freed = {} THEN 0 ELSE 1)
        /\ freed # {} => freed = {sent[Len(sent)]}

\* The connector implements the channel, a value being sent and received when
\* the FULL bit is set and cleared.
Promise ==
    INSTANCE Channel WITH accepted <- sent, delivered <- received,
                          senderGone <- SenderGone, receiverGone <- ReceiverGone

ImplementsChannel == Promise!Spec

\* No wakeup is lost: a task waiting for room, for a value or for the other
\* end does not wait any longer once there is one, or once the other end is
\* gone.
WaitersProceed ==
    /\ spc = "pending" /\ ("FULL" \notin state \/ ReceiverGone) ~> spc # "pending"
    /\ rpc = "pending" /\ ("FULL" \in state \/ SenderGone) ~> rpc # "pending"
=============================================================================
