---------------------------- MODULE Distributor ----------------------------
(***************************************************************************)
(* crates/polars-stream/src/async_primitives/distributor_channel.rs: the   *)
(* channel that spreads the morsels of a serial pipe over the pipelines.   *)
(*                                                                         *)
(* Actor 0 is the sender, actors 1..NumReceivers are the receivers; each   *)
(* parks on its own TaskParker.  The heads count modulo HeadMod (2^64 in   *)
(* the code).  A head is written by one side only, so a step that reads    *)
(* one's own head and loads the other's is one step.                       *)
(***************************************************************************)
EXTENDS TaskParker, Sequences, FiniteSets

CONSTANTS
    NumReceivers,
    BufSize,        \* bufsize; DEFAULT_DISTRIBUTOR_BUFFER_SIZE is 4
    HeadMod,        \* the heads wrap at this value
    MaxSends        \* the sender sends the values 1..MaxSends

Receiver == 1..NumReceivers
Sender == 0
Value == 1..MaxSends
NoValue == 0

\* next_power_of_two, line 24.
Capacity ==
    CHOOSE c \in {2^k : k \in 0..BufSize} :
        /\ c >= BufSize
        /\ \A k \in 0..BufSize : 2^k >= BufSize => 2^k >= c

ASSUME DistributorAssumption ==
    /\ NumReceivers \in Nat \ {0}
    /\ BufSize \in 1..4
    /\ HeadMod \in Nat
    /\ HeadMod > BufSize
    /\ HeadMod % Capacity = 0
    /\ MaxSends \in Nat
    /\ Actor = 0..NumReceivers

VARIABLES
    sendClosed,     \* send_closed
    closed,         \* ReceiverSlot::closed
    readHead,       \* ReceiverSlot::read_head
    writeHead,      \* write_heads
    data,           \* ReceiverSlot::data; reading a slot leaves it as it is
    rr,             \* round_robin_idx, counted from 1
    idx,            \* hungriest_idx or idx, whichever is in use
    shortest,       \* shortest_len
    left,           \* receivers the search has yet to try; 0 on the fast path
    allClosed,      \* all_closed
    svalue,         \* the value being sent
    rvalue,         \* the value each receiver has read
    sentTo,         \* values put in each receiver's buffer
    received,       \* values taken out of each receiver's buffer
    ended,          \* receivers whose recv returned Err
    dropIdx,        \* r in the drop of the DistributorInner; 0 outside of it
    dropHead,       \* read_head, the local of that drop
    freed           \* values dropped with the DistributorInner

shared == <<sendClosed, closed, readHead, writeHead, data>>
senderVars == <<rr, idx, shortest, left, allClosed, svalue>>
dropVars == <<dropIdx, dropHead, freed>>
history == <<sentTo, received, ended, dropVars>>
vars == <<parkerVars, pc, callVars, shared, senderVars, rvalue, history>>

Init ==
    /\ ParkerInit
    /\ pc = [a \in Actor |-> "idle"]
    /\ target = [a \in Actor |-> a]
    /\ ret = [a \in Actor |-> "idle"]
    /\ sendClosed = FALSE
    /\ closed = [r \in Receiver |-> FALSE]
    /\ readHead = [r \in Receiver |-> 0]
    /\ writeHead = [r \in Receiver |-> 0]
    /\ data = [r \in Receiver |-> [i \in 0..(Capacity - 1) |-> NoValue]]
    /\ rr = 1
    /\ idx = 1
    /\ shortest = 0
    /\ left = 0
    /\ allClosed = TRUE
    /\ svalue = NoValue
    /\ rvalue = [r \in Receiver |-> NoValue]
    /\ sentTo = [r \in Receiver |-> <<>>]
    /\ received = [r \in Receiver |-> <<>>]
    /\ ended = {}
    /\ dropIdx = 0
    /\ dropHead = 0
    /\ freed = [r \in Receiver |-> <<>>]

\* wrapping_sub and wrapping_add.
WrapSub(x, y) == (x + HeadMod - y) % HeadMod
WrapAdd1(x) == (x + 1) % HeadMod

\* Mutant: the index is not reduced to the capacity but to bufsize.
reduce_index_bufsize(i) == i % BufSize

\* Lines 91-93: the mask is Capacity - 1 and Capacity is a power of two.
reduce_index(i) == i % Capacity

\* Lines 167-173 and 176-180.
upper_bound_len(r) == WrapSub(writeHead[r], readHead[r])

NextReceiver(r) == IF r = NumReceivers THEN 1 ELSE r + 1

-----------------------------------------------------------------------------
(* Sender::send *)

StartSend ==
    /\ pc[Sender] = "idle"
    /\ svalue < MaxSends
    /\ svalue' = svalue + 1
    /\ Goto(Sender, "loop")
    /\ UNCHANGED <<parkerVars, callVars, shared, rr, idx, shortest, left, allClosed,
                   rvalue, history>>

\* Lines 115-121.
SendRoundRobin ==
    /\ pc[Sender] = "loop"
    /\ rr' = NextReceiver(rr)
    /\ idx' = rr'
    /\ shortest' = upper_bound_len(rr')
    /\ left' = 0
    /\ Goto(Sender, "sample")
    /\ UNCHANGED <<parkerVars, callVars, shared, allClosed, svalue, rvalue, history>>

\* Lines 122-129: a sample that is shorter.  Four samples are enough for
\* every chain of improvements, as shortest_len starts at bufsize <= 4.
SendSample(r) ==
    /\ pc[Sender] = "sample"
    /\ upper_bound_len(r) < shortest
    /\ shortest' = upper_bound_len(r)
    /\ idx' = r
    /\ UNCHANGED <<parkerVars, pc, callVars, shared, rr, left, allClosed, svalue,
                   rvalue, history>>

\* Lines 129-131: the other samples change nothing.
SendSampled ==
    /\ pc[Sender] = "sample"
    /\ shortest' = 0
    /\ Goto(Sender, "trySend")
    /\ UNCHANGED <<parkerVars, callVars, shared, rr, idx, left, allClosed, svalue,
                   rvalue, history>>

\* Lines 138-142.
SendPark(start) ==
    /\ pc[Sender] = "park"
    /\ Park(Sender)
    /\ idx' = start
    /\ left' = NumReceivers
    /\ allClosed' = TRUE
    /\ Goto(Sender, "trySend")
    /\ UNCHANGED <<pwaker, woken, callVars, shared, rr, shortest, svalue, rvalue,
                   history>>

-----------------------------------------------------------------------------
(* Sender::try_send, called from the fast path and from the search *)

\* Mutant: off by one.
HasRoomOver(r) == upper_bound_len(r) <= BufSize

\* Line 181.
HasRoom(r) == upper_bound_len(r) < BufSize

\* Lines 176-181.
TrySendLoad ==
    /\ pc[Sender] = "trySend"
    /\ Goto(Sender, IF HasRoom(idx) THEN "write" ELSE "loadClosed")
    /\ UNCHANGED <<parkerVars, callVars, shared, senderVars, rvalue, history>>

\* Lines 182-186.
TrySendWrite ==
    /\ pc[Sender] = "write"
    /\ data' = [data EXCEPT ![idx][reduce_index(writeHead[idx])] = svalue]
    /\ Goto(Sender, "publish")
    /\ UNCHANGED <<parkerVars, callVars, sendClosed, closed, readHead, writeHead,
                   senderVars, rvalue, history>>

\* The locals of send end with it.
EndSend ==
    /\ idx' = 1
    /\ left' = 0
    /\ allClosed' = TRUE

\* Lines 187-191.
TrySendPublish ==
    /\ pc[Sender] = "publish"
    /\ writeHead' = [writeHead EXCEPT ![idx] = WrapAdd1(@)]
    /\ sentTo' = [sentTo EXCEPT ![idx] = Append(@, svalue)]
    /\ CallUnpark(Sender, idx, "idle")
    /\ EndSend
    /\ UNCHANGED <<parkerVars, sendClosed, closed, readHead, data, rr, shortest,
                   svalue, rvalue, dropVars, received, ended>>

\* Lines 192-196 on the fast path: Full or Closed, the search follows.
TrySendFast ==
    /\ pc[Sender] = "loadClosed"
    /\ left = 0
    /\ Goto(Sender, "park")
    /\ UNCHANGED <<parkerVars, callVars, shared, senderVars, rvalue, history>>

\* Mutant: a full receiver does not count as open.
KeepsClosedForget(r) == TRUE

\* Lines 146-150.
KeepsClosed(r) == closed[r]

\* Lines 192-196 in the search, and lines 146-163: the next receiver, Err, or
\* the first poll of the park future.
TrySendSearch ==
    /\ pc[Sender] = "loadClosed"
    /\ left > 0
    /\ allClosed' = (allClosed /\ KeepsClosed(idx))
    /\ idx' = NextReceiver(idx)
    /\ left' = left - 1
    /\ Goto(Sender, IF left > 1 THEN "trySend"
                    ELSE IF allClosed' THEN "refused" ELSE "pollLoad")
    /\ UNCHANGED <<parkerVars, callVars, shared, rr, shortest, svalue, rvalue,
                   history>>

\* Line 160: Err(value).
SendRefused ==
    /\ pc[Sender] = "refused"
    /\ Goto(Sender, "idle")
    /\ EndSend
    /\ UNCHANGED <<parkerVars, callVars, shared, rr, shortest, svalue, rvalue,
                   history>>

-----------------------------------------------------------------------------
(* Receiver::recv *)

StartRecv(r) ==
    /\ pc[r] = "idle"
    /\ Goto(r, "loop")
    /\ UNCHANGED <<parkerVars, callVars, shared, senderVars, rvalue, history>>

\* Mutant: the heads are not compared.
MayReceiveAlways(r) == TRUE

\* Line 228.
MayReceive(r) == readHead[r] # writeHead[r]

\* Lines 224-228, the first try ("loop") or the second ("again").
TryRecvLoad(r) ==
    /\ pc[r] \in {"loop", "again"}
    /\ Goto(r, CASE MayReceive(r) -> "read"
                 [] ~MayReceive(r) /\ pc[r] = "loop" -> "loadClosed"
                 [] OTHER -> "loadClosedAgain")
    /\ UNCHANGED <<parkerVars, callVars, shared, senderVars, rvalue, history>>

\* Lines 229-233.
TryRecvRead(r) ==
    /\ pc[r] = "read"
    /\ rvalue' = [rvalue EXCEPT ![r] = data[r][reduce_index(readHead[r])]]
    /\ Goto(r, "consume")
    /\ UNCHANGED <<parkerVars, callVars, shared, senderVars, history>>

\* Lines 234-239.
TryRecvConsume(r) ==
    /\ pc[r] = "consume"
    /\ readHead' = [readHead EXCEPT ![r] = WrapAdd1(@)]
    /\ received' = [received EXCEPT ![r] = Append(@, rvalue[r])]
    /\ rvalue' = [rvalue EXCEPT ![r] = NoValue]
    /\ CallUnpark(r, Sender, "idle")
    /\ UNCHANGED <<parkerVars, sendClosed, closed, writeHead, data, senderVars,
                   dropVars, sentTo, ended>>

\* Lines 240-244, and what recv does with Closed and Empty.
TryRecvClosed(r) ==
    /\ pc[r] \in {"loadClosed", "loadClosedAgain"}
    /\ \/ /\ sendClosed
          /\ ended' = ended \cup {r}
          /\ Goto(r, "idle")
       \/ /\ ~sendClosed
          /\ Goto(r, IF pc[r] = "loadClosed" THEN "park" ELSE "pollLoad")
          /\ UNCHANGED ended
    /\ UNCHANGED <<parkerVars, callVars, shared, senderVars, rvalue, dropVars,
                   sentTo, received>>

\* Line 213.
RecvPark(r) ==
    /\ pc[r] = "park"
    /\ Park(r)
    /\ Goto(r, "again")
    /\ UNCHANGED <<pwaker, woken, callVars, shared, senderVars, rvalue, history>>

-----------------------------------------------------------------------------
(* Drops, between operations or with a task that is cancelled while parked *)

\* Lines 250-251.
DropSender ==
    /\ pc[Sender] \in {"idle", "parked"}
    /\ sendClosed' = TRUE
    /\ idx' = 1
    /\ Goto(Sender, "unparkAll")
    /\ UNCHANGED <<parkerVars, callVars, closed, readHead, writeHead, data, rr,
                   shortest, left, allClosed, svalue, rvalue, history>>

\* Lines 251-253.
DropSenderUnpark ==
    /\ pc[Sender] = "unparkAll"
    /\ idx' = NextReceiver(idx)
    /\ CallUnpark(Sender, idx, IF idx = NumReceivers THEN "gone" ELSE "unparkAll")
    /\ UNCHANGED <<parkerVars, shared, rr, shortest, left, allClosed, svalue,
                   rvalue, history>>

\* Lines 259-262.
DropReceiver(r) ==
    /\ pc[r] \in {"idle", "parked"}
    /\ closed' = [closed EXCEPT ![r] = TRUE]
    /\ CallUnpark(r, Sender, "gone")
    /\ UNCHANGED <<parkerVars, sendClosed, readHead, writeHead, data, senderVars,
                   rvalue, history>>

-----------------------------------------------------------------------------
(* Drop for DistributorInner, once the last of the actors is gone.  Nobody     *)
(* else has access then, so write_head is as good as loaded again.             *)

\* Lines 268-271: the next r of the outer loop.
DropTurnTo(r) ==
    /\ dropIdx' = r
    /\ dropHead' = readHead[r]

\* Lines 266-268.
DropInner ==
    /\ \A a \in Actor : pc[a] = "gone"
    /\ dropIdx = 0
    /\ DropTurnTo(1)
    /\ UNCHANGED <<parkerVars, pc, callVars, shared, senderVars, rvalue,
                   sentTo, received, ended, freed>>

\* Mutant: the heads are compared as if they did not wrap.
DropMoreBelow(r) == dropHead < writeHead[r]

\* Line 272.
DropMore(r) == dropHead # writeHead[r]

\* Lines 273-277: one round of the inner loop.
DropSlot ==
    /\ dropIdx # 0
    /\ DropMore(dropIdx)
    /\ freed' = [freed EXCEPT ![dropIdx] =
                    Append(@, data[dropIdx][reduce_index(dropHead)])]
    /\ dropHead' = WrapAdd1(dropHead)
    /\ UNCHANGED <<parkerVars, pc, callVars, shared, senderVars, rvalue,
                   sentTo, received, ended, dropIdx>>

\* Mutant: the outer loop stops one receiver early.
LastDroppedEarly(r) == r >= NumReceivers - 1

\* Line 268: the end of the range.
LastDropped(r) == r = NumReceivers

\* Lines 278-281.
DropNext ==
    /\ dropIdx # 0
    /\ ~DropMore(dropIdx)
    /\ IF LastDropped(dropIdx)
       THEN /\ dropIdx' = 0
            /\ dropHead' = 0
            /\ pc' = [a \in Actor |-> "dropped"]
       ELSE DropTurnTo(dropIdx + 1) /\ UNCHANGED pc
    /\ UNCHANGED <<parkerVars, callVars, shared, senderVars, rvalue,
                   sentTo, received, ended, freed>>

Dropped == (\A a \in Actor : pc[a] = "dropped") /\ UNCHANGED vars

-----------------------------------------------------------------------------

\* The steps of an operation of the sender under way.
SenderStep ==
    \/ SendRoundRobin
    \/ SendSampled
    \/ \E r \in Receiver : SendPark(r)
    \/ TrySendLoad
    \/ TrySendWrite
    \/ TrySendPublish
    \/ TrySendFast
    \/ TrySendSearch
    \/ SendRefused
    \/ DropSenderUnpark

ReceiverStep(r) ==
    \/ TryRecvLoad(r)
    \/ TryRecvRead(r)
    \/ TryRecvConsume(r)
    \/ TryRecvClosed(r)
    \/ RecvPark(r)

\* What the task parker does leaves the channel alone.
Parking(A) == A /\ UNCHANGED <<shared, senderVars, rvalue, history>>

Next ==
    \/ StartSend
    \/ SenderStep
    \/ DropSender
    \/ DropInner
    \/ DropSlot
    \/ DropNext
    \/ Dropped
    \/ \E r \in Receiver :
        \/ SendSample(r)
        \/ StartRecv(r)
        \/ ReceiverStep(r)
        \/ DropReceiver(r)
    \/ \E a \in Actor :
        \/ Parking(ParkerStep(a))
        \/ Parking(PollExchangeFails(a))
        \/ Parking(PollAgain(a))

Spec == Init /\ [][Next]_vars

\* An operation that was started goes on, a task that was woken is polled
\* (module Executor), and a weak exchange does not fail for ever.  Nobody has
\* to start an operation or to drop anything.
Fairness ==
    /\ WF_vars(SenderStep)
    /\ \A r \in Receiver : WF_vars(ReceiverStep(r))
    /\ \A a \in Actor :
        /\ WF_vars(Parking(ParkerStep(a)))
        /\ SF_vars(Parking(PollExchange(a)))
        /\ WF_vars(woken[a] /\ Parking(PollAgain(a)))

FairSpec == Spec /\ Fairness

-----------------------------------------------------------------------------

Labels ==
    ParkerLabels \cup
    {"sample", "trySend", "write", "publish", "park", "loadClosed", "refused",
     "again", "read", "consume", "loadClosedAgain", "unparkAll", "gone", "dropped"}

\* The type of every variable.
TypeOK ==
    /\ ParkerTypeOK
    /\ pc \in [Actor -> Labels]
    /\ ret \in [Actor -> Labels]
    /\ sendClosed \in BOOLEAN
    /\ closed \in [Receiver -> BOOLEAN]
    /\ readHead \in [Receiver -> 0..(HeadMod - 1)]
    /\ writeHead \in [Receiver -> 0..(HeadMod - 1)]
    /\ data \in [Receiver -> [0..(Capacity - 1) -> Value \cup {NoValue}]]
    /\ rr \in Receiver
    /\ idx \in Receiver
    /\ shortest \in 0..BufSize
    /\ left \in 0..NumReceivers
    /\ allClosed \in BOOLEAN
    /\ svalue \in Value \cup {NoValue}
    /\ rvalue \in [Receiver -> Value \cup {NoValue}]
    /\ sentTo \in [Receiver -> Seq(Value)]
    /\ received \in [Receiver -> Seq(Value)]
    /\ ended \subseteq Receiver
    /\ dropIdx \in Receiver \cup {0}
    /\ dropHead \in 0..(HeadMod - 1)
    /\ freed \in [Receiver -> Seq(Value)]

\* What is between the two heads of receiver r, oldest first.
Buffered(r) ==
    [i \in 1..upper_bound_len(r) |->
        data[r][reduce_index((readHead[r] + i - 1) % HeadMod)]]

\* Lines 17-19: what a receiver got, followed by what is in its buffer, is
\* what the sender gave it, in that order: nothing is lost, repeated or
\* overwritten, also when the heads have wrapped.  The buffer never holds
\* more than bufsize.
QueueContents ==
    \A r \in Receiver :
        /\ upper_bound_len(r) <= BufSize
        /\ sentTo[r] = received[r] \o Buffered(r)

\* The UnsafeCell of a slot is never written while its receiver reads it.
SlotExclusive ==
    pc[Sender] = "write" /\ pc[idx] = "read" =>
        reduce_index(writeHead[idx]) # reduce_index(readHead[idx])

\* Lines 268-278: the loops that drop the DistributorInner free, in the order
\* of the sends, values that were sent to that receiver and that it did not
\* take, each once; when they end none is left.  A loop that runs past the
\* write head, starts before the read head or stops short breaks it.
FreedOnce ==
    \A r \in Receiver :
        LET taken == Len(received[r]) IN
        /\ taken + Len(freed[r]) <= Len(sentTo[r])
        /\ \A i \in 1..Len(freed[r]) : freed[r][i] = sentTo[r][taken + i]
        /\ pc[r] = "dropped" => taken + Len(freed[r]) = Len(sentTo[r])

\* Lines 159-161: a value is handed back only when every receiver is gone.
RefusedWhenClosed == pc[Sender] = "refused" => \A r \in Receiver : closed[r]

\* What actor a would find if it looked again.
Ready(a) ==
    IF a = Sender
    THEN (\E r \in Receiver : HasRoom(r)) \/ (\A r \in Receiver : closed[r])
    ELSE readHead[a] # writeHead[a] \/ sendClosed

\* Some actor is about to unpark a.
Unparking(a) ==
    \/ \E b \in Actor : pc[b] \in {"unparkLoad", "unparkSwap"} /\ target[b] = a
    \/ /\ pc[Sender] = "unparkAll" \/ ret[Sender] = "unparkAll"
       /\ idx <= a

\* An actor that sleeps with something to do is about to be unparked, and one
\* that was unparked is awake or about to be woken: no notification falls
\* between the second look and the sleep (lines 137, 212; task_parker.rs:63).
NoLostWakeup ==
    \A a \in Actor : pc[a] = "parked" /\ ~woken[a] =>
        \/ pstate[a] = "PARKED" /\ pwaker[a] /\ (Ready(a) => Unparking(a))
        \/ \E b \in Actor : pc[b] = "unparkWake" /\ target[b] = a

\* No wakeup is lost: a parked sender goes on once a receiver has room or all
\* are gone, a parked receiver once it has a value or the sender is gone.
WaitersProceed ==
    \A a \in Actor : pc[a] = "parked" /\ Ready(a) ~> pc[a] # "parked"

\* Lines 13-15: what is in a receiver's buffer when the sender is exhausted is
\* still available to it, so recv says that the sender is gone only after the
\* last value.
EndsAfterLast == \A r \in ended : received[r] = sentTo[r]

\* task_parker.rs:19, 56: a park future that is polled again while the task is
\* parked refreshes the waker and returns, leaving the task parked.
PollReturns == \A a \in Actor : pc[a] = "pollRefresh" ~> pc[a] # "pollRefresh"
=============================================================================
