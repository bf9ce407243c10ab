------------------------------- MODULE Channel -------------------------------
(***************************************************************************)
(* What a single-producer, single-consumer capacity-one channel promises   *)
(* (the first line of connector.rs): values arrive once, in order; the     *)
(* receiver learns of the end only after the last value; a value is        *)
(* refused only after the receiver is gone.                                *)
(***************************************************************************)
EXTENDS Naturals, Sequences

CONSTANT Value

VARIABLES
    accepted,       \* values the sender was told are sent
    delivered,      \* values the receiver got
    senderGone,
    receiverGone,
    ended,          \* the receiver was told that the sender is gone
    refused         \* a value was handed back to the sender

vars == <<accepted, delivered, senderGone, receiverGone, ended, refused>>

Init ==
    /\ accepted = <<>>
    /\ delivered = <<>>
    /\ senderGone = FALSE
    /\ receiverGone = FALSE
    /\ ended = FALSE
    /\ refused = FALSE

Send(v) ==
    /\ ~senderGone
    /\ ~receiverGone
    /\ Len(accepted) = Len(delivered)
    /\ accepted' = Append(accepted, v)
    /\ UNCHANGED <<delivered, senderGone, receiverGone, ended, refused>>

Receive ==
    /\ ~receiverGone
    /\ Len(delivered) < Len(accepted)
    /\ delivered' = Append(delivered, accepted[Len(delivered) + 1])
    /\ UNCHANGED <<accepted, senderGone, receiverGone, ended, refused>>

\* Err(()) from recv.
End ==
    /\ ~receiverGone
    /\ senderGone
    /\ delivered = accepted
    /\ ended' = TRUE
    /\ UNCHANGED <<accepted, delivered, senderGone, receiverGone, refused>>

\* Err(value) from send.
Refuse ==
    /\ ~senderGone
    /\ receiverGone
    /\ refused' = TRUE
    /\ UNCHANGED <<accepted, delivered, senderGone, receiverGone, ended>>

DropSender ==
    /\ senderGone' = TRUE
    /\ UNCHANGED <<accepted, delivered, receiverGone, ended, refused>>

DropReceiver ==
    /\ receiverGone' = TRUE
    /\ UNCHANGED <<accepted, delivered, senderGone, ended, refused>>

Next ==
    \/ \E v \in Value : Send(v)
    \/ Receive
    \/ End
    \/ Refuse
    \/ DropSender
    \/ DropReceiver

Spec == Init /\ [][Next]_vars
=============================================================================
