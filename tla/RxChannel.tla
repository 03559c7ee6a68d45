----------------------------- MODULE RxChannel -----------------------------
(***************************************************************************)
(* What reception promises: a bounded channel of frames.  Every frame      *)
(* received whole is read once, whole and in the order of the wire, and    *)
(* then handed over.  The promise ends at a Failure, the first time no     *)
(* buffer is free for a frame.                                             *)
(***************************************************************************)
EXTENDS Integers

CONSTANT Capacity     \* frames the channel holds

VARIABLES
  received,  \* frames received
  read,      \* frames read
  frame,     \* the frame read last and not handed over, 0 for none
  broken     \* a failure has happened

vars == <<received, read, frame, broken>>

Init == received = 0 /\ read = 0 /\ frame = 0 /\ broken = FALSE

Receive ==
  /\ ~broken /\ received - read < Capacity
  /\ received' = received + 1
  /\ UNCHANGED <<read, frame, broken>>

Read ==
  /\ ~broken /\ read < received /\ frame = 0
  /\ read' = read + 1
  /\ frame' = read + 1
  /\ UNCHANGED <<received, broken>>

HandOver ==
  /\ ~broken /\ frame # 0
  /\ frame' = 0
  /\ UNCHANGED <<received, read, broken>>

\* Nothing is said of a broken channel.
Failure ==
  /\ ~broken
  /\ broken' = TRUE
  /\ received' = 0 /\ read' = 0 /\ frame' = 0

Next == Receive \/ Read \/ HandOver \/ Failure

Spec == Init /\ [][Next]_vars

FairSpec == Spec /\ WF_vars(Read) /\ WF_vars(HandOver)

=============================================================================
