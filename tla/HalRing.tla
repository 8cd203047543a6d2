------------------------------- MODULE HalRing -------------------------------
(***************************************************************************)
(* The message queue of hal/ekk_hal_posix.c: one ring of slots shared by   *)
(* all modules of the process.  A message is written at the head; whoever  *)
(* is the current module reads the first message addressed to it, wherever *)
(* in the ring it is, and slots are reclaimed from the tail only.  Sending *)
(* and receiving each hold the lock throughout, so each is one step.       *)
(*                                                                         *)
(* A message is its sender, its address and its number; the number stands  *)
(* for type and payload and is read by no guard.  A callback registered by *)
(* ekk_hal_set_recv_callback gets a copy outside the lock and leaves the   *)
(* ring alone; nothing in src registers one.                               *)
(***************************************************************************)
EXTENDS Integers

CONSTANTS
  Module,         \* identities the process takes with ekk_hal_set_module_id
  Dest,           \* addresses used: modules of the process, of others, all
  Broadcast,      \* EKK_BROADCAST_ID
  NoModule,       \* EKK_INVALID_MODULE_ID, in slots never used
  Size,           \* MSG_QUEUE_SIZE, 64 in the code
  MaxSends        \* bound: messages sent in a behaviour

ASSUME RingAssumption ==
  /\ Broadcast \notin Module /\ NoModule \notin Dest
  /\ Module \union {Broadcast} \subseteq Dest
  /\ Size \in Nat /\ Size >= 2
  /\ MaxSends \in Nat

VARIABLES
  g_msg_queue,        \* the slots
  g_msg_head,         \* the slot written next
  g_msg_tail,         \* the oldest slot not reclaimed
  g_module_id,        \* who is running
  g_recv_error_once,  \* whether the next receive fails
  posted              \* messages accepted so far

vars ==
  <<g_msg_queue, g_msg_head, g_msg_tail, g_module_id, g_recv_error_once, posted>>

Slot == 0 .. Size - 1
Message == [sender_id : Module \union {NoModule}, dest_id : Dest \union {NoModule},
            valid : BOOLEAN, n : Nat]
Cleared == [sender_id |-> NoModule, dest_id |-> NoModule, valid |-> FALSE, n |-> 0]
-----------------------------------------------------------------------------
(***************************************************************************)
(* Positions in the ring, counted from the tail.                           *)
(***************************************************************************)
Following(i) == (i + 1) % Size
Distance(t, i) == IF i >= t THEN i - t ELSE i - t + Size
Offset(i) == Distance(g_msg_tail, i)
Used == {i \in Slot : Offset(i) < Offset(g_msg_head)}
Unread == {i \in Used : g_msg_queue[i].valid}

FullLate == FALSE                 \* mutant: never full
Full == Following(g_msg_head) = g_msg_tail

(***************************************************************************)
(* ekk_hal_recv: what the current module may read, and the first of it.    *)
(***************************************************************************)
DeliverableToAll(i) == TRUE       \* mutant: messages for others are read too
Deliverable(i) == g_msg_queue[i].dest_id \in {g_module_id, Broadcast}

IsFirstAny(i) ==                  \* mutant: read in any order
  i \in Unread /\ Deliverable(i)
IsFirst(i) ==
  /\ i \in Unread /\ Deliverable(i)
  /\ \A j \in Unread : Deliverable(j) => Offset(i) <= Offset(j)

(***************************************************************************)
(* Where the tail stops once slot i is read: at the first message unread.  *)
(***************************************************************************)
IsNewTailOnce(i, t) ==            \* mutant: one slot is reclaimed at most
  t = IF i = g_msg_tail THEN Following(i) ELSE g_msg_tail
IsNewTail(i, t) ==
  LET left == Unread \ {i}
  IN  IF left = {} THEN t = g_msg_head
      ELSE t \in left /\ \A j \in left : Offset(t) <= Offset(j)
-----------------------------------------------------------------------------
Init ==
  /\ g_msg_queue = [i \in Slot |-> Cleared]
  /\ g_msg_head = 0
  /\ g_msg_tail = 0
  /\ g_module_id \in Module
  /\ g_recv_error_once = FALSE
  /\ posted = 0

(***************************************************************************)
(* ekk_hal_send, ekk_hal_broadcast: a full queue refuses the message.      *)
(***************************************************************************)
Send(dest) ==
  /\ posted < MaxSends
  /\ ~Full
  /\ g_msg_queue' = [g_msg_queue EXCEPT ![g_msg_head] =
       [sender_id |-> g_module_id, dest_id |-> dest, valid |-> TRUE, n |-> posted]]
  /\ g_msg_head' = Following(g_msg_head)
  /\ posted' = posted + 1
  /\ UNCHANGED <<g_msg_tail, g_module_id, g_recv_error_once>>

(***************************************************************************)
(* ekk_hal_recv: reading slot i, or failing as a test has asked for.  With *)
(* nothing to read it changes nothing.                                     *)
(***************************************************************************)
Read(i) ==
  /\ ~g_recv_error_once
  /\ IsFirst(i)
  /\ g_msg_queue' = [g_msg_queue EXCEPT ![i].valid = FALSE]
  /\ g_msg_tail' \in {t \in Slot : IsNewTail(i, t)}
  /\ UNCHANGED <<g_msg_head, g_module_id, g_recv_error_once, posted>>

Receive(m) == g_module_id = m /\ \E i \in Slot : Read(i)

ReceiveFails ==
  /\ g_recv_error_once
  /\ g_recv_error_once' = FALSE
  /\ UNCHANGED <<g_msg_queue, g_msg_head, g_msg_tail, g_module_id, posted>>

SetRecvErrorOnce ==
  /\ ~g_recv_error_once
  /\ g_recv_error_once' = TRUE
  /\ UNCHANGED <<g_msg_queue, g_msg_head, g_msg_tail, g_module_id, posted>>

SetModuleId(m) ==
  /\ g_module_id # m
  /\ g_module_id' = m
  /\ UNCHANGED <<g_msg_queue, g_msg_head, g_msg_tail, g_recv_error_once, posted>>

Next ==
  \/ \E dest \in Dest : Send(dest)
  \/ \E m \in Module : Receive(m) \/ SetModuleId(m)
  \/ ReceiveFails
  \/ SetRecvErrorOnce

(***************************************************************************)
(* The simulation gives every module its turn again and again, and in its  *)
(* turn a module receives (examples/multi_module.c); the faults a test     *)
(* injects come to an end.                                                 *)
(***************************************************************************)
Fairness ==
  /\ \A m \in Module : SF_vars(SetModuleId(m)) /\ SF_vars(Receive(m))
  /\ <>[](~g_recv_error_once)

Spec == Init /\ [][Next]_vars /\ Fairness
-----------------------------------------------------------------------------
TypeOK ==
  /\ g_msg_queue \in [Slot -> Message]
  /\ g_msg_head \in Slot
  /\ g_msg_tail \in Slot
  /\ g_module_id \in Module
  /\ g_recv_error_once \in BOOLEAN
  /\ posted \in Nat

(***************************************************************************)
(* The ring keeps its order across wrap-around: the slots in use hold the  *)
(* latest messages, numbered in the order of the ring; none is valid       *)
(* outside them, where a reader would find it again a round later; and the *)
(* tail never rests on a message already read, so no slot is lost.         *)
(***************************************************************************)
NumberedInOrder ==
  \A i \in Used : g_msg_queue[i].n = posted - Offset(g_msg_head) + Offset(i)
NothingOutside == \A i \in Slot \ Used : ~g_msg_queue[i].valid
TailUnread == g_msg_tail # g_msg_head => g_msg_queue[g_msg_tail].valid

RingInOrder == TypeOK /\ NumberedInOrder /\ NothingOutside /\ TailUnread

(***************************************************************************)
(* The ring is a message bus: what was accepted is delivered once, to a    *)
(* module it is addressed to, in the order sent, whatever is left unread   *)
(* in front of it.                                                         *)
(***************************************************************************)
LetterOf(i) ==
  [n |-> g_msg_queue[i].n, from |-> g_msg_queue[i].sender_id, to |-> g_msg_queue[i].dest_id]

Bus == INSTANCE MessageBus WITH pending <- {LetterOf(i) : i \in Unread}

BusImplemented == Bus!Spec

(***************************************************************************)
(* A full ring has room again once its oldest message is one that somebody *)
(* in the process reads.  (A message to a module that never reads blocks   *)
(* every later send as soon as it is the oldest.)                          *)
(***************************************************************************)
OldestHasReader == g_msg_queue[g_msg_tail].dest_id \in Module \union {Broadcast}

RoomReturns == Full /\ OldestHasReader ~> ~Full
=============================================================================
