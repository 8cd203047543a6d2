---------------------------- MODULE HalRingProofs ----------------------------
(***************************************************************************)
(* Proofs about HalRing, for a ring of any size, any modules and any       *)
(* number of messages: the ring stays in order, and every step is a step   *)
(* of MessageBus or leaves the bus alone.                                  *)
(***************************************************************************)
EXTENDS HalRing, TLAPS

(***************************************************************************)
(* Arithmetic of positions.  A slot is determined by its distance from the *)
(* tail; the slot after another is one further away.                       *)
(***************************************************************************)
LEMMA FollowingStep ==
  ASSUME NEW i \in Slot
  PROVE  Following(i) = IF i + 1 = Size THEN 0 ELSE i + 1
<1>1. Size \in Nat /\ Size >= 2
  BY RingAssumption
<1>2. CASE i + 1 = Size
  BY <1>1, <1>2, Z3 DEF Following, Slot
<1>3. CASE i + 1 # Size
  BY <1>1, <1>3, Z3 DEF Following, Slot
<1> QED
  BY <1>2, <1>3

LEMMA DistanceRange ==
  ASSUME NEW t \in Slot, NEW i \in Slot
  PROVE  /\ Distance(t, i) \in Slot
         /\ Distance(t, t) = 0
BY RingAssumption DEF Distance, Slot

\* Positions counted from the tail determine the slot.
LEMMA DistanceInjective ==
  ASSUME NEW t \in Slot, NEW i \in Slot, NEW j \in Slot,
         Distance(t, i) = Distance(t, j)
  PROVE  i = j
BY RingAssumption DEF Distance, Slot

LEMMA DistanceFollowing ==
  ASSUME NEW t \in Slot, NEW i \in Slot, Following(i) # t
  PROVE  /\ Following(i) \in Slot
         /\ Distance(t, Following(i)) = Distance(t, i) + 1
BY FollowingStep, RingAssumption DEF Distance, Slot

\* What moving the tail from t to u does to a position.
LEMMA DistanceShift ==
  ASSUME NEW t \in Slot, NEW u \in Slot, NEW i \in Slot
  PROVE  Distance(u, i) = IF Distance(t, u) <= Distance(t, i)
                          THEN Distance(t, i) - Distance(t, u)
                          ELSE Distance(t, i) - Distance(t, u) + Size
BY RingAssumption DEF Distance, Slot
-----------------------------------------------------------------------------
(***************************************************************************)
(* What a message sent does to the slots in use.                           *)
(***************************************************************************)
LEMMA SendGrows ==
  ASSUME TypeOK, NEW dest \in Dest, Send(dest)
  PROVE  /\ Used' = Used \union {g_msg_head}
         /\ g_msg_head \notin Used
         /\ \A i \in Slot : Offset(i)' = Offset(i)
         /\ Offset(g_msg_head)' = Offset(g_msg_head) + 1
         /\ g_msg_head' \in Slot
<1>1. g_msg_tail \in Slot /\ g_msg_head \in Slot
  BY DEF TypeOK
<1>2. g_msg_tail' = g_msg_tail /\ g_msg_head' = Following(g_msg_head)
  BY DEF Send
<1>3. Following(g_msg_head) # g_msg_tail
  BY DEF Send, Full
<1>4. /\ Following(g_msg_head) \in Slot
      /\ Distance(g_msg_tail, Following(g_msg_head)) = Distance(g_msg_tail, g_msg_head) + 1
  BY <1>1, <1>3, DistanceFollowing
<1>5. \A i \in Slot : Offset(i)' = Offset(i)
  BY <1>2 DEF Offset, Distance
<1>6. Offset(g_msg_head)' = Offset(g_msg_head) + 1
  BY <1>2, <1>4 DEF Offset, Distance
<1>7. \A i \in Slot : Offset(i) \in Nat /\ (Offset(i) = Offset(g_msg_head) => i = g_msg_head)
  BY <1>1, DistanceRange, DistanceInjective, RingAssumption DEF Offset, Slot
<1>8. \A i \in Slot : i \in Used' <=> i \in Used \/ i = g_msg_head
  BY <1>1, <1>5, <1>6, <1>7 DEF Used
<1>9. Used' \subseteq Slot /\ Used \subseteq Slot /\ g_msg_head \notin Used
  BY <1>1, <1>7 DEF Used, Slot
<1> QED
  BY <1>1, <1>2, <1>4, <1>5, <1>6, <1>8, <1>9

(***************************************************************************)
(* What a message read does: the tail moves forward, over messages read.   *)
(***************************************************************************)
LEMMA ReadReclaims ==
  ASSUME TypeOK, NEW r \in Slot, Read(r)
  PROVE  /\ g_msg_tail' \in Slot
         /\ Offset(g_msg_tail') <= Offset(g_msg_head)
         /\ \A i \in Unread \ {r} : Offset(g_msg_tail') <= Offset(i)
         /\ g_msg_tail' # g_msg_head => g_msg_tail' \in Unread \ {r}
         /\ \A i \in Slot :
              i \in Used' <=> Offset(g_msg_tail') <= Offset(i) /\ Offset(i) < Offset(g_msg_head)
         /\ \A i \in Used' : Offset(i)' = Offset(i) - Offset(g_msg_tail')
         /\ Offset(g_msg_head)' = Offset(g_msg_head) - Offset(g_msg_tail')
<1> DEFINE t == g_msg_tail'
           left == Unread \ {r}
<1>1. g_msg_tail \in Slot /\ g_msg_head \in Slot /\ g_msg_head' = g_msg_head
  BY DEF TypeOK, Read
<1>2. t \in Slot /\ IsNewTail(r, t)
  BY DEF Read
<1>3. \A i \in Slot : Offset(i) \in Nat /\ Offset(i) < Size
  BY <1>1, DistanceRange, RingAssumption DEF Offset, Slot
<1>4. /\ \A i \in left : Offset(t) <= Offset(i)
      /\ t # g_msg_head => t \in left
      /\ Offset(t) <= Offset(g_msg_head)
  <2>1. CASE left = {}
    <3>1. t = g_msg_head
      BY <1>2, <2>1 DEF IsNewTail
    <3> QED
      BY <1>1, <1>3, <2>1, <3>1
  <2>2. CASE left # {}
    <3>1. t \in left /\ \A j \in left : Offset(t) <= Offset(j)
      BY <1>2, <2>2 DEF IsNewTail
    <3>2. Offset(t) < Offset(g_msg_head)
      BY <3>1 DEF Unread, Used
    <3> QED
      BY <1>1, <1>2, <1>3, <3>1, <3>2
  <2> QED
    BY <2>1, <2>2
<1>5. \A i \in Slot : Offset(i)' = IF Offset(t) <= Offset(i) THEN Offset(i) - Offset(t)
                                   ELSE Offset(i) - Offset(t) + Size
  <2> TAKE i \in Slot
  <2>1. Offset(i)' = Distance(t, i)
    BY DEF Offset, Distance
  <2> QED
    BY <1>1, <1>2, <2>1, DistanceShift DEF Offset
<1>6. Offset(g_msg_head)' = Offset(g_msg_head) - Offset(t)
  <2>1. Offset(g_msg_head)' = Distance(t, g_msg_head)
    BY <1>1 DEF Offset, Distance
  <2> QED
    BY <1>1, <1>2, <1>4, <2>1, DistanceShift DEF Offset
<1>7. \A i \in Slot : i \in Used' <=> Offset(i)' < Offset(g_msg_head)'
  BY DEF Used
<1>8. \A i \in Slot : i \in Used' <=> Offset(t) <= Offset(i) /\ Offset(i) < Offset(g_msg_head)
  <2> TAKE i \in Slot
  <2>1. Size \in Nat /\ Offset(t) \in Nat /\ Offset(i) \in Nat /\ Offset(i) < Size
        /\ Offset(g_msg_head) \in Nat /\ Offset(g_msg_head) < Size
    BY <1>1, <1>2, <1>3, RingAssumption
  <2> QED
    BY <1>5, <1>6, <1>7, <2>1
<1>9. \A i \in Used' : Offset(i)' = Offset(i) - Offset(t)
  BY <1>5, <1>8 DEF Used
<1> QED
  BY <1>2, <1>4, <1>6, <1>8, <1>9
-----------------------------------------------------------------------------
(***************************************************************************)
(* RingInOrder is inductive as it stands.                                  *)
(***************************************************************************)
LEMMA OffsetsNat ==
  ASSUME TypeOK
  PROVE  \A i \in Slot : Offset(i) \in Nat /\ Offset(i) < Size
BY DistanceRange, RingAssumption DEF TypeOK, Offset, Slot

LEMMA RingInOrderInit ==
  ASSUME Init
  PROVE  RingInOrder
<1>1. Size \in Nat /\ Size >= 2 /\ 0 \in Slot
  BY RingAssumption DEF Slot
<1>2. TypeOK
  BY <1>1 DEF Init, TypeOK, Cleared, Message
<1>3. \A i \in Slot : ~g_msg_queue[i].valid
  BY DEF Init, Cleared
<1>4. Offset(g_msg_head) = 0
  BY <1>1, DistanceRange DEF Init, Offset
<1>5. Used = {}
  BY <1>2, <1>4, OffsetsNat DEF Used
<1> QED
  BY <1>2, <1>3, <1>5 DEF Init, RingInOrder, NumberedInOrder, NothingOutside, TailUnread

\* Each operation on the ring preserves its order.
LEMMA RingInOrderSend ==
  ASSUME RingInOrder, NEW dest \in Dest, Send(dest)
  PROVE  RingInOrder'
<1> DEFINE msg == [sender_id |-> g_module_id, dest_id |-> dest, valid |-> TRUE, n |-> posted]
<1>1. TypeOK
  BY DEF RingInOrder
<1>2. /\ g_msg_queue' = [g_msg_queue EXCEPT ![g_msg_head] = msg]
      /\ g_msg_tail' = g_msg_tail /\ posted' = posted + 1
      /\ g_module_id' = g_module_id /\ g_recv_error_once' = g_recv_error_once
  BY DEF Send
<1>3. /\ Used' = Used \union {g_msg_head} /\ g_msg_head \notin Used
      /\ \A i \in Slot : Offset(i)' = Offset(i)
      /\ Offset(g_msg_head)' = Offset(g_msg_head) + 1
      /\ g_msg_head' \in Slot
  BY <1>1, SendGrows
<1>4. /\ g_msg_queue'[g_msg_head] = msg
      /\ \A i \in Slot \ {g_msg_head} : g_msg_queue'[i] = g_msg_queue[i]
  BY <1>1, <1>2 DEF TypeOK
<1>5. TypeOK'
  <2>1. msg \in Message
    BY <1>1 DEF TypeOK, Message
  <2> QED
    BY <1>1, <1>2, <1>3, <2>1 DEF TypeOK, Message
<1>6. NumberedInOrder'
  <2> SUFFICES ASSUME NEW i \in Used'
               PROVE  g_msg_queue'[i].n = posted' - Offset(g_msg_head)' + Offset(i)'
    BY DEF NumberedInOrder
  <2>1. i \in Slot /\ g_msg_head \in Slot /\ posted \in Nat
    BY <1>1, <1>3 DEF TypeOK, Used
  <2>2. Offset(i) \in Nat /\ Offset(g_msg_head) \in Nat
    BY <1>1, <2>1, OffsetsNat
  <2>3. Offset(i)' = Offset(i)
    BY <1>3, <2>1
  <2>4. CASE i = g_msg_head
    BY <1>2, <1>3, <1>4, <2>1, <2>2, <2>3, <2>4
  <2>5. CASE i \in Used
    <3>1. g_msg_queue[i].n = posted - Offset(g_msg_head) + Offset(i)
      BY <2>5 DEF RingInOrder, NumberedInOrder
    <3>2. g_msg_queue'[i] = g_msg_queue[i]
      BY <1>3, <1>4, <2>1, <2>5
    <3> QED
      BY <1>2, <1>3, <2>1, <2>2, <2>3, <3>1, <3>2
  <2> QED
    BY <1>3, <2>4, <2>5
<1>7. NothingOutside'
  BY <1>3, <1>4, <1>1 DEF RingInOrder, NothingOutside, TypeOK
<1>8. TailUnread'
  BY <1>1, <1>2, <1>4 DEF RingInOrder, TailUnread, TypeOK
<1> QED
  BY <1>5, <1>6, <1>7, <1>8 DEF RingInOrder

LEMMA RingInOrderRead ==
  ASSUME RingInOrder, NEW r \in Slot, Read(r)
  PROVE  RingInOrder'
<1> DEFINE t == g_msg_tail'
<1>1. TypeOK
  BY DEF RingInOrder
<1>2. /\ g_msg_queue' = [g_msg_queue EXCEPT ![r].valid = FALSE]
      /\ g_msg_head' = g_msg_head /\ posted' = posted
      /\ g_module_id' = g_module_id /\ g_recv_error_once' = g_recv_error_once
      /\ r \in Unread
  BY DEF Read, IsFirst
<1>3. /\ t \in Slot
      /\ \A i \in Unread \ {r} : Offset(t) <= Offset(i)
      /\ t # g_msg_head => t \in Unread \ {r}
      /\ \A i \in Slot : i \in Used' <=> Offset(t) <= Offset(i) /\ Offset(i) < Offset(g_msg_head)
      /\ \A i \in Used' : Offset(i)' = Offset(i) - Offset(t)
      /\ Offset(g_msg_head)' = Offset(g_msg_head) - Offset(t)
  BY <1>1, ReadReclaims
<1>4. /\ ~g_msg_queue'[r].valid
      /\ \A i \in Slot \ {r} : g_msg_queue'[i] = g_msg_queue[i]
      /\ \A i \in Slot : g_msg_queue'[i].n = g_msg_queue[i].n
  BY <1>1, <1>2 DEF TypeOK, Message
<1>5. TypeOK'
  BY <1>1, <1>2, <1>3 DEF TypeOK, Message
<1>6. NumberedInOrder'
  <2> SUFFICES ASSUME NEW i \in Used'
               PROVE  g_msg_queue'[i].n = posted' - Offset(g_msg_head)' + Offset(i)'
    BY DEF NumberedInOrder
  <2>1. i \in Slot /\ i \in Used
    BY <1>3 DEF Used
  <2>2. /\ Offset(i) \in Nat /\ Offset(g_msg_head) \in Nat /\ Offset(t) \in Nat
        /\ posted \in Nat
    BY <1>1, <1>3, <2>1, OffsetsNat DEF TypeOK
  <2>3. g_msg_queue[i].n = posted - Offset(g_msg_head) + Offset(i)
    BY <2>1 DEF RingInOrder, NumberedInOrder
  <2> QED
    BY <1>2, <1>3, <1>4, <2>1, <2>2, <2>3
<1>7. NothingOutside'
  <2> SUFFICES ASSUME NEW i \in Slot, i \notin Used'
               PROVE  ~g_msg_queue'[i].valid
    BY DEF NothingOutside
  <2>1. CASE i = r
    BY <1>4, <2>1
  <2>2. CASE i # r /\ i \notin Used
    BY <1>4, <2>2 DEF RingInOrder, NothingOutside
  <2>3. CASE i # r /\ i \in Used
    <3>1. Offset(i) < Offset(g_msg_head) /\ ~(Offset(t) <= Offset(i))
      BY <1>3, <2>3 DEF Used
    <3>2. i \notin Unread
      BY <1>3, <2>3, <3>1
    <3> QED
      BY <1>4, <2>3, <3>2 DEF Unread
  <2> QED
    BY <2>1, <2>2, <2>3
<1>8. TailUnread'
  BY <1>2, <1>3, <1>4 DEF TailUnread, Unread
<1> QED
  BY <1>5, <1>6, <1>7, <1>8 DEF RingInOrder

LEMMA RingInOrderOther ==
  ASSUME RingInOrder,
         UNCHANGED <<g_msg_queue, g_msg_head, g_msg_tail, posted>>,
         g_module_id' \in Module, g_recv_error_once' \in BOOLEAN
  PROVE  RingInOrder'
BY DEF RingInOrder, TypeOK, NumberedInOrder, NothingOutside, TailUnread, Used, Offset

(***************************************************************************)
(* The ring keeps its order, whatever is sent, read and injected.          *)
(***************************************************************************)
THEOREM RingInOrderInvariant == Spec => []RingInOrder
<1>1. Init => RingInOrder
  BY RingInOrderInit
<1>2. RingInOrder /\ [Next]_vars => RingInOrder'
  <2> SUFFICES ASSUME RingInOrder, [Next]_vars
               PROVE  RingInOrder'
    OBVIOUS
  <2>1. ASSUME NEW dest \in Dest, Send(dest)
        PROVE  RingInOrder'
    BY <2>1, RingInOrderSend
  <2>2. ASSUME NEW m \in Module, Receive(m)
        PROVE  RingInOrder'
    BY <2>2, RingInOrderRead DEF Receive
  <2>3. ASSUME NEW m \in Module, SetModuleId(m)
        PROVE  RingInOrder'
    BY <2>3, RingInOrderOther DEF SetModuleId, RingInOrder, TypeOK
  <2>4. CASE ReceiveFails \/ SetRecvErrorOnce
    BY <2>4, RingInOrderOther DEF ReceiveFails, SetRecvErrorOnce, RingInOrder, TypeOK
  <2>5. CASE UNCHANGED vars
    BY <2>5, RingInOrderOther DEF vars, RingInOrder, TypeOK
  <2> QED
    BY <2>1, <2>2, <2>3, <2>4, <2>5 DEF Next
<1> QED
  BY <1>1, <1>2, PTL DEF Spec
-----------------------------------------------------------------------------
(***************************************************************************)
(* The ring implements the bus.  The letters of different slots differ in  *)
(* their numbers, because the numbers follow the order of the ring.        *)
(***************************************************************************)
Letters == {LetterOf(i) : i \in Unread}

\* Messages are numbered as their slots follow each other.
LEMMA NumbersDiffer ==
  ASSUME RingInOrder, NEW i \in Used, NEW j \in Used
  PROVE  /\ g_msg_queue[i].n = g_msg_queue[j].n => i = j
         /\ g_msg_queue[i].n <= g_msg_queue[j].n <=> Offset(i) <= Offset(j)
<1>1. i \in Slot /\ j \in Slot /\ TypeOK /\ g_msg_head \in Slot /\ g_msg_tail \in Slot
  BY DEF Used, RingInOrder, TypeOK
<1>2. /\ Offset(i) \in Nat /\ Offset(j) \in Nat /\ Offset(g_msg_head) \in Nat
      /\ posted \in Nat
  BY <1>1, OffsetsNat DEF TypeOK
<1>3. /\ g_msg_queue[i].n = posted - Offset(g_msg_head) + Offset(i)
      /\ g_msg_queue[j].n = posted - Offset(g_msg_head) + Offset(j)
  BY DEF RingInOrder, NumberedInOrder
<1>4. Offset(i) = Offset(j) => i = j
  BY <1>1, DistanceInjective DEF Offset
<1> QED
  BY <1>2, <1>3, <1>4

\* A message accepted is posted on the bus.
LEMMA SendPosts ==
  ASSUME RingInOrder, NEW dest \in Dest, Send(dest)
  PROVE  Bus!Post(g_module_id, dest)
<1>1. TypeOK
  BY DEF RingInOrder
<1>2. /\ Used' = Used \union {g_msg_head} /\ g_msg_head \notin Used
      /\ g_msg_head \in Slot /\ Used \subseteq Slot
  BY <1>1, SendGrows DEF TypeOK, Used
<1>3. /\ g_msg_queue'[g_msg_head] = [sender_id |-> g_module_id, dest_id |-> dest,
                                     valid |-> TRUE, n |-> posted]
      /\ \A i \in Used : g_msg_queue'[i] = g_msg_queue[i]
      /\ posted' = posted + 1
  BY <1>1, <1>2 DEF Send, TypeOK
<1>4. Unread' = Unread \union {g_msg_head} /\ g_msg_head \notin Unread
  BY <1>2, <1>3 DEF Unread
<1>5. LetterOf(g_msg_head)' = [n |-> g_msg_queue'[g_msg_head'].n,
                               from |-> g_msg_queue'[g_msg_head'].sender_id,
                               to |-> g_msg_queue'[g_msg_head'].dest_id]
  BY DEF LetterOf
<1>6. \A i \in Unread : LetterOf(i)' = LetterOf(i)
  BY <1>3 DEF LetterOf, Unread
<1>7. \A i : i = g_msg_head =>
        LetterOf(i)' = [n |-> posted, from |-> g_module_id, to |-> dest]
  BY <1>3 DEF LetterOf
<1>8. Letters' = Letters \union {[n |-> posted, from |-> g_module_id, to |-> dest]}
  <2>1. Letters' = {LetterOf(i)' : i \in Unread'}
    BY DEF Letters
  <2> QED
    BY <1>4, <1>6, <1>7, <2>1 DEF Letters
<1> QED
  BY <1>3, <1>8 DEF Letters, Bus!Post

\* A message read is the oldest letter for its reader.
LEMMA ReadTakes ==
  ASSUME RingInOrder, NEW r \in Slot, Read(r)
  PROVE  \E letter \in Letters : Bus!Take(g_module_id, letter)
<1>1. TypeOK /\ r \in Unread /\ Deliverable(r)
  BY DEF RingInOrder, Read, IsFirst
<1>2. \A i \in Slot \ {r} : g_msg_queue'[i] = g_msg_queue[i]
  BY <1>1 DEF Read, TypeOK
<1>3. ~g_msg_queue'[r].valid /\ posted' = posted
  BY <1>1 DEF Read, TypeOK, Message
<1>4. Unread' = Unread \ {r}
  <2>1. \A i \in Slot : i \in Used' <=>
          Offset(g_msg_tail') <= Offset(i) /\ Offset(i) < Offset(g_msg_head)
    BY <1>1, ReadReclaims
  <2>2. \A i \in Unread \ {r} : Offset(g_msg_tail') <= Offset(i)
    BY <1>1, ReadReclaims
  <2>3. \A i \in Slot : i \in Unread' <=> i \in Unread /\ i # r
    BY <1>2, <1>3, <2>1, <2>2 DEF Unread, Used
  <2>4. Unread' \subseteq Slot /\ Unread \subseteq Slot
    BY DEF Unread, Used, Slot
  <2> QED
    BY <2>3, <2>4
<1>5. \A i \in Unread \ {r} : LetterOf(i)' = LetterOf(i)
  BY <1>2 DEF LetterOf, Unread, Used
<1>6. \A i, j \in Unread : LetterOf(i) = LetterOf(j) => i = j
  BY NumbersDiffer DEF LetterOf, Unread
<1>7. Letters' = Letters \ {LetterOf(r)}
  <2>1. Letters' = {LetterOf(i)' : i \in Unread'}
    BY DEF Letters
  <2>2. Letters' = {LetterOf(i) : i \in Unread \ {r}}
    BY <1>4, <1>5, <2>1
  <2> QED
    BY <1>1, <1>6, <2>2 DEF Letters
<1>8. LetterOf(r) \in Letters
  BY <1>1 DEF Letters
<1>9. Bus!Reaches(LetterOf(r), g_module_id)
  BY <1>1 DEF Deliverable, LetterOf, Bus!Reaches
<1>10. ASSUME NEW other \in Letters, Bus!Reaches(other, g_module_id)
       PROVE  LetterOf(r).n <= other.n
  <2>1. PICK j \in Unread : other = LetterOf(j)
    BY DEF Letters
  <2>2. Deliverable(j)
    BY <1>10, <2>1 DEF Deliverable, LetterOf, Bus!Reaches
  <2>3. Offset(r) <= Offset(j)
    BY <2>2 DEF Read, IsFirst
  <2>4. r \in Used /\ j \in Used
    BY <1>1 DEF Unread
  <2>5. g_msg_queue[r].n <= g_msg_queue[j].n
    BY <2>3, <2>4, NumbersDiffer
  <2> QED
    BY <2>1, <2>5 DEF LetterOf
<1>11. Bus!Take(g_module_id, LetterOf(r))
  BY <1>3, <1>7, <1>8, <1>9, <1>10 DEF Bus!Take, Letters
<1> QED
  BY <1>8, <1>11

(***************************************************************************)
(* Every message accepted is delivered once, to a module it is addressed   *)
(* to, and in the order sent.                                              *)
(***************************************************************************)
THEOREM RingImplementsBus == Spec => BusImplemented
<1>1. Init => Bus!Init
  <2> SUFFICES ASSUME Init
               PROVE  Bus!Init
    OBVIOUS
  <2>1. \A i \in Slot : ~g_msg_queue[i].valid
    BY DEF Init, Cleared
  <2>2. Unread = {}
    BY <2>1 DEF Unread, Used
  <2> QED
    BY <2>2 DEF Init, Bus!Init
<1>2. RingInOrder /\ [Next]_vars => [Bus!Next]_<<Letters, posted>>
  <2> SUFFICES ASSUME RingInOrder, [Next]_vars
               PROVE  [Bus!Next]_<<Letters, posted>>
    OBVIOUS
  <2>1. g_module_id \in Module
    BY DEF RingInOrder, TypeOK
  <2>2. ASSUME NEW dest \in Dest, Send(dest)
        PROVE  Bus!Next
    BY <2>1, <2>2, SendPosts DEF Bus!Next
  <2>3. ASSUME NEW m \in Module, Receive(m)
        PROVE  Bus!Next
    <3>1. PICK r \in Slot : Read(r)
      BY <2>3 DEF Receive
    <3>2. \E letter \in Letters : Bus!Take(g_module_id, letter)
      BY <3>1, ReadTakes
    <3> QED
      BY <2>1, <3>2 DEF Bus!Next, Letters
  <2>4. ASSUME UNCHANGED <<g_msg_queue, g_msg_head, g_msg_tail, posted>>
        PROVE  UNCHANGED <<Letters, posted>>
    BY <2>4 DEF Letters, LetterOf, Unread, Used, Offset
  <2>5. CASE UNCHANGED vars
    BY <2>4, <2>5 DEF vars
  <2>6. CASE ReceiveFails \/ SetRecvErrorOnce \/ \E m \in Module : SetModuleId(m)
    BY <2>4, <2>6 DEF ReceiveFails, SetRecvErrorOnce, SetModuleId
  <2> QED
    BY <2>2, <2>3, <2>5, <2>6 DEF Next
<1>3. Bus!Spec <=> Bus!Init /\ [][Bus!Next]_<<Letters, posted>>
  BY PTL DEF Bus!Spec, Letters
<1> QED
  BY <1>1, <1>2, <1>3, RingInOrderInvariant, PTL DEF Spec, BusImplemented
=============================================================================
