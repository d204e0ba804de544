---------------------------- MODULE RefreshQueue ----------------------------
(***************************************************************************)
(* The circular buffer of src/db/storage/queue.rs.  A mutex covers each    *)
(* method, so a method is one step.  One slot of the buffer is always kept *)
(* free, to tell full from empty: a queue of size n holds n - 1 keys.  The *)
(* storage's refresh queues (rq in Storage.tla) are queues of this kind    *)
(* with QueueCap = Size - 1.                                               *)
(***************************************************************************)
EXTENDS ShardKeys, Integers, Sequences

CONSTANT
  Size   \* buf.len(), at least 2 (new takes size.max(2))

Slots == 0..(Size - 1)

ASSUME QueueConstants == Keys # {} /\ Size \in Nat /\ Size >= 2

VARIABLES
  buf,   \* slot -> key
  head,  \* the slot the next push writes
  tail,  \* the slot the next pop reads
  last   \* what the last call returned

queueVars == <<buf, head, tail, last>>

\* A new buffer holds zeros, some key that nobody has pushed.
QueueInit ==
  /\ buf \in [Slots -> {CHOOSE k \in Keys : TRUE}]
  /\ head = 0
  /\ tail = 0
  /\ last = "none"

\* Advance by one slot, around the end.
Succ_Flat(i) == IF i = Size THEN 0 ELSE i + 1
Succ(i) == (i + 1) % Size

\* The slot before the tail is never filled.
Full_Never(h) == FALSE
Full(h) == Succ(h) = tail

TryPush(k) ==
  IF Full(head)
  THEN last' = "full" /\ UNCHANGED <<buf, head, tail>>
  ELSE /\ buf' = [buf EXCEPT ![head] = k]
       /\ head' = Succ(head)
       /\ last' = "pushed"
       /\ UNCHANGED tail

TryPop ==
  IF head = tail
  THEN last' = "empty" /\ UNCHANGED <<buf, head, tail>>
  ELSE /\ last' = buf[tail]
       /\ tail' = Succ(tail)
       /\ UNCHANGED <<buf, head>>

QueueNext == (\E k \in Keys : TryPush(k)) \/ TryPop

QueueSpec == QueueInit /\ [][QueueNext]_queueVars

-----------------------------------------------------------------------------
(* Properties *)

\* The number of keys queued, and the i-th oldest of them.
Held == IF head >= tail THEN head - tail ELSE head + Size - tail
SlotOf(i) == IF tail + i - 1 < Size THEN tail + i - 1 ELSE tail + i - 1 - Size
Content == [i \in 1..Held |-> buf[SlotOf(i)]]

\* Types; head and tail stay inside the buffer when they go around its end.
QueueTypeOK ==
  /\ buf \in [Slots -> Keys]
  /\ head \in Slots
  /\ tail \in Slots

\* The buffer is a first-in first-out queue of Size - 1 keys: try_push fails
\* only when that many are queued, and try_pop returns the oldest one, also
\* after head and tail have gone around the end of the buffer.
Fifo == INSTANCE FifoSpec WITH q <- Content, Cap <- Size - 1
ImplementsFifo == Fifo!Spec
=============================================================================
