------------------------ MODULE MessageQueueChannel ------------------------
(***************************************************************************)
(* The linked chunks of a MessageQueue implement a FifoChannel.  The       *)
(* channel's items are what Message::_next leads to, starting behind the   *)
(* reader's last message: as many hops as the reader's difference of       *)
(* counters says are published, and as many again as the writer has        *)
(* pending.                                                                *)
(***************************************************************************)
EXTENDS MessageQueue, Sequences

(* The k-th unread message: where the one before it links to.              *)
Hop(k) == link[IF k = 1 THEN rLast ELSE where[read + k - 1]]

(* The ranks of the messages behind the first hops, n of them.             *)
Walk(first, n) == [k \in 1..n |-> msg[Hop(first + k)].id]

Unread == rNew + Minus(written, rSnap)

Channel == INSTANCE FifoChannel WITH
  placed <- sent,
  unread <- Walk(0, Unread),
  pending <- Walk(Unread, wPending),
  taken <- msg[rLast].id

(* The queue is a FIFO channel: a message is executed in its turn, never   *)
(* before pushMessages has published it, never twice, and no switch of     *)
(* chunks, argument block or wrapped counter loses or reorders one.        *)
ImplementsChannel == Channel!Spec
=============================================================================
