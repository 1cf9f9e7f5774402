---------------------------- MODULE FifoChannel ----------------------------
(***************************************************************************)
(* What a MessageQueue promises, without memory, links or counters: items  *)
(* are put in order, become visible to the reader all at once when they    *)
(* are published, and are taken one by one in the order they were put.     *)
(* Items are named by their rank; item 1 is the sentinel.                  *)
(***************************************************************************)
EXTENDS Naturals, Sequences

VARIABLES
  placed,    \* how many items have been put
  pending,   \* items put and not published
  unread,    \* items published and not taken
  taken      \* the item taken last

channel == <<placed, pending, unread, taken>>

Init == placed = 1 /\ pending = <<>> /\ unread = <<>> /\ taken = 1

Batch(n) == [k \in 1..n |-> placed + k]

(* One item is put, or two when the writer changes chunks.                 *)
Put(n) ==
  /\ placed' = placed + n
  /\ pending' = pending \o Batch(n)
  /\ UNCHANGED <<unread, taken>>

Publish ==
  /\ unread' = unread \o pending
  /\ pending' = <<>>
  /\ UNCHANGED <<placed, taken>>

Take ==
  /\ unread # <<>>
  /\ taken' = Head(unread)
  /\ unread' = Tail(unread)
  /\ UNCHANGED <<placed, pending>>

(* A lone thread puts, publishes and takes two items in one go.            *)
Through ==
  /\ pending = <<>> /\ unread = <<>>
  /\ placed' = placed + 2
  /\ taken' = placed'
  /\ UNCHANGED <<pending, unread>>

Next == Put(1) \/ Put(2) \/ Publish \/ Take \/ Through

Spec == Init /\ [][Next]_channel
=============================================================================
