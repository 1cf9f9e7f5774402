------------------------- MODULE DeviceAgentProofs --------------------------
(***************************************************************************)
(* The safety of DeviceAgent for any number of buffers, command buffers,   *)
(* frames and frames ahead: the invariant says what the main queue has to  *)
(* do before the device thread comes to a flush or an update.              *)
(***************************************************************************)
EXTENDS DeviceAgent, Integers, TLAPS

-----------------------------------------------------------------------------
(* The messages of the main queue and of the command queues.               *)

UpdateMsg == [kind : {"Update"}, buffer : Buffers, store : Stores, slot : Slots,
              frame : Nat, flush : Nat]
PlainMsg == [kind : {"Command", "Finish", "Free"}, flush : Nat]
CmdMsg == UpdateMsg \cup PlainMsg

FlushOf(cs) ==
  [kind : {"Flush"}, cmdBuffs : {cs}, number : [{cs[i] : i \in DOMAIN cs} -> Nat]]
FlushMsg == UNION {FlushOf(cs) : cs \in FlushLists}
LifeMsg == [kind : {"Init", "Destroy"}, cmdBuff : CmdBuffs]
StagingMsg == [kind : {"FreeStaging"}, buffer : Buffers, store : Stores]
PresentMsg == [kind : {"Present"}, frame : Nat]
BareMsg == [kind : {"Wait", "Copy", "DeviceDestroy", "Terminate"}]
MainMsg ==
  CmdMsg \cup FlushMsg \cup LifeMsg \cup StagingMsg \cup PresentMsg \cup BareMsg

U == queue[main].unread
Q(c) == queue[c].unread

(* Every variable has its type, the messages have theirs, and the positions*)
(* of gThen that gTodo still holds are those of a suffix of its list.      *)
QueueTypes ==
  /\ queue \in [Queues -> [unread : Seq(MainMsg), visible : Nat]]
  /\ \A c \in Queues : queue[c].visible <= Len(Q(c))
  /\ \A c \in CmdBuffs : Q(c) \in Seq(CmdMsg)
InTodo(c) == \E i \in DOMAIN gTodo : gTodo[i] = c
Types ==
  /\ QueueTypes
  /\ currentIndex \in Slots /\ semaphore \in Nat
  /\ store \in [Buffers -> Stores \cup {Gone}]
  /\ staging \in [Buffers -> [Stores -> [Slots -> Nat]]]
  /\ agent \in [CmdBuffs -> {"new", "live", "deleted"}]
  /\ actor \in [CmdBuffs -> {"new", "ready", "destroyed"}]
  /\ flushes \in [CmdBuffs -> Nat]
  /\ gPc \in {"record", "flush", "present", "boundary", "wait", "join", "gone"}
  /\ gTodo \in Seq(CmdBuffs)
  /\ gThen \in FlushMsg \cup LifeMsg \cup [kind : {"record", "Terminate"}]
  /\ event \in BOOLEAN
  /\ dPc \in {"main", "flush", "exited"} /\ todo \subseteq Nat
  /\ frame \in Nat /\ presented \in Nat /\ calls \in 0..MaxCalls

(* What the threads are in the middle of.                                  *)
Middle ==
  /\ gPc = "flush" =>
       /\ gThen \in FlushMsg
       /\ \A i \in DOMAIN gTodo : gTodo[i] \in DOMAIN gThen.number
       /\ \A i, j \in DOMAIN gTodo : gTodo[i] = gTodo[j] => i = j
  /\ gPc = "wait" => gThen.kind # "Flush"
  /\ dPc = "flush" =>
       /\ queue[main].visible > 0 /\ U[1].kind = "Flush"
       /\ todo \subseteq DOMAIN U[1].cmdBuffs

-----------------------------------------------------------------------------
(* 1. Frames: the semaphore counts what may still be presented ahead, and  *)
(* the present messages that wait are those of the frames in between.      *)
Ended == gPc \in {"present", "boundary"}
FrameCount ==
  /\ semaphore + frame = MAX_CPU_FRAME_AHEAD + presented
  /\ presented <= frame + 1 /\ (presented > frame => Ended)
  /\ currentIndex = (IF gPc = "boundary" THEN frame + 1 ELSE frame) % MAX_FRAME_INDEX
PresentsWait ==
  \A i \in DOMAIN U : U[i].kind = "Present" =>
    /\ presented <= U[i].frame /\ U[i].frame <= frame
    /\ U[i].frame = frame => Ended
    /\ \A j \in DOMAIN U : i < j /\ U[j].kind = "Present" => U[i].frame < U[j].frame
Frames == FrameCount /\ PresentsWait

(* 2. Flushes: a main queue message for each flush that a command queue    *)
(* still has a finish message for, in the same order.                      *)
Lists(i, c) == U[i].kind = "Flush" /\ c \in DOMAIN U[i].number
Flushing(c) == gPc = "flush" /\ c \in DOMAIN gThen.number
UnderWay(c) == dPc = "flush" /\ \A j \in todo : U[1].cmdBuffs[j] # c
FinishFor(c, n) == \E p \in DOMAIN Q(c) : Q(c)[p].kind = "Finish" /\ Q(c)[p].flush = n

Numbers ==
  \A c \in CmdBuffs :
    /\ \A i \in DOMAIN U : Lists(i, c) =>
         /\ U[i].number[c] <= flushes[c]
         /\ Flushing(c) => U[i].number[c] < gThen.number[c]
         /\ \A j \in DOMAIN U : i < j /\ Lists(j, c) => U[i].number[c] < U[j].number[c]
    /\ Flushing(c) =>
         gThen.number[c] = IF InTodo(c) THEN flushes[c] + 1 ELSE flushes[c]

Order(c) ==
  \A p \in DOMAIN Q(c) :
    /\ Q(c)[p].flush <= flushes[c] + 1
    /\ Q(c)[p].kind = "Finish" => Q(c)[p].flush <= flushes[c]
    /\ Q(c)[p].flush <= flushes[c] <=> p <= queue[c].visible
    /\ \A q \in DOMAIN Q(c) : p < q =>
         /\ Q(c)[p].flush <= Q(c)[q].flush
         /\ Q(c)[p].kind = "Finish" => Q(c)[p].flush < Q(c)[q].flush

Carried(c) ==
  /\ \A p \in DOMAIN Q(c) : Q(c)[p].flush <= flushes[c] =>
       \/ Flushing(c) /\ gThen.number[c] = Q(c)[p].flush
       \/ \E i \in DOMAIN U : Lists(i, c) /\ U[i].number[c] = Q(c)[p].flush
  /\ \A i \in DOMAIN U : Lists(i, c) /\ ~(i = 1 /\ UnderWay(c)) => FinishFor(c, U[i].number[c])
  /\ Flushing(c) /\ ~InTodo(c) => FinishFor(c, gThen.number[c])
  /\ UnderWay(c) /\ Lists(1, c) => \A p \in DOMAIN Q(c) : Q(c)[p].flush > U[1].number[c]

Flushes == Numbers /\ \A c \in CmdBuffs : Order(c) /\ Carried(c)

(* 3. Staging: an update finds its data, and no present or free message    *)
(* before it in the main queue may take them from it.                      *)
Sound(m) ==
  /\ presented <= m.frame /\ m.frame <= frame /\ m.slot = m.frame % MAX_FRAME_INDEX
  /\ staging[m.buffer][m.store][m.slot] = m.frame
Ahead(i, m) ==
  \A k \in DOMAIN U : k < i =>
    /\ U[k].kind = "Present" => U[k].frame < m.frame
    /\ U[k].kind = "FreeStaging" => U[k].buffer # m.buffer \/ U[k].store # m.store
Waiting(c, m) == m.flush > flushes[c] \/ (Flushing(c) /\ gThen.number[c] = m.flush)

Freeing == \A i \in DOMAIN U : U[i].kind = "FreeStaging" => U[i].store < store[U[i].buffer]
MainUpdates == \A i \in DOMAIN U : U[i].kind = "Update" => Sound(U[i]) /\ Ahead(i, U[i])
CmdUpdate(c, m) ==
  /\ Sound(m)
  /\ \A i \in DOMAIN U : Lists(i, c) /\ U[i].number[c] = m.flush => Ahead(i, m)
  /\ Waiting(c, m) => ~Ended /\ m.frame = frame /\ m.store = store[m.buffer]
CmdUpdates ==
  \A c \in CmdBuffs : agent[c] = "live" =>
    \A p \in DOMAIN Q(c) : Q(c)[p].kind = "Update" => CmdUpdate(c, Q(c)[p])

Staging == Freeing /\ MainUpdates /\ CmdUpdates

(* 4. Lives: who waits for the device thread finds the main queue empty.   *)
Waits ==
  /\ \A i \in DOMAIN U : U[i].kind = "Wait" => gPc = "wait" /\ ~event /\ i = Len(U)
  /\ \A i \in DOMAIN U : U[i].kind = "Terminate" => gPc \in {"join", "gone"}
  /\ gPc = "wait" => IF event THEN U = <<>> ELSE U # <<>> /\ U[Len(U)].kind = "Wait"
Living(c) ==
  /\ \A i \in DOMAIN U : Lists(i, c) => agent[c] = "live"
  /\ Flushing(c) => agent[c] = "live"
  /\ \A i \in DOMAIN U : U[i].kind = "Destroy" /\ U[i].cmdBuff = c => agent[c] = "deleted"
  /\ agent[c] = "live" =>
       \/ actor[c] = "ready"
       \/ \E i \in DOMAIN U : /\ U[i].kind = "Init" /\ U[i].cmdBuff = c
                              /\ \A j \in DOMAIN U : Lists(j, c) => i < j
  /\ agent[c] = "new" => Q(c) = <<>>
  /\ agent[c] = "deleted" => queue[c].visible = 0
Lives == \A c \in CmdBuffs : Living(c)

IInv == Types /\ Middle /\ Frames /\ Flushes /\ Staging /\ Waits /\ Lives

-----------------------------------------------------------------------------
(* Remainders, by which the unsigned counters are modelled.               *)

(* A number is its remainder when it lies in the range of remainders.      *)
LEMMA ModUnique ==
  ASSUME NEW m \in Nat \ {0}, NEW q \in Int, NEW r \in 0..(m - 1), NEW a \in Int,
         a = m * q + r
  PROVE  a % m = r
  BY SMTT(30)

(* Every number has a quotient and a remainder.                            *)
LEMMA ModSplit ==
  ASSUME NEW m \in Nat \ {0}, NEW a \in Int
  PROVE  \E q \in Int, r \in 0..(m - 1) : a = m * q + r /\ a % m = r
<1>1. a = m * (a \div m) + (a % m) /\ (a \div m) \in Int
  BY SMTT(30)
<1>2. a % m \in 0..(m - 1)
  BY SMTT(30)
<1>3. QED
  BY <1>1, <1>2

(* Counting on a wrapped counter wraps the count.                          *)
LEMMA ModAdd ==
  ASSUME NEW m \in Nat \ {0}, NEW a \in Int, NEW b \in Int
  PROVE  ((a % m) + b) % m = (a + b) % m
<1>1. PICK q \in Int, r \in 0..(m - 1) : a = m * q + r /\ a % m = r
  BY ModSplit
<1>2. r + b \in Int
  OBVIOUS
<1>3. PICK p \in Int, t \in 0..(m - 1) : r + b = m * p + t /\ (r + b) % m = t
  BY <1>2, ModSplit
<1>4. m * (q + p) = m * q + m * p /\ m * q \in Int /\ m * p \in Int
  OBVIOUS
<1>5. PICK x \in Int, y \in Int : x = q + p /\ y = a + b
  OBVIOUS
<1>6. y % m = t
  <2>1. y = m * x + t
    BY <1>1, <1>3, <1>4, <1>5
  <2>2. m \in Nat \ {0} /\ x \in Int /\ t \in 0..(m - 1) /\ y \in Int
    BY <1>3, <1>5
  <2>3. \A k \in Int, u \in 0..(m - 1), z \in Int : z = m * k + u => z % m = u
    BY ModUnique
  <2>4. QED
    BY <2>1, <2>2, <2>3
<1>7. QED
  BY <1>1, <1>3, <1>5, <1>6

(* The wrapped difference of two counters is their distance.               *)
LEMMA ModDistance ==
  ASSUME NEW m \in Nat \ {0}, NEW a \in Int, NEW b \in Int, b <= a, a - b < m
  PROVE  ((a % m) - (b % m)) % m = a - b
<1>1. PICK q \in Int, r \in 0..(m - 1) : a = m * q + r /\ a % m = r
  BY ModSplit
<1>2. PICK p \in Int, t \in 0..(m - 1) : b = m * p + t /\ b % m = t
  BY ModSplit
<1>3. m * (p - q) = m * p - m * q /\ m * q \in Int /\ m * p \in Int
  OBVIOUS
<1>4. r - t = m * (p - q) + (a - b)
  BY <1>1, <1>2, <1>3
<1>5. r - t \in Int /\ p - q \in Int /\ a - b \in 0..(m - 1)
  OBVIOUS
<1>6. (r - t) % m = a - b
  BY <1>4, <1>5, ModUnique
<1>7. QED
  BY <1>1, <1>2, <1>6

(* A number that is not beyond one modulus away from zero is its own       *)
(* remainder, or its remainder less the modulus.                           *)
LEMMA ModNear ==
  ASSUME NEW m \in Nat \ {0}, NEW a \in Int, -m <= a, a < m
  PROVE  a % m = IF a >= 0 THEN a ELSE m + a
<1>1. CASE a >= 0
  <2>1. a \in 0..(m - 1) /\ a = m * 0 + a /\ 0 \in Int
    BY <1>1
  <2>2. a % m = a
    BY <2>1, ModUnique
  <2>3. QED
    BY <1>1, <2>2
<1>2. CASE a < 0
  <2>1. m + a \in 0..(m - 1) /\ a = m * (-1) + (m + a) /\ -1 \in Int
    BY <1>2
  <2>2. a % m = m + a
    BY <2>1, ModUnique
  <2>3. QED
    BY <1>2, <2>2
<1>3. QED
  BY <1>1, <1>2

-----------------------------------------------------------------------------
(* Queues.                                                                 *)

LEMMA Appended ==
  ASSUME NEW S, NEW s \in Seq(S), NEW m \in S
  PROVE  LET t == s \o <<m>>
         IN  /\ t \in Seq(S) /\ Len(t) = Len(s) + 1 /\ t[Len(s) + 1] = m
             /\ DOMAIN s = 1..Len(s) /\ DOMAIN t = 1..(Len(s) + 1)
             /\ \A i \in DOMAIN s : t[i] = s[i]
OBVIOUS

LEMMA AppendedTwo ==
  ASSUME NEW S, NEW s \in Seq(S), NEW m \in S, NEW n \in S
  PROVE  LET t == s \o <<m, n>>
         IN  /\ t \in Seq(S) /\ Len(t) = Len(s) + 2
             /\ t[Len(s) + 1] = m /\ t[Len(s) + 2] = n
             /\ DOMAIN s = 1..Len(s) /\ DOMAIN t = 1..(Len(s) + 2)
             /\ \A i \in DOMAIN s : t[i] = s[i]
OBVIOUS

LEMMA Dropped ==
  ASSUME NEW S, NEW s \in Seq(S), Len(s) > 0
  PROVE  /\ Tail(s) \in Seq(S) /\ Len(Tail(s)) = Len(s) - 1
         /\ Head(s) = s[1] /\ s[1] \in S
         /\ DOMAIN s = 1..Len(s) /\ DOMAIN Tail(s) = 1..(Len(s) - 1)
         /\ \A i \in DOMAIN Tail(s) : Tail(s)[i] = s[i + 1]
OBVIOUS

LEMMA Pair ==
  ASSUME NEW S, NEW m \in S, NEW n \in S
  PROVE  <<m>> \o <<n>> = <<m, n>>
<1> DEFINE t == <<m>> \o <<n>>
<1>1. <<m>> \in Seq(S) /\ Len(<<m>>) = 1 /\ <<m>>[1] = m
  OBVIOUS
<1>2. t \in Seq(S) /\ Len(t) = 2 /\ t[2] = n /\ t[1] = m
  BY <1>1, Appended
<1> HIDE DEF t
<1>3. t = <<m, n>>
  BY <1>2
<1>4. QED
  BY <1>3 DEF t

(* What a put of n messages and a take leave of a queue.                   *)
Others(q) == \A c \in Queues : c # q => queue'[c] = queue[c]
Longer(q, n) ==
  /\ Len(Q(q)) \in Nat /\ DOMAIN Q(q) = 1..Len(Q(q))
  /\ Len(Q(q)') = Len(Q(q)) + n /\ DOMAIN Q(q)' = 1..(Len(Q(q)) + n)
  /\ \A i \in DOMAIN Q(q) : Q(q)'[i] = Q(q)[i]
Shorter(q) ==
  /\ Len(Q(q)) \in Nat \ {0} /\ DOMAIN Q(q) = 1..Len(Q(q))
  /\ Len(Q(q)') = Len(Q(q)) - 1 /\ DOMAIN Q(q)' = 1..(Len(Q(q)) - 1)
  /\ \A i \in DOMAIN Q(q)' : Q(q)'[i] = Q(q)[i + 1]

MsgOf(q) == IF q = main THEN MainMsg ELSE CmdMsg

LEMMA QueueFacts ==
  ASSUME QueueTypes, NEW q \in Queues
  PROVE  /\ Q(q) \in Seq(MsgOf(q)) /\ Q(q) \in Seq(MainMsg) /\ queue[q].visible \in 0..Len(Q(q))
         /\ MsgOf(q) \subseteq MainMsg
         /\ queue[q] \in [unread : Seq(MainMsg), visible : Nat]
BY CmdBuffAssumption DEF QueueTypes, Q, MsgOf, Queues, MainMsg

LEMMA Fields ==
  ASSUME NEW A, NEW r \in [unread : A, visible : Nat], NEW t, NEW v
  PROVE  /\ [r EXCEPT !.unread = t] = [unread |-> t, visible |-> r.visible]
         /\ [[unread |-> t, visible |-> r.visible] EXCEPT !.visible = v] = [unread |-> t, visible |-> v]
OBVIOUS

LEMMA Records ==
  ASSUME NEW A, NEW r \in [unread : A, visible : Nat], NEW ms
  PROVE  /\ Enqueue(r, ms) = [unread |-> r.unread \o ms, visible |-> r.visible]
         /\ Kick(Enqueue(r, ms)) = [unread |-> r.unread \o ms, visible |-> Len(r.unread \o ms)]
<1> DEFINE t == r.unread \o ms
<1>1. Enqueue(r, ms) = [unread |-> t, visible |-> r.visible]
  BY Fields DEF Enqueue
<1>2. Kick(Enqueue(r, ms)) = [unread |-> t, visible |-> Len(t)]
  <2> DEFINE e == Enqueue(r, ms)
  <2>1. e = [unread |-> t, visible |-> r.visible] /\ e.unread = t
    BY <1>1
  <2>2. Kick(e) = [e EXCEPT !.visible = Len(e.unread)]
    BY DEF Kick
  <2> HIDE DEF e, t
  <2>3. Kick(e) = [[unread |-> t, visible |-> r.visible] EXCEPT !.visible = Len(t)]
    BY <2>1, <2>2
  <2>4. Kick(e) = [unread |-> t, visible |-> Len(t)]
    BY <2>3, Fields
  <2>5. QED
    BY <2>4 DEF e
<1>3. QED
  BY <1>1, <1>2

LEMMA Replaced ==
  ASSUME QueueTypes, NEW q \in Queues, NEW t \in Seq(MsgOf(q)), NEW v \in 0..Len(t),
         queue' = [queue EXCEPT ![q] = [unread |-> t, visible |-> v]]
  PROVE  /\ QueueTypes' /\ Others(q) /\ Q(q)' = t /\ queue'[q].visible = v
<1>1. t \in Seq(MainMsg)
  BY QueueFacts
<1>2. /\ Others(q) /\ Q(q)' = t /\ queue'[q].visible = v
      /\ DOMAIN queue' = Queues /\ queue' = [c \in Queues |-> queue'[c]]
      /\ queue'[q] = [unread |-> t, visible |-> v]
  BY DEF QueueTypes, Others, Q
<1>3. queue' \in [Queues -> [unread : Seq(MainMsg), visible : Nat]]
  <2>1. v \in Nat
    OBVIOUS
  <2>2. [unread |-> t, visible |-> v] \in [unread : Seq(MainMsg), visible : Nat]
    BY <1>1, <2>1
  <2>3. \A c \in Queues : queue'[c] \in [unread : Seq(MainMsg), visible : Nat]
    BY <2>2, <1>2, QueueFacts DEF Others
  <2>4. QED
    BY <2>3, <1>2
<1>4. \A c \in Queues : queue'[c].visible <= Len(Q(c)')
  BY <1>2 DEF QueueTypes, Others, Q
<1>5. ASSUME NEW c \in CmdBuffs PROVE Q(c)' \in Seq(CmdMsg)
  BY <1>2, CmdBuffAssumption DEF QueueTypes, Others, Q, MsgOf, Queues
<1>6. QED
  BY <1>2, <1>3, <1>4, <1>5 DEF QueueTypes

LEMMA PutOne ==
  ASSUME QueueTypes, NEW q \in Queues, NEW m \in MsgOf(q),
         \/ queue' = [queue EXCEPT ![q] = Enqueue(@, <<m>>)]
         \/ queue' = [queue EXCEPT ![q] = Kick(Enqueue(@, <<m>>))]
  PROVE  /\ QueueTypes' /\ Others(q) /\ Longer(q, 1) /\ Q(q)'[Len(Q(q)) + 1] = m
         /\ queue'[q].visible \in {queue[q].visible, Len(Q(q)) + 1}
<1> DEFINE t == Q(q) \o <<m>>
<1>1. /\ t \in Seq(MsgOf(q)) /\ Len(t) = Len(Q(q)) + 1 /\ t[Len(Q(q)) + 1] = m
      /\ DOMAIN Q(q) = 1..Len(Q(q)) /\ DOMAIN t = 1..(Len(Q(q)) + 1)
      /\ \A i \in DOMAIN Q(q) : t[i] = Q(q)[i]
  BY QueueFacts, Appended
<1>2. PICK v \in {queue[q].visible, Len(t)} :
         queue' = [queue EXCEPT ![q] = [unread |-> t, visible |-> v]]
  BY QueueFacts DEF QueueTypes, Enqueue, Kick, Q
<1>3. v \in 0..Len(t)
  BY <1>1, <1>2, QueueFacts
<1>4. QueueTypes' /\ Others(q) /\ Q(q)' = t /\ queue'[q].visible = v
  BY <1>1, <1>2, <1>3, Replaced
<1>5. QED
  BY <1>1, <1>2, <1>4, QueueFacts DEF Longer

LEMMA PutTwo ==
  ASSUME QueueTypes, NEW q \in Queues, NEW m \in MsgOf(q), NEW n \in MsgOf(q),
         queue' = [queue EXCEPT ![q] = Kick(Enqueue(@, <<m, n>>))]
  PROVE  /\ QueueTypes' /\ Others(q) /\ Longer(q, 2)
         /\ Q(q)'[Len(Q(q)) + 1] = m /\ Q(q)'[Len(Q(q)) + 2] = n
         /\ queue'[q].visible = Len(Q(q)) + 2
<1> DEFINE t == Q(q) \o <<m, n>>
<1>1. /\ t \in Seq(MsgOf(q)) /\ Len(t) = Len(Q(q)) + 2
      /\ t[Len(Q(q)) + 1] = m /\ t[Len(Q(q)) + 2] = n
      /\ DOMAIN Q(q) = 1..Len(Q(q)) /\ DOMAIN t = 1..(Len(Q(q)) + 2)
      /\ \A i \in DOMAIN Q(q) : t[i] = Q(q)[i]
  BY QueueFacts, AppendedTwo
<1>2. queue' = [queue EXCEPT ![q] = [unread |-> t, visible |-> Len(t)]]
  <2>1. Kick(Enqueue(queue[q], <<m, n>>)) = [unread |-> t, visible |-> Len(t)]
    BY QueueFacts, Records DEF Q
  <2>2. QED
    BY <2>1 DEF QueueTypes
<1>3. Len(t) \in 0..Len(t)
  BY <1>1, QueueFacts
<1>4. QueueTypes' /\ Others(q) /\ Q(q)' = t /\ queue'[q].visible = Len(t)
  <2>1. t \in Seq(MsgOf(q))
    BY <1>1
  <2>2. QED
    BY <1>2, <1>3, <2>1, Replaced
<1>5. QED
  BY <1>1, <1>4, QueueFacts DEF Longer

LEMMA TakeOne ==
  ASSUME QueueTypes, NEW q \in Queues, HasNewMessage(q), Take(q)
  PROVE  /\ QueueTypes' /\ Others(q) /\ Shorter(q)
         /\ Message(q) = Q(q)[1] /\ Q(q)[1] \in MsgOf(q)
         /\ queue'[q].visible = queue[q].visible - 1
<1> DEFINE t == Tail(Q(q))
<1> DEFINE v == queue[q].visible - 1
<1>1. Len(Q(q)) > 0 /\ queue[q].visible \in Nat \ {0}
  BY QueueFacts DEF HasNewMessage
<1>2. /\ t \in Seq(MsgOf(q)) /\ Len(t) = Len(Q(q)) - 1
      /\ Head(Q(q)) = Q(q)[1] /\ Q(q)[1] \in MsgOf(q)
      /\ DOMAIN Q(q) = 1..Len(Q(q)) /\ DOMAIN t = 1..(Len(Q(q)) - 1)
      /\ \A i \in DOMAIN t : t[i] = Q(q)[i + 1]
  BY <1>1, QueueFacts, Dropped
<1>3. queue' = [queue EXCEPT ![q] = [unread |-> t, visible |-> v]]
  BY DEF Take, Dequeue, Q
<1>4. v \in 0..Len(t)
  BY <1>1, <1>2, QueueFacts
<1>5. QueueTypes' /\ Others(q) /\ Q(q)' = t /\ queue'[q].visible = v
  <2> HIDE DEF t, v
  <2> QED BY <1>2, <1>3, <1>4, Replaced
<1>6. QED
  BY <1>1, <1>2, <1>5, QueueFacts DEF Shorter, Message, Q

-----------------------------------------------------------------------------
(* Messages.                                                               *)

LEMMA FlushFacts ==
  ASSUME NEW m \in FlushMsg
  PROVE  /\ m.kind = "Flush" /\ m.cmdBuffs \in Seq(CmdBuffs)
         /\ DOMAIN m.number = {m.cmdBuffs[i] : i \in DOMAIN m.cmdBuffs}
         /\ DOMAIN m.number \subseteq CmdBuffs
         /\ \A c \in DOMAIN m.number : m.number[c] \in Nat
         /\ \A i, j \in DOMAIN m.cmdBuffs : m.cmdBuffs[i] = m.cmdBuffs[j] => i = j
         /\ DOMAIN m.cmdBuffs \subseteq Nat
<1>1. PICK cs \in FlushLists : m \in FlushOf(cs)
  BY DEF FlushMsg
<1>2. cs \in Seq(CmdBuffs) /\ \A i, j \in DOMAIN cs : cs[i] = cs[j] => i = j
  BY CmdBuffAssumption
<1>3. m.kind = "Flush" /\ m.cmdBuffs = cs /\ m.number \in [{cs[i] : i \in DOMAIN cs} -> Nat]
  BY <1>1 DEF FlushOf
<1>4. DOMAIN cs \subseteq Nat /\ \A i \in DOMAIN cs : cs[i] \in CmdBuffs
  BY <1>2
<1>5. QED
  BY <1>2, <1>3, <1>4

LEMMA KindFacts ==
  ASSUME NEW m \in MainMsg
  PROVE  /\ m.kind = "Update" => m \in UpdateMsg
         /\ m.kind = "Flush" => m \in FlushMsg
         /\ m.kind \in {"Init", "Destroy"} => m \in LifeMsg
         /\ m.kind = "FreeStaging" => m \in StagingMsg
         /\ m.kind = "Present" => m \in PresentMsg
         /\ m \in CmdMsg => m.flush \in Nat
         /\ m.kind \in Kinds
<1>1. /\ m \in UpdateMsg => m.kind = "Update" /\ m.flush \in Nat
      /\ m \in PlainMsg => m.kind \in {"Command", "Finish", "Free"} /\ m.flush \in Nat
  BY DEF UpdateMsg, PlainMsg
<1>2. m \in FlushMsg => m.kind = "Flush"
  BY FlushFacts
<1>3. /\ m \in LifeMsg => m.kind \in {"Init", "Destroy"}
      /\ m \in StagingMsg => m.kind = "FreeStaging"
      /\ m \in PresentMsg => m.kind = "Present"
      /\ m \in BareMsg => m.kind \in {"Wait", "Copy", "DeviceDestroy", "Terminate"}
  BY DEF LifeMsg, StagingMsg, PresentMsg, BareMsg
<1>4. QED
  BY <1>1, <1>2, <1>3 DEF MainMsg, CmdMsg, Kinds

LEMMA UpdateType ==
  ASSUME Types, NEW b \in Buffers, store[b] # Gone, NEW n \in Nat
  PROVE  Update(b, n) \in UpdateMsg /\ store[b] \in Stores
<1>1. store[b] \in Stores /\ currentIndex \in Slots /\ frame \in Nat
  BY DEF Types
<1>2. QED
  BY <1>1 DEF Update, UpdateMsg

LEMMA PlainTypes ==
  ASSUME NEW n \in Nat
  PROVE  Command(n) \in PlainMsg /\ Finish(n) \in PlainMsg /\ Free(n) \in PlainMsg
BY DEF Command, Finish, Free, PlainMsg

LEMMA BareTypes ==
  /\ Bare("Wait") \in BareMsg /\ Bare("Copy") \in BareMsg
  /\ Bare("DeviceDestroy") \in BareMsg /\ Bare("Terminate") \in BareMsg
BY DEF Bare, BareMsg

LEMMA LifeTypes ==
  ASSUME NEW c \in CmdBuffs
  PROVE  Life("Init", c) \in LifeMsg /\ Life("Destroy", c) \in LifeMsg
BY DEF Life, LifeMsg

LEMMA StagingType ==
  ASSUME Types, NEW b \in Buffers, store[b] # Gone
  PROVE  FreeStaging(b) \in StagingMsg
BY DEF Types, FreeStaging, StagingMsg

LEMMA FlushType ==
  ASSUME Types, NEW cs \in FlushLists
  PROVE  Flush(cs, [c \in {cs[i] : i \in DOMAIN cs} |-> flushes[c] + 1]) \in FlushMsg
<1> DEFINE ns == [c \in {cs[i] : i \in DOMAIN cs} |-> flushes[c] + 1]
<1>1. \A i \in DOMAIN cs : cs[i] \in CmdBuffs
  BY CmdBuffAssumption
<1>2. ns \in [{cs[i] : i \in DOMAIN cs} -> Nat]
  BY <1>1 DEF Types
<1>3. QED
  BY <1>2 DEF FlushMsg, FlushOf, Flush

LEMMA MainFacts ==
  main \in Queues /\ CmdBuffs \subseteq Queues /\ MsgOf(main) = MainMsg
    /\ \A c \in CmdBuffs : c # main /\ MsgOf(c) = CmdMsg
BY CmdBuffAssumption DEF Queues, MsgOf

-----------------------------------------------------------------------------
(* What a step does to the main queue: it drops the first d messages, with *)
(* kinds out, and appends messages with kinds in.                          *)
Kept(d, in, out) ==
  /\ d \in {0, 1}
  /\ \A i \in DOMAIN U : i \in Nat \ {0}
  /\ \A i \in DOMAIN U' : i \in Nat \ {0}
  /\ \A i \in DOMAIN U' :
       \/ i + d \in DOMAIN U /\ U'[i] = U[i + d]
       \/ d = 0 /\ U'[i].kind \in in /\ \A j \in DOMAIN U : j < i
  /\ \A i \in DOMAIN U :
       \/ i > d /\ i - d \in DOMAIN U' /\ U'[i - d] = U[i]
       \/ i = d /\ U[i].kind \in out

SameCmds == \A c \in CmdBuffs : queue'[c] = queue[c]

LEMMA KeptSame ==
  ASSUME QueueTypes, U' = U
  PROVE  Kept(0, {}, {})
<1>1. DOMAIN U = 1..Len(U) /\ Len(U) \in Nat
  BY QueueFacts, MainFacts DEF U, Q
<1>2. \A i \in DOMAIN U : i \in Nat \ {0} /\ i + 0 = i /\ i - 0 = i /\ i > 0
  BY <1>1
<1>3. QED
  BY <1>2 DEF Kept

LEMMA CmdSame ==
  ASSUME Others(main)
  PROVE  SameCmds
BY MainFacts DEF Others, SameCmds

LEMMA MainGets ==
  ASSUME QueueTypes, NEW m \in MainMsg,
         \/ queue' = [queue EXCEPT ![main] = Enqueue(@, <<m>>)]
         \/ queue' = [queue EXCEPT ![main] = Kick(Enqueue(@, <<m>>))]
  PROVE  /\ QueueTypes' /\ SameCmds /\ Kept(0, {m.kind}, {})
         /\ Len(U) \in Nat /\ DOMAIN U = 1..Len(U) /\ DOMAIN U' = 1..(Len(U) + 1)
         /\ Len(U') = Len(U) + 1 /\ U'[Len(U) + 1] = m /\ \A i \in DOMAIN U : U'[i] = U[i]
         /\ queue[main].visible <= queue'[main].visible
<1>1. /\ QueueTypes' /\ Others(main) /\ Longer(main, 1) /\ Q(main)'[Len(Q(main)) + 1] = m
      /\ queue'[main].visible \in {queue[main].visible, Len(Q(main)) + 1}
  BY PutOne, MainFacts
<1>2. /\ Len(U) \in Nat /\ DOMAIN U = 1..Len(U) /\ DOMAIN U' = 1..(Len(U) + 1)
      /\ Len(U') = Len(U) + 1 /\ U'[Len(U) + 1] = m /\ \A i \in DOMAIN U : U'[i] = U[i]
  BY <1>1 DEF Longer, U, Q
<1>3. Kept(0, {m.kind}, {})
  BY <1>2 DEF Kept
<1>4. queue[main].visible <= queue'[main].visible
  BY <1>1, QueueFacts, MainFacts
<1>5. QED
  BY <1>1, <1>2, <1>3, <1>4, CmdSame

LEMMA MainGetsTwo ==
  ASSUME QueueTypes, NEW m \in MainMsg, NEW n \in MainMsg,
         queue' = [queue EXCEPT ![main] = Kick(Enqueue(@, <<m, n>>))]
  PROVE  /\ QueueTypes' /\ SameCmds /\ Kept(0, {m.kind, n.kind}, {})
         /\ Len(U) \in Nat /\ DOMAIN U = 1..Len(U) /\ DOMAIN U' = 1..(Len(U) + 2)
         /\ Len(U') = Len(U) + 2 /\ U'[Len(U) + 1] = m /\ U'[Len(U) + 2] = n
         /\ \A i \in DOMAIN U : U'[i] = U[i]
         /\ queue[main].visible <= queue'[main].visible
<1>1. /\ QueueTypes' /\ Others(main) /\ Longer(main, 2)
      /\ Q(main)'[Len(Q(main)) + 1] = m /\ Q(main)'[Len(Q(main)) + 2] = n
      /\ queue'[main].visible = Len(Q(main)) + 2
  BY PutTwo, MainFacts
<1>2. /\ Len(U) \in Nat /\ DOMAIN U = 1..Len(U) /\ DOMAIN U' = 1..(Len(U) + 2)
      /\ Len(U') = Len(U) + 2 /\ U'[Len(U) + 1] = m /\ U'[Len(U) + 2] = n
      /\ \A i \in DOMAIN U : U'[i] = U[i]
  BY <1>1 DEF Longer, U, Q
<1>3. Kept(0, {m.kind, n.kind}, {})
  BY <1>2 DEF Kept
<1>4. queue[main].visible <= queue'[main].visible
  BY <1>1, QueueFacts, MainFacts
<1>5. QED
  BY <1>1, <1>2, <1>3, <1>4, CmdSame

LEMMA MainLoses ==
  ASSUME QueueTypes, HasNewMessage(main), Take(main)
  PROVE  /\ QueueTypes' /\ SameCmds /\ Kept(1, {}, {U[1].kind})
         /\ Message(main) = U[1] /\ U[1] \in MainMsg /\ Len(U) \in Nat \ {0}
         /\ DOMAIN U = 1..Len(U) /\ DOMAIN U' = 1..(Len(U) - 1) /\ Len(U') = Len(U) - 1
         /\ \A i \in DOMAIN U' : U'[i] = U[i + 1]
<1>1. QueueTypes' /\ Others(main) /\ Shorter(main) /\ Message(main) = Q(main)[1] /\ Q(main)[1] \in MainMsg
  BY TakeOne, MainFacts
<1>2. /\ Message(main) = U[1] /\ U[1] \in MainMsg /\ Len(U) \in Nat \ {0}
      /\ DOMAIN U = 1..Len(U) /\ DOMAIN U' = 1..(Len(U) - 1) /\ Len(U') = Len(U) - 1
      /\ \A i \in DOMAIN U' : U'[i] = U[i + 1]
  BY <1>1 DEF Shorter, U, Q
<1>3. Kept(1, {}, {U[1].kind})
  BY <1>2 DEF Kept
<1>4. QED
  BY <1>1, <1>2, <1>3, CmdSame

LEMMA CmdGets ==
  ASSUME QueueTypes, NEW c \in CmdBuffs, NEW m \in CmdMsg,
         queue' = [queue EXCEPT ![c] = Enqueue(@, <<m>>)]
  PROVE  /\ QueueTypes' /\ U' = U /\ Others(c) /\ Longer(c, 1) /\ Q(c)'[Len(Q(c)) + 1] = m
         /\ queue'[c].visible = queue[c].visible
         /\ queue[c].visible \in 0..Len(Q(c)) /\ Q(c) \in Seq(CmdMsg)
<1>1. QueueTypes' /\ Others(c) /\ Longer(c, 1) /\ Q(c)'[Len(Q(c)) + 1] = m
  BY PutOne, MainFacts
<1>2. queue'[c].visible = queue[c].visible
  <2>1. queue'[c] = Enqueue(queue[c], <<m>>)
    BY MainFacts DEF QueueTypes
  <2>2. QED
    BY <2>1, QueueFacts, MainFacts, Records
<1>3. U' = U
  BY <1>1, MainFacts DEF Others, U
<1>4. QED
  BY <1>1, <1>2, <1>3, QueueFacts, MainFacts

LEMMA CmdGetsTwo ==
  ASSUME QueueTypes, NEW c \in CmdBuffs, NEW m \in CmdMsg, NEW n \in CmdMsg,
         queue' = [queue EXCEPT ![c] = Kick(Enqueue(@, <<m, n>>))]
  PROVE  /\ QueueTypes' /\ U' = U /\ Others(c) /\ Longer(c, 2)
         /\ Q(c)'[Len(Q(c)) + 1] = m /\ Q(c)'[Len(Q(c)) + 2] = n
         /\ queue'[c].visible = Len(Q(c)) + 2
         /\ queue[c].visible \in 0..Len(Q(c)) /\ Q(c) \in Seq(CmdMsg)
<1>1. /\ QueueTypes' /\ Others(c) /\ Longer(c, 2)
      /\ Q(c)'[Len(Q(c)) + 1] = m /\ Q(c)'[Len(Q(c)) + 2] = n
      /\ queue'[c].visible = Len(Q(c)) + 2
  <2>1. c \in Queues /\ m \in MsgOf(c) /\ n \in MsgOf(c)
    BY MainFacts
  <2>2. QED
    BY <2>1, PutTwo
<1>2. U' = U
  BY <1>1, MainFacts DEF Others, U
<1>3. QED
  BY <1>1, <1>2, QueueFacts, MainFacts

LEMMA CmdLoses ==
  ASSUME QueueTypes, NEW c \in CmdBuffs, HasNewMessage(c), Take(c)
  PROVE  /\ QueueTypes' /\ U' = U /\ Others(c) /\ Shorter(c)
         /\ Message(c) = Q(c)[1] /\ Q(c)[1] \in CmdMsg
         /\ queue'[c].visible = queue[c].visible - 1
         /\ queue[c].visible \in 1..Len(Q(c)) /\ Q(c) \in Seq(CmdMsg)
<1>1. /\ QueueTypes' /\ Others(c) /\ Shorter(c) /\ Message(c) = Q(c)[1] /\ Q(c)[1] \in CmdMsg
      /\ queue'[c].visible = queue[c].visible - 1
  BY TakeOne, MainFacts
<1>2. U' = U
  BY <1>1, MainFacts DEF Others, U
<1>3. QED
  BY <1>1, <1>2, QueueFacts, MainFacts DEF HasNewMessage

-----------------------------------------------------------------------------
(* What each action does to the main queue.                                *)
Stays ==
  QueueTypes' /\ SameCmds /\ Kept(0, {}, {}) /\ U' = U /\ queue'[main] = queue[main]
Takes ==
  /\ QueueTypes' /\ SameCmds /\ Kept(1, {}, {U[1].kind})
  /\ Message(main) = U[1] /\ U[1] \in MainMsg /\ Len(U) \in Nat \ {0}
  /\ DOMAIN U = 1..Len(U) /\ DOMAIN U' = 1..(Len(U) - 1) /\ Len(U') = Len(U) - 1
  /\ \A i \in DOMAIN U' : U'[i] = U[i + 1]
Appends(m) ==
  /\ QueueTypes' /\ SameCmds /\ Kept(0, {m.kind}, {})
  /\ queue[main].visible <= queue'[main].visible
  /\ Len(U) \in Nat /\ DOMAIN U = 1..Len(U) /\ DOMAIN U' = 1..(Len(U) + 1)
  /\ Len(U') = Len(U) + 1 /\ U'[Len(U) + 1] = m /\ \A i \in DOMAIN U : U'[i] = U[i]
AppendsTwo(m, n) ==
  /\ QueueTypes' /\ SameCmds /\ Kept(0, {m.kind, n.kind}, {})
  /\ queue[main].visible <= queue'[main].visible
  /\ Len(U) \in Nat /\ DOMAIN U = 1..Len(U) /\ DOMAIN U' = 1..(Len(U) + 2)
  /\ Len(U') = Len(U) + 2 /\ U'[Len(U) + 1] = m /\ U'[Len(U) + 2] = n
  /\ \A i \in DOMAIN U : U'[i] = U[i]

LEMMA Subsets ==
  /\ UpdateMsg \subseteq MainMsg /\ PlainMsg \subseteq MainMsg /\ CmdMsg \subseteq MainMsg
  /\ FlushMsg \subseteq MainMsg /\ LifeMsg \subseteq MainMsg /\ StagingMsg \subseteq MainMsg
  /\ PresentMsg \subseteq MainMsg /\ BareMsg \subseteq MainMsg
  /\ UpdateMsg \subseteq CmdMsg /\ PlainMsg \subseteq CmdMsg
BY DEF MainMsg, CmdMsg

LEMMA PutsOne ==
  ASSUME QueueTypes, NEW m \in MainMsg,
         \/ queue' = [queue EXCEPT ![main] = Enqueue(@, <<m>>)]
         \/ queue' = [queue EXCEPT ![main] = Kick(Enqueue(@, <<m>>))]
  PROVE  Appends(m)
BY MainGets DEF Appends

LEMMA QueueSame ==
  ASSUME QueueTypes, queue' = queue
  PROVE  Stays
BY KeptSame DEF Stays, QueueTypes, U, Q, SameCmds

LEMMA GameEffects ==
  ASSUME Types, Middle
  PROVE  /\ \A b \in Buffers : UpdateBuffer(b) => Appends(Update(b, 0)) /\ Update(b, 0) \in UpdateMsg
         /\ \A b \in Buffers : \A s : ChangeStore(b, s) => Appends(FreeStaging(b))
         /\ \A c \in CmdBuffs : CreateCommandBuffer(c) => Appends(Life("Init", c))
         /\ \A c \in CmdBuffs : DestroyCommandBuffer(c) => Appends(Bare("Wait"))
         /\ CopyTextureToBuffers => AppendsTwo(Bare("Copy"), Bare("Wait"))
         /\ DestroyDevice => AppendsTwo(Bare("DeviceDestroy"), Bare("Wait"))
         /\ Present => AppendsTwo(PresentFrame, Free(0))
         /\ EnqueueFlush => Appends(gThen)
         /\ PresentFinish => Appends(Finish(0))
<1>0. QueueTypes /\ frame \in Nat
  BY DEF Types
<1>1. ASSUME NEW b \in Buffers, UpdateBuffer(b) PROVE Appends(Update(b, 0)) /\ Update(b, 0) \in UpdateMsg
  <2>1. store[b] # Gone /\ queue' = [queue EXCEPT ![main] = Enqueue(@, <<Update(b, 0)>>)]
    BY <1>1 DEF UpdateBuffer, WriteSlot
  <2>2. Update(b, 0) \in UpdateMsg
    BY <2>1, UpdateType
  <2>3. QED
    BY <2>1, <2>2, <1>0, Subsets, PutsOne
<1>2. ASSUME NEW b \in Buffers, NEW s, ChangeStore(b, s) PROVE Appends(FreeStaging(b))
  BY <1>0, <1>2, StagingType, Subsets, PutsOne DEF ChangeStore, MayChange
<1>3. ASSUME NEW c \in CmdBuffs, CreateCommandBuffer(c) PROVE Appends(Life("Init", c))
  BY <1>0, <1>3, LifeTypes, Subsets, PutsOne DEF CreateCommandBuffer
<1>4. ASSUME NEW c \in CmdBuffs, DestroyCommandBuffer(c) PROVE Appends(Bare("Wait"))
  <2>1. queue' = [queue EXCEPT ![main] = Kick(Enqueue(@, <<>> \o <<Bare("Wait")>>))]
    BY <1>4 DEF DestroyCommandBuffer, KickAndWait
  <2>2. <<>> \o <<Bare("Wait")>> = <<Bare("Wait")>>
    OBVIOUS
  <2>3. QED
    BY <2>1, <2>2, <1>0, BareTypes, Subsets, PutsOne
<1>5. CopyTextureToBuffers => AppendsTwo(Bare("Copy"), Bare("Wait"))
  <2>1. <<Bare("Copy")>> \o <<Bare("Wait")>> = <<Bare("Copy"), Bare("Wait")>>
    BY BareTypes, Pair
  <2>2. QED
    BY <2>1, <1>0, BareTypes, Subsets, MainGetsTwo DEF CopyTextureToBuffers, KickAndWait, AppendsTwo
<1>6. DestroyDevice => AppendsTwo(Bare("DeviceDestroy"), Bare("Wait"))
  <2>1. <<Bare("DeviceDestroy")>> \o <<Bare("Wait")>> = <<Bare("DeviceDestroy"), Bare("Wait")>>
    BY BareTypes, Pair
  <2>2. QED
    <3>1. ASSUME DestroyDevice
          PROVE  queue' = [queue EXCEPT ![main] = Kick(Enqueue(@, <<Bare("DeviceDestroy"), Bare("Wait")>>))]
      BY <2>1, <3>1 DEF DestroyDevice, KickAndWait
    <3>2. Bare("DeviceDestroy") \in MainMsg /\ Bare("Wait") \in MainMsg
      BY BareTypes, Subsets
    <3>3. QED
      BY <1>0, <3>1, <3>2, MainGetsTwo DEF AppendsTwo
<1>7. Present => AppendsTwo(PresentFrame, Free(0))
  <2>1. PresentFrame \in PresentMsg
    BY <1>0 DEF PresentFrame, PresentMsg
  <2>2. QED
    BY <2>1, <1>0, PlainTypes, Subsets, MainGetsTwo DEF Present, AppendsTwo
<1>8. EnqueueFlush => Appends(gThen)
  BY <1>0, Subsets, PutsOne DEF EnqueueFlush, Middle
<1>9. PresentFinish => Appends(Finish(0))
  BY <1>0, PlainTypes, Subsets, PutsOne DEF PresentFinish
<1>10. QED
  BY <1>1, <1>2, <1>3, <1>4, <1>5, <1>6, <1>7, <1>8, <1>9

LEMMA DeviceEffects ==
  ASSUME Types, Middle
  PROVE  /\ ExecPlain => Takes /\ dPc = "main" /\ U[1].kind \in {"Update", "Free", "Finish", "Copy", "DeviceDestroy"}
         /\ ExecLife => Takes /\ dPc = "main" /\ U[1].kind \in {"Init", "Destroy"}
         /\ ExecFreeStaging => Takes /\ dPc = "main" /\ U[1].kind \in {"FreeStaging"}
         /\ ExecPresent => Takes /\ dPc = "main" /\ U[1].kind \in {"Present"}
         /\ ExecWait => Takes /\ dPc = "main" /\ U[1].kind \in {"Wait"}
         /\ ExecTerminate => Takes /\ dPc = "main" /\ U[1].kind \in {"Terminate"}
         /\ FlushEnd => Takes /\ U[1].kind = "Flush"
         /\ FlushBegin => Stays /\ Message(main) = U[1] /\ U[1] \in FlushMsg /\ Len(U) > 0
         /\ \A i : FlushStep(i) =>
              /\ Message(main) = U[1] /\ U[1] \in FlushMsg /\ 1 \in DOMAIN U
              /\ i \in DOMAIN U[1].cmdBuffs /\ U[1].cmdBuffs[i] \in CmdBuffs
              /\ U[1].cmdBuffs[i] \in DOMAIN U[1].number
<1>0. QueueTypes
  BY DEF Types
<1>1. ASSUME NEW ks, CanExecute(ks), Take(main) PROVE Takes /\ dPc = "main" /\ U[1].kind \in ks
  BY <1>0, <1>1, MainLoses DEF CanExecute, Takes
<1>1a. ASSUME ExecPlain PROVE Takes /\ dPc = "main" /\ U[1].kind \in {"Update", "Free", "Finish", "Copy", "DeviceDestroy"}
  BY <1>1, <1>1a DEF ExecPlain
<1>1b. ASSUME ExecLife PROVE Takes /\ dPc = "main" /\ U[1].kind \in {"Init", "Destroy"}
  BY <1>1, <1>1b DEF ExecLife
<1>1c. ASSUME ExecFreeStaging PROVE Takes /\ dPc = "main" /\ U[1].kind \in {"FreeStaging"}
  BY <1>1, <1>1c DEF ExecFreeStaging
<1>1d. ASSUME ExecPresent PROVE Takes /\ dPc = "main" /\ U[1].kind \in {"Present"}
  BY <1>1, <1>1d DEF ExecPresent
<1>1e. ASSUME ExecWait PROVE Takes /\ dPc = "main" /\ U[1].kind \in {"Wait"}
  BY <1>1, <1>1e DEF ExecWait
<1>1f. ASSUME ExecTerminate PROVE Takes /\ dPc = "main" /\ U[1].kind \in {"Terminate"}
  BY <1>1, <1>1f DEF ExecTerminate
<1>2. ASSUME FlushEnd PROVE Takes /\ U[1].kind = "Flush"
  BY <1>0, <1>2, MainLoses, QueueFacts, MainFacts DEF FlushEnd, Takes, Middle, HasNewMessage
<1>3. ASSUME queue[main].visible > 0
      PROVE  Message(main) = U[1] /\ U[1] \in MainMsg /\ 1 \in DOMAIN U /\ Len(U) > 0
  <2>1. U \in Seq(MainMsg) /\ Len(U) > 0
    BY <1>0, <1>3, QueueFacts, MainFacts DEF U, Q
  <2>2. QED
    BY <2>1 DEF Message, U
<1>4. ASSUME FlushBegin PROVE Stays /\ Message(main) = U[1] /\ U[1] \in FlushMsg /\ Len(U) > 0
  BY <1>0, <1>3, <1>4, QueueSame, KindFacts DEF FlushBegin, CanExecute, HasNewMessage, queueVars
<1>5. ASSUME NEW i, FlushStep(i)
      PROVE  /\ Message(main) = U[1] /\ U[1] \in FlushMsg /\ 1 \in DOMAIN U
             /\ i \in DOMAIN U[1].cmdBuffs /\ U[1].cmdBuffs[i] \in CmdBuffs
             /\ U[1].cmdBuffs[i] \in DOMAIN U[1].number
  <2>1. Message(main) = U[1] /\ U[1] \in FlushMsg /\ 1 \in DOMAIN U /\ i \in DOMAIN U[1].cmdBuffs
    BY <1>3, <1>5, KindFacts DEF FlushStep, Middle
  <2>2. QED
    BY <2>1, FlushFacts
<1>6. QED
  BY <1>1a, <1>1b, <1>1c, <1>1d, <1>1e, <1>1f, <1>2, <1>4, <1>5

LEMMA CmdEffects ==
  ASSUME Types, Middle
  PROVE  /\ \A c \in CmdBuffs : RecordCommand(c) => Command(flushes[c] + 1) \in PlainMsg
         /\ \A c \in CmdBuffs, b \in Buffers :
              RecordUpdateBuffer(c, b) => Update(b, flushes[c] + 1) \in UpdateMsg
         /\ FinishWriting =>
              /\ Len(gTodo) > 0 /\ Head(gTodo) = gTodo[1] /\ gTodo[1] \in CmdBuffs
              /\ Flushing(gTodo[1]) /\ InTodo(gTodo[1])
              /\ \A c \in CmdBuffs : InTodo(c)' <=> InTodo(c) /\ c # gTodo[1]
              /\ gTodo' \in Seq(CmdBuffs) /\ Middle'
              /\ flushes[gTodo[1]] \in Nat
              /\ Free(flushes[gTodo[1]] + 1) \in PlainMsg
              /\ Finish(flushes[gTodo[1]] + 1) \in PlainMsg
<1>0. QueueTypes /\ \A c \in CmdBuffs : flushes[c] \in Nat /\ flushes[c] + 1 \in Nat
  BY DEF Types
<1>1. ASSUME NEW c \in CmdBuffs, RecordCommand(c) PROVE Command(flushes[c] + 1) \in PlainMsg
  BY <1>0, PlainTypes
<1>2. ASSUME NEW c \in CmdBuffs, NEW b \in Buffers, RecordUpdateBuffer(c, b)
      PROVE  Update(b, flushes[c] + 1) \in UpdateMsg
  BY <1>0, <1>2, UpdateType DEF RecordUpdateBuffer, WriteSlot
<1>3. ASSUME FinishWriting
      PROVE  /\ Len(gTodo) > 0 /\ Head(gTodo) = gTodo[1] /\ gTodo[1] \in CmdBuffs
             /\ Flushing(gTodo[1]) /\ InTodo(gTodo[1])
             /\ \A c \in CmdBuffs : InTodo(c)' <=> InTodo(c) /\ c # gTodo[1]
             /\ gTodo' \in Seq(CmdBuffs) /\ Middle'
  <2>1. gTodo \in Seq(CmdBuffs) /\ gPc = "flush" /\ gTodo # <<>> /\ gTodo' = Tail(gTodo)
    BY <1>3 DEF FinishWriting, Types
  <2>2. Len(gTodo) > 0
    BY <2>1
  <2>3. /\ gTodo' \in Seq(CmdBuffs) /\ Head(gTodo) = gTodo[1] /\ gTodo[1] \in CmdBuffs
        /\ DOMAIN gTodo = 1..Len(gTodo) /\ DOMAIN gTodo' = 1..(Len(gTodo) - 1)
        /\ \A i \in DOMAIN gTodo' : gTodo'[i] = gTodo[i + 1]
    BY <2>1, <2>2, Dropped
  <2>4. /\ gThen \in FlushMsg
        /\ \A i \in DOMAIN gTodo : gTodo[i] \in DOMAIN gThen.number
        /\ \A i, j \in DOMAIN gTodo : gTodo[i] = gTodo[j] => i = j
    BY <2>1 DEF Middle
  <2>5. 1 \in DOMAIN gTodo /\ Len(gTodo) \in Nat
    BY <2>1, <2>2, <2>3
  <2>6. Flushing(gTodo[1]) /\ InTodo(gTodo[1])
    BY <2>1, <2>4, <2>5 DEF Flushing, InTodo
  <2>7. \A i \in DOMAIN gTodo' : i + 1 \in DOMAIN gTodo /\ i + 1 # 1
    BY <2>3, <2>5
  <2>8. ASSUME NEW c \in CmdBuffs, c = gTodo[1] PROVE ~InTodo(c)'
    BY <2>8, <2>3, <2>4, <2>5, <2>7 DEF InTodo
  <2>9. \A i \in DOMAIN gTodo : i # 1 => i - 1 \in DOMAIN gTodo' /\ gTodo'[i - 1] = gTodo[i]
    BY <2>3, <2>5
  <2>10. \A c \in CmdBuffs : InTodo(c)' <=> InTodo(c) /\ c # gTodo[1]
    BY <2>3, <2>7, <2>8, <2>9 DEF InTodo
  <2>11. /\ \A i \in DOMAIN gTodo' : gTodo'[i] \in DOMAIN gThen.number
         /\ \A i, j \in DOMAIN gTodo' : gTodo'[i] = gTodo'[j] => i = j
    BY <2>3, <2>4, <2>7
  <2>12. U' = U /\ queue'[main] = queue[main]
    BY <1>0, <1>3, <2>3, MainFacts DEF FinishWriting, U, QueueTypes
  <2>13. Middle'
    BY <1>3, <2>11, <2>12 DEF Middle, FinishWriting, deviceVars
  <2>14. QED
    BY <2>2, <2>3, <2>6, <2>8, <2>10, <2>13
<1>4. QED
  BY <1>0, <1>1, <1>2, <1>3, PlainTypes

-----------------------------------------------------------------------------
(* Types.                                                                  *)

LEMMA KindOfThen ==
  ASSUME Types
  PROVE  /\ gThen.kind = "Destroy" => gThen \in LifeMsg
         /\ gThen.kind = "Flush" => gThen \in FlushMsg
         /\ gThen.kind \in Kinds \cup {"record"}
<1>1. gThen \in FlushMsg \cup LifeMsg \cup [kind : {"record", "Terminate"}]
  BY DEF Types
<1>2. gThen \in FlushMsg => gThen.kind = "Flush"
  BY FlushFacts
<1>3. gThen \in LifeMsg => gThen.kind \in {"Init", "Destroy"}
  BY DEF LifeMsg
<1>4. gThen \in [kind : {"record", "Terminate"}] => gThen.kind \in {"record", "Terminate"}
  OBVIOUS
<1>5. QED
  BY <1>1, <1>2, <1>3, <1>4 DEF Kinds

LEMMA WriteType ==
  ASSUME Types, NEW b \in Buffers, WriteSlot(b)
  PROVE  /\ staging' \in [Buffers -> [Stores -> [Slots -> Nat]]] /\ store' = store
         /\ \A x \in Buffers, s \in Stores, i \in Slots :
              staging'[x][s][i] = IF x = b /\ s = store[b] /\ i = currentIndex THEN frame
                                  ELSE staging[x][s][i]
<1>1. /\ store[b] \in Stores /\ currentIndex \in Slots /\ frame \in Nat
      /\ staging \in [Buffers -> [Stores -> [Slots -> Nat]]]
  BY DEF Types, WriteSlot
<1>2. staging' = [staging EXCEPT ![b][store[b]][currentIndex] = frame] /\ store' = store
  BY DEF WriteSlot
<1>3. QED
  BY <1>1, <1>2

LEMMA WaitReturnEffects ==
  ASSUME Types, WaitReturn
  PROVE  \/ /\ gThen.kind = "record" /\ gPc' = "record" /\ event' = event
            /\ Stays /\ agent' = agent
         \/ /\ gThen.kind = "Destroy" /\ gPc' = "record" /\ event' = event
            /\ gThen \in LifeMsg /\ Appends(gThen)
            /\ agent' = [agent EXCEPT ![gThen.cmdBuff] = "deleted"]
         \/ /\ gThen.kind = "Terminate" /\ gPc' = "join" /\ event' = FALSE
            /\ Appends(Bare("Terminate")) /\ agent' = [agent EXCEPT ![primary] = "deleted"]
<1>0. QueueTypes
  BY DEF Types
<1>1. CASE /\ gThen.kind = "record" /\ gPc' = "record" /\ UNCHANGED <<queue, agent, event>>
  BY <1>0, <1>1, QueueSame
<1>2. CASE /\ gThen.kind = "Destroy" /\ gPc' = "record" /\ event' = event
           /\ agent' = [agent EXCEPT ![gThen.cmdBuff] = "deleted"]
           /\ queue' = [queue EXCEPT ![main] = Enqueue(@, <<gThen>>)]
  BY <1>0, <1>2, KindOfThen, Subsets, PutsOne
<1>3. CASE /\ gThen.kind = "Terminate" /\ gPc' = "join" /\ event' = FALSE
           /\ agent' = [agent EXCEPT ![primary] = "deleted"]
           /\ queue' = [queue EXCEPT ![main] = Kick(Enqueue(@, <<Bare("Terminate")>>))]
  BY <1>0, <1>3, BareTypes, Subsets, PutsOne
<1>4. QED
  BY <1>1, <1>2, <1>3 DEF WaitReturn

LEMMA IndexType ==
  ASSUME NEW n \in Nat
  PROVE  n % MAX_FRAME_INDEX \in Slots /\ MAX_FRAME_INDEX \in Nat \ {0}
<1>1. MAX_FRAME_INDEX \in Nat \ {0}
  BY FrameAssumption DEF MAX_FRAME_INDEX
<1>2. PICK q \in Int, r \in 0..(MAX_FRAME_INDEX - 1) : n % MAX_FRAME_INDEX = r
  BY <1>1, ModSplit
<1>3. QED
  BY <1>1, <1>2 DEF Slots

MainShape == queue[main].visible \in 0..Len(U) /\ DOMAIN U = 1..Len(U) /\ Len(U) \in Nat

LEMMA MainShapes ==
  ASSUME QueueTypes, QueueTypes'
  PROVE  MainShape /\ MainShape'
BY MainFacts, QueueFacts DEF QueueTypes, MainShape, U, Q

(* A flush under way is not disturbed by what is appended behind it.       *)
UnderWayKept ==
  dPc' = "flush" =>
    queue'[main].visible > 0 /\ U'[1].kind = "Flush" /\ todo' \subseteq DOMAIN U'[1].cmdBuffs

LEMMA FlushStays ==
  ASSUME Types, Middle, dPc' = dPc, todo' = todo,
         \/ Stays
         \/ \E m : Appends(m)
         \/ \E m, n : AppendsTwo(m, n)
  PROVE  /\ UnderWayKept /\ QueueTypes'
         /\ dPc = "flush" => 1 \in DOMAIN U /\ 1 \in DOMAIN U' /\ U'[1] = U[1]
<1>1. QueueTypes /\ QueueTypes'
  BY DEF Types, Stays, Appends, AppendsTwo
<1>2. MainShape /\ MainShape'
  BY <1>1, MainShapes
<1>3. queue[main].visible <= queue'[main].visible /\ \A i \in DOMAIN U : U'[i] = U[i]
  <2>1. CASE Stays
    BY <1>2, <2>1 DEF Stays, MainShape
  <2>2. CASE \E m : Appends(m)
    BY <2>2 DEF Appends
  <2>3. CASE \E m, n : AppendsTwo(m, n)
    BY <2>3 DEF AppendsTwo
  <2>4. QED
    BY <2>1, <2>2, <2>3
<1>4. CASE dPc = "flush"
  <2>1. queue[main].visible > 0 /\ U[1].kind = "Flush" /\ todo \subseteq DOMAIN U[1].cmdBuffs
    BY <1>4 DEF Middle
  <2>2. 1 \in DOMAIN U /\ 1 \in DOMAIN U' /\ queue'[main].visible > 0
    BY <1>2, <1>3, <2>1 DEF MainShape
  <2>3. QED
    BY <1>1, <1>3, <2>1, <2>2 DEF UnderWayKept
<1>5. CASE dPc # "flush"
  BY <1>1, <1>5 DEF UnderWayKept
<1>6. QED
  BY <1>4, <1>5

LEMMA GameTypes ==
  ASSUME Types, Middle, GameCall
  PROVE  Types' /\ Middle'
<1>0. calls \in 0..MaxCalls /\ MaxCalls \in Nat
  BY FrameAssumption DEF Types
<1>1. ASSUME NextCall PROVE gPc = "record" /\ calls' \in 0..MaxCalls
  BY <1>0, <1>1 DEF NextCall
<1>2. ASSUME NEW b \in Buffers, UpdateBuffer(b) PROVE Types' /\ Middle'
  <2>1. UnderWayKept /\ QueueTypes'
    BY <1>2, FlushStays, GameEffects DEF UpdateBuffer, deviceVars
  <2>2. store' = store /\ staging' \in [Buffers -> [Stores -> [Slots -> Nat]]]
    BY <1>2, WriteType DEF UpdateBuffer
  <2>3. Types'
    BY <1>1, <1>2, <2>1, <2>2 DEF UpdateBuffer, Types, deviceVars
  <2>4. QED
    BY <1>1, <1>2, <2>1, <2>3 DEF UpdateBuffer, Middle, UnderWayKept
<1>3. ASSUME NEW b \in Buffers, NEW s \in Stores \cup {Gone}, ChangeStore(b, s) PROVE Types' /\ Middle'
  <2>1. UnderWayKept /\ QueueTypes'
    BY <1>3, FlushStays, GameEffects DEF ChangeStore, deviceVars
  <2>2. Types'
    BY <1>1, <1>3, <2>1 DEF ChangeStore, Types, deviceVars
  <2>3. QED
    BY <1>1, <1>3, <2>1, <2>2 DEF ChangeStore, Middle, UnderWayKept
<1>4. ASSUME NEW c \in CmdBuffs, RecordCommand(c) PROVE Types' /\ Middle'
  <2>1. QueueTypes' /\ U' = U /\ queue'[main] = queue[main]
    <3>1. QueueTypes /\ Command(flushes[c] + 1) \in CmdMsg
      BY <1>4, CmdEffects, Subsets DEF Types
    <3>2. queue' = [queue EXCEPT ![c] = Enqueue(@, <<Command(flushes[c] + 1)>>)]
      BY <1>4 DEF RecordCommand
    <3>3. QueueTypes' /\ U' = U /\ Others(c)
      BY <3>1, <3>2, CmdGets
    <3>4. QED
      BY <3>3, MainFacts DEF Others
  <2>2. Types'
    BY <1>1, <1>4, <2>1 DEF RecordCommand, Types, deviceVars, bufferVars
  <2>3. QED
    BY <1>1, <1>4, <2>1, <2>2 DEF RecordCommand, Middle, deviceVars
<1>5. ASSUME NEW c \in CmdBuffs, NEW b \in Buffers, RecordUpdateBuffer(c, b) PROVE Types' /\ Middle'
  <2>1. QueueTypes' /\ U' = U /\ queue'[main] = queue[main]
    <3>1. QueueTypes /\ Update(b, flushes[c] + 1) \in CmdMsg
      BY <1>5, CmdEffects, Subsets DEF Types
    <3>2. queue' = [queue EXCEPT ![c] = Enqueue(@, <<Update(b, flushes[c] + 1)>>)]
      BY <1>5 DEF RecordUpdateBuffer
    <3>3. QueueTypes' /\ U' = U /\ Others(c)
      BY <3>1, <3>2, CmdGets
    <3>4. QED
      BY <3>3, MainFacts DEF Others
  <2>2. store' = store /\ staging' \in [Buffers -> [Stores -> [Slots -> Nat]]]
    BY <1>5, WriteType DEF RecordUpdateBuffer
  <2>3. Types'
    BY <1>1, <1>5, <2>1, <2>2 DEF RecordUpdateBuffer, Types, deviceVars
  <2>4. QED
    BY <1>1, <1>5, <2>1, <2>3 DEF RecordUpdateBuffer, Middle, deviceVars
<1>6. ASSUME NEW c \in CmdBuffs, CreateCommandBuffer(c) PROVE Types' /\ Middle'
  <2>1. UnderWayKept /\ QueueTypes'
    BY <1>6, FlushStays, GameEffects DEF CreateCommandBuffer, deviceVars
  <2>2. Types'
    BY <1>1, <1>6, <2>1 DEF CreateCommandBuffer, Types, deviceVars, bufferVars
  <2>3. QED
    BY <1>1, <1>6, <2>1, <2>2 DEF CreateCommandBuffer, Middle, UnderWayKept
<1>7. ASSUME NEW c \in CmdBuffs, DestroyCommandBuffer(c) PROVE Types' /\ Middle'
  <2>1. UnderWayKept /\ QueueTypes'
    BY <1>7, FlushStays, GameEffects DEF DestroyCommandBuffer, deviceVars
  <2>2. gThen' = Life("Destroy", c) /\ gThen'.kind = "Destroy" /\ gThen' \in LifeMsg
    BY <1>7, LifeTypes DEF DestroyCommandBuffer, KickAndWait, Life
  <2>3. Types'
    BY <1>1, <1>7, <2>1, <2>2 DEF DestroyCommandBuffer, KickAndWait, Types, deviceVars, bufferVars
  <2>4. QED
    BY <1>7, <2>1, <2>2, <2>3 DEF DestroyCommandBuffer, KickAndWait, Middle, UnderWayKept
<1>8. ASSUME NEW cs \in FlushLists, FlushCommands(cs) PROVE Types' /\ Middle'
  <2>1. Stays
    BY <1>8, QueueSame DEF FlushCommands, queueVars, Types
  <2>2. gThen' = Flush(cs, [c \in {cs[i] : i \in DOMAIN cs} |-> flushes[c] + 1]) /\ gThen' \in FlushMsg
    BY <1>8, FlushType DEF FlushCommands
  <2>3. DOMAIN gThen'.number = {cs[i] : i \in DOMAIN cs}
    BY <2>2 DEF Flush
  <2>4. gTodo' = cs /\ cs \in Seq(CmdBuffs) /\ \A i, j \in DOMAIN cs : cs[i] = cs[j] => i = j
    BY <1>8, CmdBuffAssumption DEF FlushCommands
  <2>5. UnderWayKept
    BY <1>8, <2>1, FlushStays DEF FlushCommands, deviceVars
  <2>6. Types'
    BY <1>1, <1>8, <2>1, <2>2, <2>4 DEF FlushCommands, Types, queueVars, deviceVars, bufferVars, Stays
  <2>7. QED
    BY <1>8, <2>2, <2>3, <2>4, <2>5, <2>6 DEF FlushCommands, Middle, UnderWayKept
<1>9. ASSUME CopyTextureToBuffers PROVE Types' /\ Middle'
  <2>1. UnderWayKept /\ QueueTypes'
    BY <1>9, FlushStays, GameEffects DEF CopyTextureToBuffers, deviceVars
  <2>2. gThen' = Bare("record") /\ gThen'.kind = "record" /\ gThen' \in [kind : {"record", "Terminate"}]
    BY <1>9 DEF CopyTextureToBuffers, KickAndWait, Bare
  <2>3. Types'
    BY <1>1, <1>9, <2>1, <2>2 DEF CopyTextureToBuffers, KickAndWait, Types, deviceVars, bufferVars
  <2>4. QED
    BY <1>9, <2>1, <2>2, <2>3 DEF CopyTextureToBuffers, KickAndWait, Middle, UnderWayKept
<1>10. ASSUME DestroyDevice PROVE Types' /\ Middle'
  <2>1. UnderWayKept /\ QueueTypes'
    BY <1>10, FlushStays, GameEffects DEF DestroyDevice, deviceVars
  <2>2. gThen' = Bare("Terminate") /\ gThen'.kind = "Terminate" /\ gThen' \in [kind : {"record", "Terminate"}]
    BY <1>10 DEF DestroyDevice, KickAndWait, Bare
  <2>3. Types'
    BY <1>10, <2>1, <2>2 DEF DestroyDevice, KickAndWait, Types, deviceVars, bufferVars
  <2>4. QED
    BY <1>10, <2>1, <2>2, <2>3 DEF DestroyDevice, KickAndWait, Middle, UnderWayKept
<1>11. ASSUME Present PROVE Types' /\ Middle'
  <2>1. UnderWayKept /\ QueueTypes'
    BY <1>11, FlushStays, GameEffects DEF Present, deviceVars
  <2>2. Types'
    BY <1>11, <2>1 DEF Present, Types, deviceVars, bufferVars
  <2>3. QED
    BY <1>11, <2>1, <2>2 DEF Present, Middle, UnderWayKept
<1>12. ASSUME NEW b \in Buffers, ResizeBuffer(b) \/ DestroyBuffer(b) PROVE Types' /\ Middle'
  BY <1>3, <1>12 DEF ResizeBuffer, DestroyBuffer
<1>13. QED
  BY <1>2, <1>4, <1>5, <1>6, <1>7, <1>8, <1>9, <1>10, <1>11, <1>12 DEF GameCall

LEMMA StepTypes ==
  ASSUME Types, Middle, GameStep
  PROVE  Types' /\ Middle'
<1>1. ASSUME FinishWriting PROVE Types' /\ Middle'
  <2>1. PICK c \in CmdBuffs : c = gTodo[1] /\ c = Head(gTodo)
    BY <1>1, CmdEffects
  <2>2. QueueTypes'
    BY <1>1, <2>1, CmdEffects, CmdGetsTwo, Subsets DEF FinishWriting, Finished, Types
  <2>3. flushes' \in [CmdBuffs -> Nat]
    BY <1>1, <2>1 DEF FinishWriting, Types
  <2>4. Types'
    BY <1>1, <2>2, <2>3, CmdEffects DEF FinishWriting, Types, deviceVars, bufferVars
  <2>5. QED
    BY <1>1, <2>4, CmdEffects
<1>2. ASSUME EnqueueFlush PROVE Types' /\ Middle'
  <2>1. UnderWayKept /\ QueueTypes'
    BY <1>2, FlushStays, GameEffects DEF EnqueueFlush, deviceVars
  <2>2. Types'
    BY <1>2, <2>1 DEF EnqueueFlush, Types, deviceVars, bufferVars
  <2>3. QED
    BY <1>2, <2>1, <2>2 DEF EnqueueFlush, Middle, UnderWayKept
<1>3. ASSUME PresentFinish PROVE Types' /\ Middle'
  <2>1. UnderWayKept /\ QueueTypes'
    BY <1>3, FlushStays, GameEffects DEF PresentFinish, deviceVars
  <2>2. currentIndex' \in Slots
    BY <1>3, IndexType DEF PresentFinish, NextIndex, Types, Slots
  <2>3. Types'
    BY <1>3, <2>1, <2>2 DEF PresentFinish, Types, deviceVars, bufferVars
  <2>4. QED
    BY <1>3, <2>1, <2>3 DEF PresentFinish, Middle, UnderWayKept
<1>4. ASSUME FrameBoundary PROVE Types' /\ Middle'
  <2>1. Stays
    BY <1>4, QueueSame DEF FrameBoundary, queueVars, Types
  <2>2. UnderWayKept
    BY <1>4, <2>1, FlushStays DEF FrameBoundary, deviceVars
  <2>3. Types'
    BY <1>4, <2>1, FrameAssumption
    DEF FrameBoundary, Types, queueVars, deviceVars, bufferVars, Stays
  <2>4. QED
    BY <1>4, <2>2, <2>3 DEF FrameBoundary, Middle, UnderWayKept
<1>5. ASSUME WaitReturn PROVE Types' /\ Middle'
  <2>1. UnderWayKept /\ QueueTypes'
    BY <1>5, FlushStays, WaitReturnEffects DEF WaitReturn, deviceVars
  <2>2. /\ gPc' \in {"record", "join"} /\ event' \in BOOLEAN
        /\ agent' \in [CmdBuffs -> {"new", "live", "deleted"}]
    BY <1>5, WaitReturnEffects DEF Types
  <2>3. Types'
    BY <1>5, <2>1, <2>2 DEF WaitReturn, Types, deviceVars, bufferVars
  <2>4. QED
    BY <1>5, <2>1, <2>2, <2>3 DEF WaitReturn, Middle, UnderWayKept
<1>6. ASSUME Join PROVE Types' /\ Middle'
  <2>1. Stays
    BY <1>6, QueueSame DEF Join, queueVars, Types
  <2>2. UnderWayKept
    BY <1>6, <2>1, FlushStays DEF Join, deviceVars
  <2>3. Types'
    BY <1>6, <2>1 DEF Join, Types, queueVars, deviceVars, bufferVars, Stays
  <2>4. QED
    BY <1>6, <2>2, <2>3 DEF Join, Middle, UnderWayKept
<1>7. QED
  BY <1>1, <1>2, <1>3, <1>4, <1>5, <1>6 DEF GameStep

LEMMA DeviceTypes ==
  ASSUME Types, Middle, DeviceStep
  PROVE  Types' /\ Middle'
<1>1. ASSUME ExecPlain PROVE Types' /\ Middle'
  <2>1. QueueTypes' /\ dPc = "main"
    BY <1>1, DeviceEffects DEF Takes
  <2>2. QED
    BY <1>1, <2>1 DEF ExecPlain, Types, Middle, gameVars, deviceVars, bufferVars
<1>2. ASSUME ExecLife PROVE Types' /\ Middle'
  <2>1. Takes /\ dPc = "main" /\ U[1].kind \in {"Init", "Destroy"}
    BY <1>2, DeviceEffects 
  <2>2. actor' \in [CmdBuffs -> {"new", "ready", "destroyed"}]
    BY <1>2 DEF ExecLife, Types
  <2>3. Types'
    BY <1>2, <2>1, <2>2 DEF ExecLife, Types, gameVars, bufferVars, Takes
  <2>4. QED
    BY <1>2, <2>1, <2>3 DEF ExecLife, Middle, gameVars
<1>3. ASSUME ExecFreeStaging PROVE Types' /\ Middle'
  <2>1. Takes /\ dPc = "main" /\ U[1].kind = "FreeStaging"
    BY <1>3, DeviceEffects 
  <2>2. Message(main).buffer \in Buffers /\ Message(main).store \in Stores
    BY <2>1, KindFacts DEF Takes, StagingMsg
  <2>3. Freed \in Nat
    BY FrameAssumption DEF Freed
  <2>4. [i \in Slots |-> Freed] \in [Slots -> Nat]
    BY <2>3
  <2>5. staging' \in [Buffers -> [Stores -> [Slots -> Nat]]]
    BY <1>3, <2>2, <2>4 DEF ExecFreeStaging, Types
  <2>6. QED
    BY <1>3, <2>1, <2>5 DEF ExecFreeStaging, Types, Middle, gameVars, deviceVars, Takes
<1>4. ASSUME ExecPresent PROVE Types' /\ Middle'
  <2>1. QueueTypes' /\ dPc = "main"
    BY <1>4, DeviceEffects DEF Takes
  <2>2. QED
    BY <1>4, <2>1 DEF ExecPresent, Types, Middle, gameVars, bufferVars
<1>5. ASSUME ExecWait PROVE Types' /\ Middle'
  <2>1. QueueTypes' /\ dPc = "main"
    BY <1>5, DeviceEffects DEF Takes
  <2>2. QED
    BY <1>5, <2>1 DEF ExecWait, Types, Middle, gameVars, deviceVars, bufferVars
<1>6. ASSUME ExecTerminate PROVE Types' /\ Middle'
  <2>1. QueueTypes' /\ dPc = "main"
    BY <1>6, DeviceEffects DEF Takes
  <2>2. QED
    BY <1>6, <2>1 DEF ExecTerminate, Types, Middle, gameVars, bufferVars
<1>7. ASSUME FlushBegin PROVE Types' /\ Middle'
  <2>1. Stays /\ Message(main) = U[1] /\ U[1] \in FlushMsg
    BY <1>7, DeviceEffects
  <2>2. todo' = DOMAIN U[1].cmdBuffs /\ todo' \subseteq Nat /\ U[1].kind = "Flush"
    BY <1>7, <2>1, FlushFacts DEF FlushBegin
  <2>3. queue[main].visible > 0
    BY <1>7 DEF FlushBegin, CanExecute, HasNewMessage
  <2>4. Types'
    BY <1>7, <2>1, <2>2 DEF FlushBegin, Types, queueVars, bufferVars, gameVars, Stays
  <2>5. QED
    BY <1>7, <2>1, <2>2, <2>3, <2>4 DEF FlushBegin, Middle, Stays, gameVars
<1>8. ASSUME NEW i \in todo, FlushStep(i) PROVE Types' /\ Middle'
  <2>1. PICK c \in CmdBuffs : c = U[1].cmdBuffs[i] /\ Message(main) = U[1]
    BY <1>8, DeviceEffects
  <2>2. QueueTypes' /\ U' = U /\ queue'[main] = queue[main]
    BY <1>8, <2>1, CmdLoses, MainFacts DEF FlushStep, Types, Others
  <2>3. todo' \subseteq todo
    BY <1>8 DEF FlushStep
  <2>4. Types'
    BY <1>8, <2>2, <2>3 DEF FlushStep, Types, bufferVars, gameVars
  <2>5. QED
    BY <1>8, <2>2, <2>3, <2>4 DEF FlushStep, Middle, gameVars
<1>9. ASSUME FlushEnd PROVE Types' /\ Middle'
  <2>1. QueueTypes'
    BY <1>9, DeviceEffects DEF Takes
  <2>2. QED
    BY <1>9, <2>1 DEF FlushEnd, Types, Middle, gameVars, bufferVars
<1>10. QED
  BY <1>1, <1>2, <1>3, <1>4, <1>5, <1>6, <1>7, <1>8, <1>9 DEF DeviceStep

LEMMA TypeStep ==
  ASSUME Types, Middle, [Next]_vars
  PROVE  Types' /\ Middle'
<1>1. CASE UNCHANGED vars
  <2>1. Stays
    BY <1>1, QueueSame DEF Types, vars, queueVars
  <2>2. QED
    BY <1>1, <2>1 DEF vars, queueVars, bufferVars, gameVars, deviceVars, Types, Middle, Stays
<1>2. QED
  BY <1>1, GameTypes, StepTypes, DeviceTypes DEF Next

-----------------------------------------------------------------------------
(* Frames.                                                                 *)

(* A step that neither presents nor begins a frame.                        *)
LEMMA FramesKept ==
  ASSUME Types, Frames, NEW d \in {0, 1}, NEW in, NEW out, Kept(d, in, out), "Present" \notin in,
         semaphore' = semaphore, frame' = frame, presented' = presented,
         currentIndex' = currentIndex, gPc' = "boundary" <=> gPc = "boundary", Ended => Ended'
  PROVE  Frames'
<1>1. FrameCount'
  BY DEF Frames, FrameCount
<1>2. ASSUME NEW i \in DOMAIN U', U'[i].kind = "Present"
      PROVE  i + d \in DOMAIN U /\ U'[i] = U[i + d] /\ i \in Nat
  BY <1>2 DEF Kept
<1>3. ASSUME NEW i \in DOMAIN U', U'[i].kind = "Present"
      PROVE  /\ presented' <= U'[i].frame /\ U'[i].frame <= frame'
             /\ U'[i].frame = frame' => Ended'
  BY <1>2, <1>3 DEF Frames, PresentsWait
<1>4. ASSUME NEW i \in DOMAIN U', U'[i].kind = "Present",
             NEW j \in DOMAIN U', i < j, U'[j].kind = "Present"
      PROVE  U'[i].frame < U'[j].frame
  <2>1. i + d < j + d
    BY <1>2, <1>4
  <2>2. QED
    BY <1>2, <1>4, <2>1 DEF Frames, PresentsWait
<1>5. QED
  BY <1>1, <1>3, <1>4 DEF Frames, PresentsWait

LEMMA NextIndexFrame ==
  ASSUME Types, currentIndex = frame % MAX_FRAME_INDEX
  PROVE  NextIndex = (frame + 1) % MAX_FRAME_INDEX
<1>1. MAX_FRAME_INDEX \in Nat \ {0} /\ frame \in Int /\ 1 \in Int
  BY IndexType DEF Types
<1>2. ((frame % MAX_FRAME_INDEX) + 1) % MAX_FRAME_INDEX = (frame + 1) % MAX_FRAME_INDEX
  BY <1>1, ModAdd
<1>3. QED
  BY <1>2 DEF NextIndex

LEMMA FrameTypes ==
  ASSUME Types
  PROVE  /\ semaphore \in Nat /\ frame \in Nat /\ presented \in Nat /\ Len(U) \in Nat
         /\ MAX_CPU_FRAME_AHEAD \in Nat \ {0} /\ DOMAIN U = 1..Len(U)
         /\ \A i \in DOMAIN U : U[i] \in MainMsg
         /\ \A i \in DOMAIN U : U[i].kind = "Present" => U[i].frame \in Nat
<1>1. U \in Seq(MainMsg)
  BY QueueFacts, MainFacts DEF Types, U, Q
<1>2. \A i \in DOMAIN U : U[i] \in MainMsg
  BY <1>1
<1>3. \A i \in DOMAIN U : U[i].kind = "Present" => U[i].frame \in Nat
  BY <1>2, KindFacts DEF PresentMsg
<1>4. QED
  BY <1>1, <1>2, <1>3, FrameAssumption DEF Types

LEMMA FramesGame ==
  ASSUME IInv, GameCall \/ GameStep
  PROVE  Frames'
<1>0. Types /\ Middle /\ Frames
  BY DEF IInv
<1>1. ASSUME NEW b \in Buffers, UpdateBuffer(b) PROVE Frames'
  <2>1. Kept(0, {"Update"}, {}) /\ gPc' = gPc
    BY <1>0, <1>1, GameEffects DEF UpdateBuffer, Appends, Update
  <2>2. QED
    BY <1>0, <1>1, <2>1, FramesKept DEF UpdateBuffer, deviceVars, Ended
<1>2. ASSUME NEW b \in Buffers, NEW s, ChangeStore(b, s) PROVE Frames'
  <2>1. Kept(0, {"FreeStaging"}, {}) /\ gPc' = gPc
    BY <1>0, <1>2, GameEffects DEF ChangeStore, Appends, FreeStaging
  <2>2. QED
    BY <1>0, <1>2, <2>1, FramesKept DEF ChangeStore, deviceVars, Ended
<1>3. ASSUME NEW c \in CmdBuffs,
             RecordCommand(c) \/ \E b \in Buffers : RecordUpdateBuffer(c, b) PROVE Frames'
  <2>1. PICK m \in CmdMsg : queue' = [queue EXCEPT ![c] = Enqueue(@, <<m>>)]
    BY <1>0, <1>3, CmdEffects, Subsets DEF RecordCommand, RecordUpdateBuffer
  <2>2. U' = U
    BY <1>0, <2>1, CmdGets DEF Types
  <2>3. Kept(0, {}, {})
    BY <1>0, <2>2, KeptSame DEF Types
  <2>4. QED
    BY <1>0, <1>3, <2>3, FramesKept DEF RecordCommand, RecordUpdateBuffer, deviceVars, Ended
<1>4. ASSUME NEW c \in CmdBuffs, CreateCommandBuffer(c) PROVE Frames'
  <2>1. Kept(0, {"Init"}, {}) /\ gPc' = gPc
    BY <1>0, <1>4, GameEffects DEF CreateCommandBuffer, Appends, Life
  <2>2. QED
    BY <1>0, <1>4, <2>1, FramesKept DEF CreateCommandBuffer, deviceVars, Ended
<1>5. ASSUME NEW c \in CmdBuffs, DestroyCommandBuffer(c) PROVE Frames'
  <2>1. Kept(0, {"Wait"}, {})
    BY <1>0, <1>5, GameEffects DEF Appends, Bare
  <2>2. gPc = "record" /\ gPc' = "wait"
    BY <1>5 DEF DestroyCommandBuffer, NextCall, KickAndWait
  <2>3. QED
    BY <1>0, <1>5, <2>1, <2>2, FramesKept DEF DestroyCommandBuffer, deviceVars, Ended
<1>6. ASSUME NEW cs \in FlushLists, FlushCommands(cs) PROVE Frames'
  <2>1. Kept(0, {}, {})
    BY <1>0, <1>6, QueueSame DEF FlushCommands, queueVars, Types, Stays
  <2>2. gPc = "record" /\ gPc' = "flush"
    BY <1>6 DEF FlushCommands, NextCall
  <2>3. QED
    BY <1>0, <1>6, <2>1, <2>2, FramesKept DEF FlushCommands, queueVars, deviceVars, Ended
<1>7. ASSUME CopyTextureToBuffers PROVE Frames'
  <2>1. Kept(0, {"Copy", "Wait"}, {})
    BY <1>0, <1>7, GameEffects DEF AppendsTwo, Bare
  <2>2. gPc = "record" /\ gPc' = "wait"
    BY <1>7 DEF CopyTextureToBuffers, NextCall, KickAndWait
  <2>3. QED
    BY <1>0, <1>7, <2>1, <2>2, FramesKept DEF CopyTextureToBuffers, deviceVars, Ended
<1>8. ASSUME DestroyDevice PROVE Frames'
  <2>1. Kept(0, {"DeviceDestroy", "Wait"}, {})
    BY <1>0, <1>8, GameEffects DEF AppendsTwo, Bare
  <2>2. gPc = "record" /\ gPc' = "wait"
    BY <1>8 DEF DestroyDevice, KickAndWait
  <2>3. QED
    BY <1>0, <1>8, <2>1, <2>2, FramesKept DEF DestroyDevice, deviceVars, Ended
<1>9. ASSUME Present PROVE Frames'
  <2>1. AppendsTwo(PresentFrame, Free(0))
    BY <1>0, <1>9, GameEffects
  <2>2. /\ gPc = "record" /\ gPc' = "present" /\ frame' = frame /\ presented' = presented
        /\ semaphore' = semaphore /\ currentIndex' = currentIndex
    BY <1>9 DEF Present, deviceVars
  <2>3. FrameCount' /\ PresentsWait
    BY <1>0, <2>2 DEF Frames, FrameCount, Ended
  <2>4. \A i \in DOMAIN U : U[i].kind = "Present" => U[i].frame < frame /\ i < Len(U) + 1
    BY <1>0, <2>2, <2>3, FrameTypes DEF PresentsWait, Ended
  <2>5. U'[Len(U) + 1].frame = frame /\ U'[Len(U) + 2].kind # "Present"
    BY <2>1 DEF AppendsTwo, PresentFrame, Free
  <2>6. \A i \in DOMAIN U' : U'[i].kind = "Present" =>
          (i \in DOMAIN U /\ U'[i] = U[i]) \/ i = Len(U) + 1
    BY <2>1, <2>5 DEF AppendsTwo
  <2>7. Ended' /\ presented <= frame
    BY <1>0, <2>2, FrameTypes DEF Ended, Frames, FrameCount
  <2>8. PresentsWait'
    <3>1. PICK n \in Nat : n = Len(U)
      BY <1>0, FrameTypes
    <3>2. DOMAIN U = 1..n /\ presented' = presented /\ frame' = frame /\ Ended'
      BY <1>0, <2>2, <2>7, <3>1, FrameTypes
    <3>3. ASSUME NEW i \in DOMAIN U', U'[i].kind = "Present"
          PROVE  presented <= U'[i].frame /\ U'[i].frame <= frame
      <4>1. CASE i = n + 1
        BY <2>5, <2>7, <3>1, <4>1, <1>0, FrameTypes
      <4>2. CASE i \in DOMAIN U /\ U'[i] = U[i]
        BY <2>3, <3>3, <4>2 DEF PresentsWait
      <4>3. QED
        BY <2>6, <3>1, <3>3, <4>1, <4>2
    <3>4. ASSUME NEW i \in DOMAIN U', NEW j \in DOMAIN U', i < j,
                 U'[i].kind = "Present", U'[j].kind = "Present"
          PROVE  U'[i].frame < U'[j].frame
      <4>1. i \in Int /\ j \in Int
        BY <2>6, <3>1, <3>2, <3>4
      <4>2. (i \in DOMAIN U /\ U'[i] = U[i]) \/ i = n + 1
        BY <2>6, <3>1, <3>4
      <4>3. (j \in DOMAIN U /\ U'[j] = U[j]) \/ j = n + 1
        BY <2>6, <3>1, <3>4
      <4>4. i \in DOMAIN U /\ U'[i] = U[i]
        BY <3>1, <3>2, <3>4, <4>1, <4>2, <4>3
      <4>5. CASE j = n + 1
        BY <2>4, <2>5, <3>1, <3>4, <4>4, <4>5
      <4>6. CASE j \in DOMAIN U /\ U'[j] = U[j]
        BY <2>3, <3>4, <4>4, <4>6 DEF PresentsWait
      <4>7. QED
        BY <4>3, <4>5, <4>6
    <3>5. QED
      BY <3>2, <3>3, <3>4 DEF PresentsWait
  <2>9. QED
    BY <2>3, <2>8 DEF Frames
<1>10. ASSUME FinishWriting PROVE Frames'
  <2>1. PICK c \in CmdBuffs : c = gTodo[1] /\ c = Head(gTodo)
    BY <1>0, <1>10, CmdEffects
  <2>2. U' = U
    BY <1>0, <1>10, <2>1, CmdEffects, CmdGetsTwo, Subsets DEF FinishWriting, Finished, Types
  <2>3. Kept(0, {}, {})
    BY <1>0, <2>2, KeptSame DEF Types
  <2>4. QED
    BY <1>0, <1>10, <2>3, FramesKept DEF FinishWriting, deviceVars, Ended
<1>11. ASSUME EnqueueFlush PROVE Frames'
  <2>1. Kept(0, {"Flush"}, {})
    BY <1>0, <1>11, GameEffects, FlushFacts DEF EnqueueFlush, Middle, Appends
  <2>2. QED
    BY <1>0, <1>11, <2>1, FramesKept DEF EnqueueFlush, deviceVars, Ended
<1>12. ASSUME PresentFinish PROVE Frames'
  <2>1. Appends(Finish(0)) /\ Finish(0).kind = "Finish"
    BY <1>0, <1>12, GameEffects DEF Finish
  <2>2. /\ gPc = "present" /\ gPc' = "boundary" /\ frame' = frame /\ presented' = presented
        /\ semaphore' = semaphore /\ currentIndex' = (frame + 1) % MAX_FRAME_INDEX
    BY <1>0, <1>12, NextIndexFrame DEF PresentFinish, deviceVars, Frames, FrameCount
  <2>3. \A i \in DOMAIN U' : U'[i].kind = "Present" => i \in DOMAIN U /\ U'[i] = U[i]
    BY <2>1 DEF Appends
  <2>4. FrameCount'
    BY <1>0, <2>2, FrameTypes DEF Frames, FrameCount, Ended
  <2>5. PresentsWait'
    BY <1>0, <2>2, <2>3 DEF Frames, PresentsWait, Ended
  <2>6. QED
    BY <2>4, <2>5 DEF Frames
<1>13. ASSUME FrameBoundary PROVE Frames'
  <2>1. U' = U
    BY <1>0, <1>13, QueueSame DEF FrameBoundary, queueVars, Types, Stays
  <2>2. /\ gPc = "boundary" /\ gPc' = "record" /\ frame' = frame + 1 /\ presented' = presented
        /\ semaphore' = semaphore - 1 /\ currentIndex' = currentIndex
    BY <1>13 DEF FrameBoundary, queueVars, deviceVars
  <2>3. FrameCount'
    BY <1>0, <2>2, FrameTypes DEF Frames, FrameCount, Ended
  <2>4. PresentsWait'
    BY <1>0, <2>1, <2>2, FrameTypes DEF Frames, PresentsWait
  <2>5. QED
    BY <2>3, <2>4 DEF Frames
<1>14. ASSUME WaitReturn PROVE Frames'
  <2>1. Kept(0, {"Destroy", "Terminate"}, {}) /\ gPc = "wait" /\ gPc' \in {"record", "join"}
    BY <1>0, <1>14, WaitReturnEffects DEF WaitReturn, Appends, Stays, Kept, Bare
  <2>2. QED
    BY <1>0, <1>14, <2>1, FramesKept DEF WaitReturn, deviceVars, Ended
<1>15. ASSUME Join PROVE Frames'
  <2>1. Kept(0, {}, {})
    BY <1>0, <1>15, QueueSame DEF Join, queueVars, Types, Stays
  <2>2. QED
    BY <1>0, <1>15, <2>1, FramesKept DEF Join, queueVars, deviceVars, Ended
<1>16. QED
  BY <1>1, <1>2, <1>3, <1>4, <1>5, <1>6, <1>7, <1>8, <1>9, <1>10, <1>11, <1>12, <1>13, <1>14, <1>15
  DEF GameCall, GameStep, ResizeBuffer, DestroyBuffer

LEMMA FramesDevice ==
  ASSUME IInv, DeviceStep
  PROVE  Frames'
<1>0. Types /\ Middle /\ Frames
  BY DEF IInv
<1>1. ASSUME Takes, U[1].kind # "Present", UNCHANGED <<semaphore, frame, presented, currentIndex, gPc>>
      PROVE  Frames'
  BY <1>0, <1>1, FramesKept DEF Takes, Ended
<1>2. ASSUME ExecPlain \/ ExecLife \/ ExecFreeStaging \/ ExecWait \/ ExecTerminate \/ FlushEnd
      PROVE  Frames'
  <2>1. Takes /\ U[1].kind # "Present"
    BY <1>0, <1>2, DeviceEffects
  <2>2. UNCHANGED <<semaphore, frame, presented, currentIndex, gPc>>
    BY <1>2 DEF ExecPlain, ExecLife, ExecFreeStaging, ExecWait, ExecTerminate, FlushEnd,
                gameVars, deviceVars
  <2>3. QED
    BY <1>1, <2>1, <2>2
<1>3. ASSUME ExecPresent PROVE Frames'
  <2>0. Takes /\ U[1].kind = "Present"
    BY <1>0, <1>3, DeviceEffects
  <2>1. Takes /\ U[1].kind = "Present" /\ 1 \in DOMAIN U
    BY <2>0 DEF Takes
  <2>2. /\ gPc' = gPc /\ frame' = frame /\ presented' = presented + 1
        /\ semaphore' = semaphore + 1 /\ currentIndex' = currentIndex
    BY <1>3 DEF ExecPresent, gameVars
  <2>3. U[1].frame \in Nat /\ presented <= U[1].frame /\ U[1].frame <= frame /\ (U[1].frame = frame => Ended)
    BY <1>0, <2>1, FrameTypes DEF Frames, PresentsWait
  <2>4. FrameCount'
    <3>0. FrameCount /\ {semaphore, frame, presented, MAX_CPU_FRAME_AHEAD} \subseteq Nat
      BY <1>0, FrameAssumption DEF Frames, Types
    <3>1. semaphore' + frame' = MAX_CPU_FRAME_AHEAD + presented'
      BY <2>2, <3>0 DEF FrameCount
    <3>2. presented' <= frame' + 1 /\ (presented' > frame' => Ended')
      BY <1>0, <2>2, <2>3, FrameTypes DEF Ended
    <3>3. QED
      BY <1>0, <2>2, <3>1, <3>2 DEF Frames, FrameCount
  <2>5. \A i \in DOMAIN U' : i \in Nat /\ i + 1 \in DOMAIN U /\ 1 < i + 1 /\ U'[i] = U[i + 1]
    BY <2>1 DEF Takes
  <2>6. \A i \in DOMAIN U' : U'[i].kind = "Present" => U[1].frame < U'[i].frame /\ U'[i].frame \in Nat
    BY <1>0, <2>1, <2>5, FrameTypes DEF Frames, PresentsWait
  <2>7. PresentsWait'
    <3>1. ASSUME NEW i \in DOMAIN U', U'[i].kind = "Present"
          PROVE  /\ presented' <= U'[i].frame /\ U'[i].frame <= frame'
                 /\ U'[i].frame = frame' => Ended'
      <4>1. i + 1 \in DOMAIN U /\ U'[i] = U[i + 1] /\ U'[i].frame \in Nat
        BY <2>5, <2>6, <3>1
      <4>2. U'[i].frame <= frame /\ (U'[i].frame = frame => Ended)
        BY <1>0, <3>1, <4>1 DEF Frames, PresentsWait
      <4>3. presented + 1 <= U'[i].frame
        BY <2>3, <2>6, <3>1, <4>1, FrameTypes, <1>0
      <4>4. QED
        BY <2>2, <4>2, <4>3 DEF Ended
    <3>2. ASSUME NEW i \in DOMAIN U', NEW j \in DOMAIN U', i < j,
                 U'[i].kind = "Present", U'[j].kind = "Present"
          PROVE  U'[i].frame < U'[j].frame
      <4>1. /\ i + 1 \in DOMAIN U /\ U'[i] = U[i + 1] /\ j + 1 \in DOMAIN U /\ U'[j] = U[j + 1]
            /\ i + 1 < j + 1
        BY <2>5, <3>2
      <4>2. QED
        BY <1>0, <3>2, <4>1 DEF Frames, PresentsWait
    <3>3. QED
      BY <3>1, <3>2 DEF PresentsWait
  <2>8. QED
    BY <2>4, <2>7 DEF Frames
<1>4. ASSUME FlushBegin \/ \E i \in todo : FlushStep(i) PROVE Frames'
  <2>1. U' = U
    <3>1. CASE FlushBegin
      BY <1>0, <3>1, DeviceEffects DEF Stays
    <3>2. ASSUME NEW i \in todo, FlushStep(i) PROVE U' = U
      <4>1. PICK c \in CmdBuffs : c = U[1].cmdBuffs[i] /\ Message(main) = U[1]
        BY <1>0, <3>2, DeviceEffects
      <4>2. QED
        BY <1>0, <3>2, <4>1, CmdLoses DEF FlushStep, Types
    <3>3. QED
      BY <1>4, <3>1, <3>2
  <2>2. Kept(0, {}, {})
    BY <1>0, <2>1, KeptSame DEF Types
  <2>3. UNCHANGED <<semaphore, frame, presented, currentIndex, gPc>>
    BY <1>4 DEF FlushBegin, FlushStep, queueVars, gameVars
  <2>4. QED
    BY <1>0, <2>2, <2>3, FramesKept DEF Ended
<1>5. QED
  BY <1>2, <1>3, <1>4 DEF DeviceStep

-----------------------------------------------------------------------------
(* Flushes.                                                                *)

LEMMA ListsKept ==
  ASSUME NEW d \in {0, 1}, NEW in, NEW out, Kept(d, in, out), "Flush" \notin in, "Flush" \notin out
  PROVE  /\ \A c, i : i \in DOMAIN U' /\ Lists(i, c)' =>
              i \in Nat \ {0} /\ i + d \in DOMAIN U /\ Lists(i + d, c) /\ U'[i] = U[i + d]
         /\ \A c, i : i \in DOMAIN U /\ Lists(i, c) =>
              i \in Nat /\ i > d /\ i - d \in DOMAIN U' /\ Lists(i - d, c)' /\ U'[i - d] = U[i]
<1>1. ASSUME NEW c, NEW i \in DOMAIN U', Lists(i, c)'
      PROVE  i \in Nat \ {0} /\ i + d \in DOMAIN U /\ Lists(i + d, c) /\ U'[i] = U[i + d]
  BY <1>1 DEF Kept, Lists
<1>2. ASSUME NEW c, NEW i \in DOMAIN U, Lists(i, c)
      PROVE  i \in Nat /\ i > d /\ i - d \in DOMAIN U' /\ Lists(i - d, c)' /\ U'[i - d] = U[i]
  BY <1>2 DEF Kept, Lists
<1>3. QED
  BY <1>1, <1>2

LEMMA SameQueue ==
  ASSUME NEW c \in CmdBuffs, queue'[c] = queue[c], flushes'[c] = flushes[c], Order(c)
  PROVE  Order(c)' /\ Q(c)' = Q(c) /\ \A n : FinishFor(c, n)' <=> FinishFor(c, n)
BY DEF Order, FinishFor, Q

SameFlush ==
  \A c \in CmdBuffs :
    /\ Flushing(c)' <=> Flushing(c)
    /\ Flushing(c) => gThen'.number[c] = gThen.number[c] /\ (InTodo(c)' <=> InTodo(c))

LEMMA FlushesKept ==
  ASSUME Types, Middle, Flushes, NEW d \in {0, 1}, NEW in, NEW out, Kept(d, in, out),
         "Flush" \notin in, "Flush" \notin out, SameCmds, flushes' = flushes, SameFlush,
         dPc' = "flush" <=> dPc = "flush", dPc = "flush" => d = 0 /\ 1 \in DOMAIN U /\ todo' = todo
  PROVE  Flushes'
<1>1. /\ \A c, i : i \in DOMAIN U' /\ Lists(i, c)' =>
           i \in Nat \ {0} /\ i + d \in DOMAIN U /\ Lists(i + d, c) /\ U'[i] = U[i + d]
      /\ \A c, i : i \in DOMAIN U /\ Lists(i, c) =>
           i \in Nat /\ i > d /\ i - d \in DOMAIN U' /\ Lists(i - d, c)' /\ U'[i - d] = U[i]
  BY ListsKept
<1>2. ASSUME NEW c \in CmdBuffs PROVE UnderWay(c)' <=> UnderWay(c)
  <2>1. dPc = "flush" => U'[1] = U[1]
    BY DEF Kept
  <2>2. QED
    BY <2>1 DEF UnderWay
<1>3. Numbers'
  BY <1>1 DEF Flushes, Numbers, SameFlush
<1>4. ASSUME NEW c \in CmdBuffs PROVE Order(c)' /\ Carried(c)'
  <2>1. Order(c) /\ Carried(c) /\ queue'[c] = queue[c] /\ flushes'[c] = flushes[c]
    BY DEF Flushes, SameCmds
  <2>2. Order(c)' /\ Q(c)' = Q(c) /\ \A n : FinishFor(c, n)' <=> FinishFor(c, n)
    BY <2>1, SameQueue
  <2>3. ASSUME NEW p \in DOMAIN Q(c), Q(c)[p].flush <= flushes[c]
        PROVE  \/ Flushing(c)' /\ gThen'.number[c] = Q(c)[p].flush
               \/ \E i \in DOMAIN U' : Lists(i, c)' /\ U'[i].number[c] = Q(c)[p].flush
    <3>1. CASE Flushing(c) /\ gThen.number[c] = Q(c)[p].flush
      BY <3>1 DEF SameFlush
    <3>2. ASSUME NEW i \in DOMAIN U, Lists(i, c), U[i].number[c] = Q(c)[p].flush
          PROVE  \E j \in DOMAIN U' : Lists(j, c)' /\ U'[j].number[c] = Q(c)[p].flush
      <4>1. i - d \in DOMAIN U' /\ Lists(i - d, c)' /\ U'[i - d] = U[i]
        BY <1>1, <3>2
      <4>2. QED
        BY <3>2, <4>1
    <3>3. QED
      BY <2>1, <2>3, <3>1, <3>2 DEF Carried
  <2>4. ASSUME NEW i \in DOMAIN U', Lists(i, c)', ~(i = 1 /\ UnderWay(c)')
        PROVE  FinishFor(c, U[i].number[c])'
    <3>1. i \in Nat \ {0} /\ i + d \in DOMAIN U /\ Lists(i + d, c) /\ U'[i] = U[i + d]
      BY <1>1, <2>4
    <3>2. ~(i + d = 1 /\ UnderWay(c))
      BY <1>2, <2>4, <3>1
    <3>3. FinishFor(c, U[i + d].number[c])
      BY <2>1, <3>1, <3>2 DEF Carried
    <3>4. QED
      BY <2>2, <3>1, <3>3 DEF FinishFor
  <2>5. Flushing(c)' /\ ~InTodo(c)' => FinishFor(c, gThen.number[c])'
    BY <2>1, <2>2 DEF SameFlush, Carried, FinishFor
  <2>6. ASSUME UnderWay(c)', Lists(1, c)', NEW p \in DOMAIN Q(c)
        PROVE  Q(c)[p].flush > U'[1].number[c]
    <3>1. UnderWay(c) /\ d = 0 /\ 1 \in DOMAIN U'
      BY <1>2, <2>6 DEF UnderWay, Kept
    <3>2. Lists(1, c) /\ U'[1] = U[1]
      BY <1>1, <2>6, <3>1
    <3>3. QED
      BY <2>1, <3>1, <3>2 DEF Carried
  <2>7. QED
    BY <2>2, <2>3, <2>4, <2>5, <2>6 DEF Carried
<1>5. QED
  BY <1>3, <1>4 DEF Flushes

LEMMA SameFlushes ==
  /\ gPc # "flush" /\ gPc' # "flush" => SameFlush
  /\ UNCHANGED <<gPc, gThen, gTodo>> => SameFlush
BY DEF SameFlush, Flushing, InTodo

LEMMA FirstUnderWay ==
  ASSUME Types, Middle, dPc = "flush"
  PROVE  1 \in DOMAIN U /\ U[1] \in FlushMsg /\ Message(main) = U[1]
<1>1. U \in Seq(MainMsg) /\ queue[main].visible \in 0..Len(U)
  BY QueueFacts, MainFacts DEF Types, U, Q
<1>2. 1 \in DOMAIN U /\ U[1] \in MainMsg /\ U[1] = Head(U)
  BY <1>1 DEF Middle
<1>3. QED
  BY <1>2, KindFacts DEF Middle, Message, U

(* The actions that neither flush nor touch a command queue.               *)
Quiet == {"Init", "Wait", "Copy", "DeviceDestroy", "Present", "Free", "Finish", "Destroy",
          "Terminate"}
Elsewhere(in) ==
  /\ Kept(0, in, {}) /\ SameCmds
  /\ gPc # "flush" /\ gPc' # "flush" /\ flushes' = flushes /\ UNCHANGED deviceVars

LEMMA KeptMore ==
  ASSUME NEW d, NEW in, NEW in2, NEW out, Kept(d, in, out), in \subseteq in2
  PROVE  Kept(d, in2, out)
BY DEF Kept

LEMMA ElsewhereSteps ==
  ASSUME Types, Middle
  PROVE  /\ \A b \in Buffers : UpdateBuffer(b) => Elsewhere({"Update"})
         /\ \A b \in Buffers : \A s : ChangeStore(b, s) => Elsewhere({"FreeStaging"})
         /\ \A c \in CmdBuffs : CreateCommandBuffer(c) => Elsewhere(Quiet)
         /\ \A c \in CmdBuffs : DestroyCommandBuffer(c) => Elsewhere(Quiet)
         /\ CopyTextureToBuffers => Elsewhere(Quiet)
         /\ DestroyDevice => Elsewhere(Quiet)
         /\ Present => Elsewhere(Quiet)
         /\ PresentFinish => Elsewhere(Quiet)
         /\ FrameBoundary => Elsewhere(Quiet)
         /\ WaitReturn => Elsewhere(Quiet)
         /\ Join => Elsewhere(Quiet)
<1>1. ASSUME NEW b \in Buffers, UpdateBuffer(b) PROVE Elsewhere({"Update"})
  <2>1. Kept(0, {"Update"}, {}) /\ SameCmds
    BY <1>1, GameEffects DEF Appends, Update
  <2>2. QED
    BY <1>1, <2>1, KeptMore DEF Elsewhere, UpdateBuffer, NextCall, Quiet
<1>2. ASSUME NEW b \in Buffers, NEW s, ChangeStore(b, s) PROVE Elsewhere({"FreeStaging"})
  <2>1. Kept(0, {"FreeStaging"}, {}) /\ SameCmds
    BY <1>2, GameEffects DEF Appends, FreeStaging
  <2>2. QED
    BY <1>2, <2>1, KeptMore DEF Elsewhere, ChangeStore, NextCall, Quiet
<1>3. ASSUME NEW c \in CmdBuffs, CreateCommandBuffer(c) PROVE Elsewhere(Quiet)
  <2>1. Kept(0, {"Init"}, {}) /\ SameCmds
    BY <1>3, GameEffects DEF Appends, Life
  <2>2. QED
    BY <1>3, <2>1, KeptMore DEF Elsewhere, CreateCommandBuffer, NextCall, Quiet
<1>4. ASSUME NEW c \in CmdBuffs, DestroyCommandBuffer(c) PROVE Elsewhere(Quiet)
  <2>1. Kept(0, {"Wait"}, {}) /\ SameCmds
    BY <1>4, GameEffects DEF Appends, Bare
  <2>2. QED
    BY <1>4, <2>1, KeptMore DEF Elsewhere, DestroyCommandBuffer, KickAndWait, NextCall, Quiet
<1>5. ASSUME CopyTextureToBuffers PROVE Elsewhere(Quiet)
  <2>1. Kept(0, {"Copy", "Wait"}, {}) /\ SameCmds
    BY <1>5, GameEffects DEF AppendsTwo, Bare
  <2>2. QED
    BY <1>5, <2>1, KeptMore DEF Elsewhere, CopyTextureToBuffers, KickAndWait, NextCall, Quiet
<1>6. ASSUME DestroyDevice PROVE Elsewhere(Quiet)
  <2>1. Kept(0, {"DeviceDestroy", "Wait"}, {}) /\ SameCmds
    BY <1>6, GameEffects DEF AppendsTwo, Bare
  <2>2. QED
    BY <1>6, <2>1, KeptMore DEF Elsewhere, DestroyDevice, KickAndWait, Quiet
<1>7. ASSUME Present PROVE Elsewhere(Quiet)
  <2>1. Kept(0, {"Present", "Free"}, {}) /\ SameCmds
    BY <1>7, GameEffects DEF AppendsTwo, PresentFrame, Free
  <2>2. QED
    BY <1>7, <2>1, KeptMore DEF Elsewhere, Present, Quiet
<1>8. ASSUME PresentFinish PROVE Elsewhere(Quiet)
  <2>1. Kept(0, {"Finish"}, {}) /\ SameCmds
    BY <1>8, GameEffects DEF Appends, Finish
  <2>2. QED
    BY <1>8, <2>1, KeptMore DEF Elsewhere, PresentFinish, Quiet
<1>9. ASSUME FrameBoundary PROVE Elsewhere(Quiet)
  <2>1. Kept(0, {}, {}) /\ SameCmds
    BY <1>9, QueueSame DEF FrameBoundary, queueVars, Stays, Types
  <2>2. QED
    BY <1>9, <2>1, KeptMore DEF Elsewhere, FrameBoundary, queueVars
<1>10. ASSUME WaitReturn PROVE Elsewhere(Quiet)
  <2>1. /\ Kept(0, {}, {}) \/ Kept(0, {"Destroy"}, {}) \/ Kept(0, {"Terminate"}, {})
        /\ SameCmds /\ gPc' # "flush"
    BY <1>10, WaitReturnEffects DEF Appends, Stays, Bare
  <2>2. Kept(0, Quiet, {})
    BY <2>1, KeptMore DEF Quiet
  <2>3. QED
    BY <1>10, <2>1, <2>2 DEF Elsewhere, WaitReturn
<1>11. ASSUME Join PROVE Elsewhere(Quiet)
  <2>1. Kept(0, {}, {}) /\ SameCmds
    BY <1>11, QueueSame DEF Join, queueVars, Stays, Types
  <2>2. QED
    BY <1>11, <2>1, KeptMore DEF Elsewhere, Join, queueVars
<1>12. QED
  BY <1>1, <1>2, <1>3, <1>4, <1>5, <1>6, <1>7, <1>8, <1>9, <1>10, <1>11

LEMMA FlushesElsewhere ==
  ASSUME Types, Middle, Flushes, NEW in, Elsewhere(in), "Flush" \notin in
  PROVE  Flushes'
BY FlushesKept, SameFlushes, FirstUnderWay DEF Elsewhere, deviceVars

LEMMA FlushesExec ==
  ASSUME Types, Middle, Flushes,
         ExecPlain \/ ExecLife \/ ExecFreeStaging \/ ExecPresent \/ ExecWait \/ ExecTerminate
  PROVE  Flushes'
<1>1. Takes /\ dPc = "main" /\ U[1].kind # "Flush"
  BY DeviceEffects
<1>2. UNCHANGED <<gPc, gThen, gTodo, flushes>> /\ dPc' # "flush"
  BY <1>1 DEF ExecPlain, ExecLife, ExecFreeStaging, ExecPresent, ExecWait, ExecTerminate,
              gameVars, deviceVars
<1>3. QED
  BY <1>1, <1>2, FlushesKept, SameFlushes DEF Takes

(* What is known of a command queue, and of the messages for it.           *)
LEMMA CmdTypes ==
  ASSUME Types, NEW c \in CmdBuffs
  PROVE  /\ Len(Q(c)) \in Nat /\ DOMAIN Q(c) = 1..Len(Q(c)) /\ flushes[c] \in Nat
         /\ queue[c].visible \in 0..Len(Q(c))
         /\ \A p \in DOMAIN Q(c) : Q(c)[p] \in CmdMsg /\ Q(c)[p].flush \in Nat
         /\ \A i \in DOMAIN U : Lists(i, c) => U[i] \in FlushMsg /\ U[i].number[c] \in Nat
         /\ gThen \in FlushMsg /\ c \in DOMAIN gThen.number => gThen.number[c] \in Nat
<1>1. QueueTypes /\ flushes[c] \in Nat
  BY DEF Types
<1>2. Q(c) \in Seq(CmdMsg) /\ queue[c].visible \in 0..Len(Q(c))
  BY <1>1, QueueFacts, MainFacts
<1>3. ASSUME NEW p \in DOMAIN Q(c) PROVE Q(c)[p] \in CmdMsg /\ Q(c)[p].flush \in Nat
  <2>1. Q(c)[p] \in CmdMsg /\ Q(c)[p] \in MainMsg
    BY <1>2, Subsets
  <2>2. QED
    BY <2>1, KindFacts
<1>4. ASSUME NEW i \in DOMAIN U, Lists(i, c) PROVE U[i] \in FlushMsg /\ U[i].number[c] \in Nat
  <2>1. U[i] \in FlushMsg
    BY <1>4, FrameTypes, KindFacts DEF Lists
  <2>2. QED
    BY <1>4, <2>1, FlushFacts DEF Lists
<1>5. QED
  BY <1>1, <1>2, <1>3, <1>4, FlushFacts

LEMMA FlushesRecord ==
  ASSUME Types, Types', Middle, Flushes, NEW c \in CmdBuffs, NEW m \in CmdMsg,
         queue' = [queue EXCEPT ![c] = Enqueue(@, <<m>>)],
         m.flush = flushes[c] + 1, m.kind # "Finish",
         UNCHANGED <<flushes, gPc, gThen, gTodo, dPc, todo>>
  PROVE  Flushes'
<1>1. /\ U' = U /\ Others(c) /\ Longer(c, 1) /\ Q(c)'[Len(Q(c)) + 1] = m
      /\ queue'[c].visible = queue[c].visible
  BY CmdGets DEF Types
<1>2. /\ Len(Q(c)) \in Nat /\ DOMAIN Q(c) = 1..Len(Q(c)) /\ flushes[c] \in Nat
      /\ queue[c].visible \in 0..Len(Q(c))
      /\ \A p \in DOMAIN Q(c) : Q(c)[p] \in CmdMsg /\ Q(c)[p].flush \in Nat
      /\ \A i \in DOMAIN U : Lists(i, c) => U[i].number[c] \in Nat
  BY CmdTypes
<1>3. Numbers'
  BY <1>1 DEF Flushes, Numbers, Lists, Flushing, InTodo
<1>4. \A p \in DOMAIN Q(c)' :
        \/ p \in DOMAIN Q(c) /\ Q(c)'[p] = Q(c)[p] /\ p < Len(Q(c)) + 1
        \/ p = Len(Q(c)) + 1 /\ Q(c)'[p].flush = flushes[c] + 1 /\ Q(c)'[p].kind # "Finish"
  BY <1>1, <1>2 DEF Longer
<1>5. \A p \in DOMAIN Q(c) : p \in DOMAIN Q(c)' /\ Q(c)'[p] = Q(c)[p]
  BY <1>1, <1>2 DEF Longer
<1>6. Order(c)'
  <2>1. Order(c)
    BY DEF Flushes
  <2>2. ASSUME NEW p \in DOMAIN Q(c)'
        PROVE  /\ Q(c)'[p].flush <= flushes[c] + 1
               /\ Q(c)'[p].kind = "Finish" => Q(c)'[p].flush <= flushes[c]
               /\ Q(c)'[p].flush <= flushes[c] <=> p <= queue[c].visible
    BY <1>2, <1>4, <2>1, <2>2 DEF Order
  <2>3. ASSUME NEW p \in DOMAIN Q(c)', NEW q \in DOMAIN Q(c)', p < q
        PROVE  /\ Q(c)'[p].flush <= Q(c)'[q].flush
               /\ Q(c)'[p].kind = "Finish" => Q(c)'[p].flush < Q(c)'[q].flush
    <3>1. p \in DOMAIN Q(c) /\ Q(c)'[p] = Q(c)[p]
      BY <1>2, <1>4, <2>3
    <3>2. CASE q \in DOMAIN Q(c) /\ Q(c)'[q] = Q(c)[q]
      BY <2>1, <2>3, <3>1, <3>2 DEF Order
    <3>3. CASE Q(c)'[q].flush = flushes[c] + 1
      BY <1>2, <2>1, <3>1, <3>3 DEF Order
    <3>4. QED
      BY <1>4, <3>2, <3>3
  <2>4. flushes' = flushes /\ queue'[c].visible = queue[c].visible
    BY <1>1
  <2>5. QED
    BY <2>2, <2>3, <2>4 DEF Order
<1>7. Carried(c)'
  <2>1. Carried(c) /\ Numbers
    BY DEF Flushes
  <2>2. \A n : FinishFor(c, n) => \E p \in DOMAIN Q(c)' : Q(c)'[p].kind = "Finish" /\ Q(c)'[p].flush = n
    BY <1>5 DEF FinishFor
  <2>3. ASSUME NEW p \in DOMAIN Q(c)', Q(c)'[p].flush <= flushes[c]
        PROVE  \/ Flushing(c) /\ gThen.number[c] = Q(c)'[p].flush
               \/ \E i \in DOMAIN U : Lists(i, c) /\ U[i].number[c] = Q(c)'[p].flush
    <3>1. p \in DOMAIN Q(c) /\ Q(c)'[p] = Q(c)[p]
      BY <1>2, <1>4, <2>3
    <3>2. QED
      BY <2>1, <2>3, <3>1 DEF Carried
  <2>4. ASSUME UnderWay(c), Lists(1, c), NEW p \in DOMAIN Q(c)' PROVE Q(c)'[p].flush > U[1].number[c]
    <3>1. 1 \in DOMAIN U
      BY <2>4, FirstUnderWay DEF UnderWay
    <3>2. U[1].number[c] <= flushes[c] /\ U[1].number[c] \in Nat
      BY <1>2, <2>1, <2>4, <3>1 DEF Numbers
    <3>3. QED
      BY <1>2, <1>4, <2>1, <2>4, <3>2 DEF Carried
  <2>5. /\ \A i \in DOMAIN U : Lists(i, c) /\ ~(i = 1 /\ UnderWay(c)) => FinishFor(c, U[i].number[c])
        /\ Flushing(c) /\ ~InTodo(c) => FinishFor(c, gThen.number[c])
    BY <2>1 DEF Carried
  <2>6. /\ Flushing(c)' <=> Flushing(c)
        /\ UnderWay(c)' <=> UnderWay(c)
        /\ InTodo(c)' <=> InTodo(c)
        /\ \A i : Lists(i, c)' <=> Lists(i, c)
    BY <1>1 DEF Flushing, UnderWay, InTodo, Lists
  <2>7. QED
    BY <1>1, <2>2, <2>3, <2>4, <2>5, <2>6 DEF Carried, FinishFor
<1>8. ASSUME NEW x \in CmdBuffs, x # c PROVE Order(x)' /\ Carried(x)'
  <2>1. queue'[x] = queue[x]
    BY <1>1, <1>8, MainFacts DEF Others
  <2>2. QED
    <3>1. Order(x) /\ Carried(x)
      BY DEF Flushes
    <3>2. Order(x)'
      BY <1>1, <2>1, <3>1 DEF Order, Q
    <3>3. Carried(x)'
      BY <1>1, <2>1, <3>1 DEF Carried, Lists, Flushing, UnderWay, InTodo, FinishFor, Q
    <3>4. QED
      BY <3>2, <3>3
<1>9. QED
  BY <1>3, <1>6, <1>7, <1>8 DEF Flushes

LEMMA FlushBegins ==
  ASSUME Types, NEW cs \in FlushLists, FlushCommands(cs)
  PROVE  /\ gPc = "record" /\ gPc' = "flush" /\ Stays /\ flushes' = flushes
         /\ dPc' = dPc /\ todo' = todo
         /\ \A c \in CmdBuffs : ~Flushing(c) /\ (Flushing(c)' => InTodo(c)' /\ agent[c] = "live")
         /\ \A c \in CmdBuffs : Flushing(c)' => gThen'.number[c] = flushes[c] + 1
<1>1. gPc = "record" /\ gPc' = "flush" /\ Stays /\ flushes' = flushes /\ dPc' = dPc /\ todo' = todo
  BY QueueSame DEF FlushCommands, NextCall, queueVars, deviceVars, Types
<1>2. gThen' = Flush(cs, [c \in {cs[i] : i \in DOMAIN cs} |-> flushes[c] + 1]) /\ gTodo' = cs
  BY DEF FlushCommands
<1>3. gThen'.number = [c \in {cs[i] : i \in DOMAIN cs} |-> flushes[c] + 1]
  BY <1>2 DEF Flush
<1>4. ASSUME NEW c \in CmdBuffs, Flushing(c)'
      PROVE  InTodo(c)' /\ agent[c] = "live" /\ gThen'.number[c] = flushes[c] + 1
  <2>1. c \in {cs[i] : i \in DOMAIN cs}
    BY <1>3, <1>4 DEF Flushing
  <2>2. PICK i \in DOMAIN cs : cs[i] = c
    BY <2>1
  <2>3. QED
    BY <1>2, <1>3, <2>1, <2>2 DEF InTodo, FlushCommands
<1>5. QED
  BY <1>1, <1>4 DEF Flushing

LEMMA FlushesCommands ==
  ASSUME Types, Middle, Flushes, NEW cs \in FlushLists, FlushCommands(cs)
  PROVE  Flushes'
<1>1. /\ Stays /\ flushes' = flushes /\ dPc' = dPc /\ todo' = todo
      /\ \A c \in CmdBuffs : ~Flushing(c) /\ (Flushing(c)' => InTodo(c)')
      /\ \A c \in CmdBuffs : Flushing(c)' => gThen'.number[c] = flushes[c] + 1
  BY FlushBegins
<1>2. U' = U /\ SameCmds
  BY <1>1 DEF Stays
<1>3. ASSUME NEW c \in CmdBuffs
      PROVE  /\ \A i : Lists(i, c)' <=> Lists(i, c)
             /\ UnderWay(c)' <=> UnderWay(c)
             /\ queue'[c] = queue[c] /\ Q(c)' = Q(c)
  BY <1>1, <1>2 DEF Lists, UnderWay, SameCmds, Q
<1>4. Numbers'
  <2>1. \A c \in CmdBuffs : \A i \in DOMAIN U : Lists(i, c) =>
          U[i].number[c] \in Nat /\ flushes[c] \in Nat
    BY CmdTypes
  <2>2. Numbers
    BY DEF Flushes
  <2>3. ASSUME NEW c \in CmdBuffs, NEW i \in DOMAIN U, Lists(i, c), Flushing(c)'
        PROVE  U[i].number[c] < gThen'.number[c]
    BY <1>1, <2>1, <2>2, <2>3 DEF Numbers
  <2>4. QED
    BY <1>1, <1>2, <1>3, <2>2, <2>3 DEF Numbers
<1>5. ASSUME NEW c \in CmdBuffs PROVE Order(c)' /\ Carried(c)'
  <2>1. Order(c) /\ Carried(c) /\ flushes'[c] = flushes[c]
    BY <1>1 DEF Flushes
  <2>2. Order(c)' /\ \A n : FinishFor(c, n)' <=> FinishFor(c, n)
    BY <1>3, <2>1, SameQueue
  <2>3. Carried(c)'
    BY <1>1, <1>2, <1>3, <2>1 DEF Carried, FinishFor
  <2>4. QED
    BY <2>2, <2>3
<1>6. QED
  BY <1>4, <1>5 DEF Flushes

LEMMA FlushesFinish ==
  ASSUME Types, Types', Middle, Flushes, FinishWriting
  PROVE  Flushes'
<1>1. PICK c \in CmdBuffs : c = gTodo[1] /\ c = Head(gTodo)
  BY CmdEffects
<1> DEFINE n == flushes[c] + 1
<1>2. /\ Flushing(c) /\ InTodo(c) /\ \A x \in CmdBuffs : InTodo(x)' <=> InTodo(x) /\ x # c
      /\ flushes[c] \in Nat /\ Free(n) \in CmdMsg /\ Finish(n) \in CmdMsg
  BY <1>1, CmdEffects, Subsets
<1>3. /\ queue' = [queue EXCEPT ![c] = Kick(Enqueue(@, <<Free(n), Finish(n)>>))]
      /\ flushes' = [flushes EXCEPT ![c] = n]
      /\ UNCHANGED <<gPc, gThen, dPc, todo>>
  BY <1>1 DEF FinishWriting, Finished, deviceVars
<1> HIDE DEF n
<1>0. QueueTypes
  BY DEF Types
<1>4. /\ U' = U /\ Others(c) /\ Longer(c, 2)
      /\ Q(c)'[Len(Q(c)) + 1] = Free(n) /\ Q(c)'[Len(Q(c)) + 2] = Finish(n)
      /\ queue'[c].visible = Len(Q(c)) + 2
  BY <1>0, <1>2, <1>3, CmdGetsTwo
<1>5. /\ Len(Q(c)) \in Nat /\ DOMAIN Q(c) = 1..Len(Q(c)) /\ flushes[c] \in Nat
      /\ \A p \in DOMAIN Q(c) : Q(c)[p].flush \in Nat
      /\ \A i \in DOMAIN U : Lists(i, c) => U[i].number[c] \in Nat
  BY CmdTypes
<1>6. /\ n = flushes[c] + 1 /\ n \in Nat /\ flushes'[c] = n
      /\ \A x \in CmdBuffs : x # c => flushes'[x] = flushes[x] /\ queue'[x] = queue[x]
  BY <1>3, <1>4, <1>5, MainFacts DEF n, Others, Types
<1>7. Numbers /\ Order(c) /\ Carried(c)
  BY DEF Flushes
<1>8. gThen.number[c] = n
  BY <1>2, <1>6, <1>7 DEF Numbers
<1>9. /\ \A x : Flushing(x)' <=> Flushing(x)
      /\ \A x : UnderWay(x)' <=> UnderWay(x)
      /\ \A x, i : Lists(i, x)' <=> Lists(i, x)
  BY <1>3, <1>4 DEF Flushing, UnderWay, Lists
<1>10. Numbers'
  <2>1. ASSUME NEW i \in DOMAIN U, Lists(i, c) PROVE U[i].number[c] <= flushes'[c]
    BY <1>5, <1>6, <1>7, <2>1 DEF Numbers
  <2>2. QED
    BY <1>2, <1>3, <1>4, <1>6, <1>7, <1>8, <1>9, <2>1 DEF Numbers
<1>11. \A p \in DOMAIN Q(c)' :
         \/ p \in DOMAIN Q(c) /\ Q(c)'[p] = Q(c)[p] /\ p < Len(Q(c)) + 1
         \/ p = Len(Q(c)) + 1 /\ Q(c)'[p].flush = n /\ Q(c)'[p].kind # "Finish"
         \/ p = Len(Q(c)) + 2 /\ Q(c)'[p].flush = n
  BY <1>4, <1>5 DEF Longer, Free, Finish
<1>12. \A p \in DOMAIN Q(c) : p \in DOMAIN Q(c)' /\ Q(c)'[p] = Q(c)[p]
  BY <1>4, <1>5 DEF Longer
<1>13. \E p \in DOMAIN Q(c)' : Q(c)'[p].kind = "Finish" /\ Q(c)'[p].flush = n
  <2>1. Len(Q(c)) + 2 \in DOMAIN Q(c)' /\ Finish(n).kind = "Finish" /\ Finish(n).flush = n
    BY <1>4, <1>5 DEF Longer, Finish
  <2>2. QED
    BY <1>4, <2>1
<1>14. Order(c)'
  <2>1. \A p \in DOMAIN Q(c)' : p <= Len(Q(c)) + 2 /\ Q(c)'[p].flush <= n
    BY <1>5, <1>6, <1>7, <1>11 DEF Order
  <2>2. \A p, q \in DOMAIN Q(c)' : p < q =>
           /\ Q(c)'[p].flush <= Q(c)'[q].flush
           /\ Q(c)'[p].kind = "Finish" => Q(c)'[p].flush < Q(c)'[q].flush
    BY <1>5, <1>6, <1>7, <1>11 DEF Order
  <2>3. \A p \in DOMAIN Q(c)' : Q(c)'[p].flush \in Nat
    BY <1>5, <1>6, <1>11
  <2>4. QED
    BY <1>4, <1>6, <2>1, <2>2, <2>3 DEF Order
<1>15. Carried(c)'
  <2>1. ASSUME NEW p \in DOMAIN Q(c)', Q(c)'[p].flush <= n
        PROVE  \/ Flushing(c) /\ gThen.number[c] = Q(c)'[p].flush
               \/ \E i \in DOMAIN U : Lists(i, c) /\ U[i].number[c] = Q(c)'[p].flush
    <3>1. CASE Q(c)'[p].flush = n
      BY <1>2, <1>8, <3>1
    <3>2. CASE Q(c)'[p].flush # n
      <4>1. p \in DOMAIN Q(c) /\ Q(c)'[p] = Q(c)[p] /\ Q(c)[p].flush <= flushes[c]
        BY <1>5, <1>6, <1>11, <2>1, <3>2
      <4>2. QED
        BY <1>7, <4>1 DEF Carried
    <3>3. QED
      BY <3>1, <3>2
  <2>2. ASSUME NEW i \in DOMAIN U, Lists(i, c), ~(i = 1 /\ UnderWay(c))
        PROVE  \E p \in DOMAIN Q(c)' : Q(c)'[p].kind = "Finish" /\ Q(c)'[p].flush = U[i].number[c]
    BY <1>7, <1>12, <2>2 DEF Carried, FinishFor
  <2>3. ASSUME UnderWay(c), Lists(1, c), NEW p \in DOMAIN Q(c)' PROVE Q(c)'[p].flush > U[1].number[c]
    <3>1. 1 \in DOMAIN U
      BY <2>3, FirstUnderWay DEF UnderWay
    <3>2. U[1].number[c] <= flushes[c] /\ U[1].number[c] \in Nat
      BY <1>5, <1>7, <2>3, <3>1 DEF Numbers
    <3>3. QED
      BY <1>5, <1>6, <1>7, <1>11, <2>3, <3>2 DEF Carried
  <2>4. QED
    BY <1>3, <1>4, <1>6, <1>8, <1>9, <1>13, <2>1, <2>2, <2>3 DEF Carried, FinishFor
<1>16. ASSUME NEW x \in CmdBuffs, x # c PROVE Order(x)' /\ Carried(x)'
  <2>1. queue'[x] = queue[x] /\ flushes'[x] = flushes[x] /\ Order(x) /\ Carried(x)
    BY <1>6, <1>16 DEF Flushes
  <2>2. Order(x)' /\ Q(x)' = Q(x)
    BY <2>1, SameQueue
  <2>3. Carried(x)'
    BY <1>2, <1>3, <1>4, <1>9, <1>16, <2>1, <2>2 DEF Carried, FinishFor
  <2>4. QED
    BY <2>2, <2>3
<1>17. QED
  BY <1>10, <1>14, <1>15, <1>16 DEF Flushes

LEMMA FlushesEnqueue ==
  ASSUME Types, Middle, Flushes, EnqueueFlush
  PROVE  Flushes'
<1>1. /\ gPc = "flush" /\ gPc' = "record" /\ gTodo = <<>> /\ gThen \in FlushMsg
      /\ UNCHANGED <<flushes, dPc, todo>>
  BY DEF EnqueueFlush, Middle, deviceVars
<1>2. PICK k : k = Len(U) + 1
  OBVIOUS
<1>3. /\ SameCmds /\ k \in Nat \ {0} /\ DOMAIN U = 1..(k - 1) /\ DOMAIN U' = 1..k
      /\ U'[k] = gThen /\ \A i \in DOMAIN U : U'[i] = U[i]
  BY <1>2, GameEffects DEF Appends
<1>4. gThen.kind = "Flush" /\ \A c : ~InTodo(c)
  BY <1>1, FlushFacts DEF InTodo
<1>5. ASSUME NEW c
      PROVE  /\ \A i \in DOMAIN U : Lists(i, c)' <=> Lists(i, c)
             /\ Lists(k, c)' <=> Flushing(c)
             /\ ~Flushing(c)'
             /\ UnderWay(c)' <=> UnderWay(c)
  <2>1. \A i \in DOMAIN U : Lists(i, c)' <=> Lists(i, c)
    BY <1>3 DEF Lists
  <2>2. Lists(k, c)' <=> Flushing(c)
    BY <1>1, <1>3, <1>4 DEF Lists, Flushing
  <2>3. ~Flushing(c)'
    BY <1>1 DEF Flushing
  <2>4. UnderWay(c)' <=> UnderWay(c)
    BY <1>1, <1>3, FirstUnderWay DEF UnderWay
  <2>5. QED
    BY <2>1, <2>2, <2>3, <2>4
<1>6. \A i \in DOMAIN U' : i = k \/ (i \in DOMAIN U /\ i < k /\ U'[i] = U[i])
  BY <1>3
<1>7. \A i \in DOMAIN U : i \in DOMAIN U' /\ U'[i] = U[i]
  BY <1>3
<1>8. \A c \in CmdBuffs : Flushing(c) => gThen.number[c] = flushes[c] /\ flushes[c] \in Nat
  BY <1>4, CmdTypes DEF Flushes, Numbers
<1>9. Numbers'
  <2>1. ASSUME NEW c \in CmdBuffs, NEW i \in DOMAIN U', Lists(i, c)'
        PROVE  /\ U'[i].number[c] <= flushes[c]
               /\ \A j \in DOMAIN U' : i < j /\ Lists(j, c)' => U'[i].number[c] < U'[j].number[c]
    <3>1. CASE i = k
      <4>1. U'[i].number[c] <= flushes[c]
        BY <1>3, <1>5, <1>8, <2>1, <3>1
      <4>2. QED
        BY <1>3, <3>1, <4>1
    <3>2. CASE i \in DOMAIN U /\ i < k /\ U'[i] = U[i]
      <4>1. Lists(i, c)
        BY <1>5, <2>1, <3>2
      <4>2. ASSUME NEW j \in DOMAIN U', i < j, Lists(j, c)' PROVE U'[i].number[c] < U'[j].number[c]
        BY <1>3, <1>5, <1>6, <3>2, <4>1, <4>2 DEF Flushes, Numbers
      <4>3. QED
        BY <3>2, <4>1, <4>2 DEF Flushes, Numbers
    <3>3. QED
      BY <1>6, <3>1, <3>2
  <2>2. QED
    BY <1>1, <1>5, <2>1 DEF Numbers
<1>10. ASSUME NEW c \in CmdBuffs PROVE Order(c)' /\ Carried(c)'
  <2>1. Order(c) /\ Carried(c) /\ flushes'[c] = flushes[c] /\ queue'[c] = queue[c]
    BY <1>1, <1>3 DEF Flushes, SameCmds
  <2>2. Order(c)' /\ Q(c)' = Q(c)
    BY <2>1, SameQueue
  <2>3. ASSUME NEW p \in DOMAIN Q(c), Q(c)[p].flush <= flushes[c]
        PROVE  \E i \in DOMAIN U' : Lists(i, c)' /\ U'[i].number[c] = Q(c)[p].flush
    <3>1. CASE Flushing(c) /\ gThen.number[c] = Q(c)[p].flush
      BY <1>3, <1>5, <3>1
    <3>2. ASSUME NEW i \in DOMAIN U, Lists(i, c), U[i].number[c] = Q(c)[p].flush
          PROVE  \E j \in DOMAIN U' : Lists(j, c)' /\ U'[j].number[c] = Q(c)[p].flush
      BY <1>5, <1>7, <3>2
    <3>3. QED
      BY <2>1, <2>3, <3>1, <3>2 DEF Carried
  <2>4. ASSUME NEW i \in DOMAIN U', Lists(i, c)', ~(i = 1 /\ UnderWay(c)')
        PROVE  \E p \in DOMAIN Q(c) : Q(c)[p].kind = "Finish" /\ Q(c)[p].flush = U'[i].number[c]
    <3>1. CASE i = k
      BY <1>3, <1>4, <1>5, <2>1, <2>4, <3>1 DEF Carried, FinishFor
    <3>2. CASE i \in DOMAIN U /\ U'[i] = U[i]
      BY <1>5, <2>1, <2>4, <3>2 DEF Carried, FinishFor
    <3>3. QED
      BY <1>6, <3>1, <3>2
  <2>5. ASSUME UnderWay(c)', Lists(1, c)', NEW p \in DOMAIN Q(c) PROVE Q(c)[p].flush > U'[1].number[c]
    <3>1. UnderWay(c) /\ 1 \in DOMAIN U
      BY <1>5, <2>5, FirstUnderWay DEF UnderWay
    <3>2. Lists(1, c) /\ U'[1] = U[1]
      BY <1>3, <1>5, <2>5, <3>1
    <3>3. QED
      BY <2>1, <3>1, <3>2 DEF Carried
  <2>6. QED
    BY <1>1, <1>5, <2>2, <2>3, <2>4, <2>5 DEF Carried, FinishFor
<1>11. QED
  BY <1>9, <1>10 DEF Flushes

LEMMA FlushesBegin ==
  ASSUME Types, Middle, Flushes, FlushBegin
  PROVE  Flushes'
<1>1. Stays /\ Message(main) = U[1] /\ U[1] \in FlushMsg
  BY DeviceEffects
<1>2. /\ todo' = DOMAIN U[1].cmdBuffs /\ dPc = "main" /\ dPc' = "flush"
      /\ UNCHANGED <<flushes, gPc, gThen, gTodo>> /\ U' = U
  BY <1>1 DEF FlushBegin, CanExecute, queueVars, gameVars, Stays
<1>3. DOMAIN U[1].number = {U[1].cmdBuffs[i] : i \in DOMAIN U[1].cmdBuffs}
  BY <1>1, FlushFacts
<1>4. ASSUME NEW c \in CmdBuffs
      PROVE  /\ \A i : Lists(i, c)' <=> Lists(i, c)
             /\ Flushing(c)' <=> Flushing(c)
             /\ InTodo(c)' <=> InTodo(c)
             /\ ~UnderWay(c) /\ (Lists(1, c) => ~UnderWay(c)')
             /\ queue'[c] = queue[c]
  BY <1>1, <1>2, <1>3 DEF Lists, Flushing, InTodo, UnderWay, Stays, SameCmds
<1>5. Numbers'
  BY <1>2, <1>4 DEF Flushes, Numbers
<1>6. ASSUME NEW c \in CmdBuffs PROVE Order(c)' /\ Carried(c)'
  <2>1. Order(c) /\ Carried(c) /\ flushes'[c] = flushes[c]
    BY <1>2 DEF Flushes
  <2>2. Order(c)' /\ Q(c)' = Q(c)
    BY <1>4, <2>1, SameQueue
  <2>3. Carried(c)'
    BY <1>2, <1>4, <2>1, <2>2 DEF Carried, FinishFor
  <2>4. QED
    BY <2>2, <2>3
<1>7. QED
  BY <1>5, <1>6 DEF Flushes

(* The flush under way finds its own commands first.                       *)
LEMMA FlushFirst ==
  ASSUME Types, Middle, Flushes, dPc = "flush", NEW i \in todo,
         NEW c \in CmdBuffs, c = U[1].cmdBuffs[i]
  PROVE  /\ Lists(1, c) /\ HasNewMessage(c) /\ 1 \in DOMAIN Q(c) /\ Message(c) = Q(c)[1]
         /\ Q(c)[1].flush = U[1].number[c] /\ ~UnderWay(c)
<1>1. 1 \in DOMAIN U /\ U[1] \in FlushMsg /\ i \in DOMAIN U[1].cmdBuffs /\ U[1].kind = "Flush"
  BY FirstUnderWay DEF Middle
<1>2. Lists(1, c) /\ ~UnderWay(c)
  BY <1>1, FlushFacts DEF Lists, UnderWay
<1> DEFINE n == U[1].number[c]
<1>3. /\ Len(Q(c)) \in Nat /\ DOMAIN Q(c) = 1..Len(Q(c)) /\ flushes[c] \in Nat
      /\ queue[c].visible \in 0..Len(Q(c))
      /\ \A p \in DOMAIN Q(c) : Q(c)[p].flush \in Nat
      /\ \A j \in DOMAIN U : Lists(j, c) => U[j].number[c] \in Nat
      /\ Flushing(c) => gThen.number[c] \in Nat
  BY CmdTypes DEF Flushing, Middle
<1>4. Numbers /\ Order(c) /\ Carried(c)
  BY DEF Flushes
<1>5. n \in Nat /\ n <= flushes[c]
  BY <1>1, <1>2, <1>3, <1>4 DEF Numbers
<1>6. PICK p \in DOMAIN Q(c) : Q(c)[p].kind = "Finish" /\ Q(c)[p].flush = n
  BY <1>1, <1>2, <1>4 DEF Carried, FinishFor
<1> HIDE DEF n
<1>7. 1 \in DOMAIN Q(c) /\ 1 <= p
  BY <1>3, <1>6
<1>8. Q(c)[1].flush <= n
  <2>1. CASE p = 1
    BY <1>3, <1>6, <2>1
  <2>2. CASE 1 < p
    <3>1. Q(c)[1].flush <= Q(c)[p].flush
      BY <1>4, <1>7, <2>2 DEF Order
    <3>2. QED
      BY <1>6, <3>1
  <2>3. p \in Nat
    BY <1>3
  <2>4. QED
    BY <1>7, <2>1, <2>2, <2>3
<1>9. Q(c)[1].flush \in Nat /\ Q(c)[1].flush <= flushes[c]
  <2>1. Q(c)[1].flush \in Nat /\ flushes[c] \in Nat
    BY <1>3, <1>7
  <2>2. QED
    BY <1>5, <1>8, <2>1
<1>10. HasNewMessage(c)
  <2>1. 1 <= queue[c].visible
    BY <1>4, <1>7, <1>9 DEF Order
  <2>2. QED
    BY <1>3, <2>1 DEF HasNewMessage
<1>11. Q(c)[1].flush >= n
  <2>1. CASE Flushing(c) /\ gThen.number[c] = Q(c)[1].flush
    <3>1. n < gThen.number[c]
      BY <1>1, <1>2, <1>4, <2>1 DEF Numbers, n
    <3>2. QED
      BY <1>5, <1>9, <2>1, <3>1
  <2>2. ASSUME NEW j \in DOMAIN U, Lists(j, c), U[j].number[c] = Q(c)[1].flush
        PROVE  Q(c)[1].flush >= n
    <3>1. j = 1 \/ 1 < j
      BY FrameTypes
    <3>2. CASE j = 1
      BY <1>5, <2>2, <3>2 DEF n
    <3>3. CASE 1 < j
      <4>1. n < U[j].number[c]
        BY <1>1, <1>2, <1>4, <2>2, <3>3 DEF Numbers, n
      <4>2. QED
        BY <1>5, <1>9, <2>2, <4>1
    <3>4. QED
      BY <3>1, <3>2, <3>3
  <2>3. QED
    BY <1>4, <1>7, <1>9, <2>1, <2>2 DEF Carried
<1>12. Message(c) = Q(c)[1]
  <2>1. Q(c) \in Seq(CmdMsg)
    BY DEF Types, QueueTypes
  <2>2. QED
    BY <1>7, <2>1 DEF Message, Q
<1>13. QED
  <2>1. Q(c)[1].flush = n
    BY <1>5, <1>8, <1>9, <1>11
  <2>2. QED
    BY <1>2, <1>7, <1>10, <1>12, <2>1 DEF n

LEMMA FlushesStep ==
  ASSUME Types, Middle, Flushes, NEW i \in todo, FlushStep(i)
  PROVE  Flushes'
<1>1. PICK c \in CmdBuffs : c = U[1].cmdBuffs[i] /\ Message(main) = U[1]
  BY DeviceEffects
<1>2. /\ dPc = "flush" /\ dPc' = "flush" /\ HasNewMessage(c) /\ Take(c)
      /\ todo' = IF Message(c).kind = "Finish" THEN todo \ {i} ELSE todo
      /\ UNCHANGED <<flushes, gPc, gThen, gTodo>>
  BY <1>1 DEF FlushStep, gameVars
<1>3. /\ Lists(1, c) /\ 1 \in DOMAIN Q(c) /\ Message(c) = Q(c)[1]
      /\ Q(c)[1].flush = U[1].number[c] /\ ~UnderWay(c)
  BY <1>1, <1>2, FlushFirst
<1>4. QueueTypes
  BY DEF Types
<1>5. U' = U /\ Others(c) /\ Shorter(c) /\ queue'[c].visible = queue[c].visible - 1
  BY <1>2, <1>4, CmdLoses
<1>6. /\ Len(Q(c)) \in Nat /\ DOMAIN Q(c) = 1..Len(Q(c)) /\ flushes[c] \in Nat
      /\ queue[c].visible \in 0..Len(Q(c))
      /\ \A p \in DOMAIN Q(c) : Q(c)[p].flush \in Nat
      /\ \A j \in DOMAIN U : Lists(j, c) => U[j].number[c] \in Nat
      /\ Flushing(c) => gThen.number[c] \in Nat
  BY CmdTypes DEF Flushing, Middle
<1>7. /\ \A x : Flushing(x)' <=> Flushing(x)
      /\ \A x : InTodo(x)' <=> InTodo(x)
      /\ \A x, j : Lists(j, x)' <=> Lists(j, x)
  BY <1>2, <1>5 DEF Flushing, InTodo, Lists
<1>8. Numbers'
  BY <1>2, <1>5, <1>7 DEF Flushes, Numbers
<1>9. \A p \in DOMAIN Q(c)' : p \in Nat \ {0} /\ p + 1 \in DOMAIN Q(c) /\ Q(c)'[p] = Q(c)[p + 1]
  BY <1>5 DEF Shorter
<1>10. \A p \in DOMAIN Q(c) : p # 1 => p - 1 \in DOMAIN Q(c)' /\ Q(c)'[p - 1] = Q(c)[p]
  BY <1>5 DEF Shorter
<1>11. Numbers /\ Order(c) /\ Carried(c)
  BY DEF Flushes
<1>12. Order(c)'
  <2>1. ASSUME NEW p \in DOMAIN Q(c)', NEW q \in DOMAIN Q(c)', p < q
        PROVE  /\ Q(c)'[p].flush <= Q(c)'[q].flush
               /\ Q(c)'[p].kind = "Finish" => Q(c)'[p].flush < Q(c)'[q].flush
    <3>1. p + 1 < q + 1
      BY <1>9, <2>1
    <3>2. QED
      BY <1>9, <1>11, <2>1, <3>1 DEF Order
  <2>2. ASSUME NEW p \in DOMAIN Q(c)'
        PROVE  /\ Q(c)'[p].flush <= flushes[c] + 1
               /\ Q(c)'[p].kind = "Finish" => Q(c)'[p].flush <= flushes[c]
               /\ Q(c)'[p].flush <= flushes[c] <=> p <= queue'[c].visible
    <3>1. p + 1 <= queue[c].visible <=> p <= queue'[c].visible
      BY <1>5, <1>6, <1>9
    <3>2. QED
      BY <1>9, <1>11, <3>1 DEF Order
  <2>3. QED
    BY <1>2, <2>1, <2>2 DEF Order
<1>13. UnderWay(c)' => Q(c)[1].kind = "Finish"
  BY <1>1, <1>2, <1>3, <1>5 DEF UnderWay
<1>14. ASSUME NEW n, FinishFor(c, n), Q(c)[1].kind = "Finish" => n # U[1].number[c]
       PROVE  \E p \in DOMAIN Q(c)' : Q(c)'[p].kind = "Finish" /\ Q(c)'[p].flush = n
  <2>1. PICK p \in DOMAIN Q(c) : Q(c)[p].kind = "Finish" /\ Q(c)[p].flush = n
    BY <1>14 DEF FinishFor
  <2>2. p # 1
    BY <1>3, <1>14, <2>1
  <2>3. QED
    BY <1>10, <2>1, <2>2
<1>15. Carried(c)'
  <2>1. ASSUME NEW p \in DOMAIN Q(c)', Q(c)'[p].flush <= flushes[c]
        PROVE  \/ Flushing(c) /\ gThen.number[c] = Q(c)'[p].flush
               \/ \E j \in DOMAIN U : Lists(j, c) /\ U[j].number[c] = Q(c)'[p].flush
    BY <1>9, <1>11, <2>1 DEF Carried
  <2>2. ASSUME NEW j \in DOMAIN U, Lists(j, c), ~(j = 1 /\ UnderWay(c)')
        PROVE  \E p \in DOMAIN Q(c)' : Q(c)'[p].kind = "Finish" /\ Q(c)'[p].flush = U[j].number[c]
    <3>1. FinishFor(c, U[j].number[c])
      BY <1>3, <1>11, <2>2 DEF Carried
    <3>2. CASE j = 1
      <4>1. Q(c)[1].kind # "Finish"
        BY <1>1, <1>2, <1>3, <1>5, <2>2, <3>2, FirstUnderWay, FlushFacts DEF UnderWay, Middle
      <4>2. QED
        BY <1>14, <3>1, <4>1
    <3>3. CASE j # 1
      <4>1. 1 \in DOMAIN U /\ 1 < j
        BY <3>3, FrameTypes
      <4>2. U[1].number[c] < U[j].number[c]
        BY <1>3, <1>11, <2>2, <4>1 DEF Numbers
      <4>3. U[j].number[c] # U[1].number[c]
        BY <1>3, <1>6, <2>2, <4>1, <4>2
      <4>4. QED
        BY <1>14, <3>1, <4>3
    <3>4. QED
      BY <3>2, <3>3
  <2>3. ASSUME Flushing(c), ~InTodo(c)
        PROVE  \E p \in DOMAIN Q(c)' : Q(c)'[p].kind = "Finish" /\ Q(c)'[p].flush = gThen.number[c]
    <3>1. FinishFor(c, gThen.number[c])
      BY <1>11, <2>3 DEF Carried
    <3>2. 1 \in DOMAIN U
      BY <1>2, FirstUnderWay
    <3>3. U[1].number[c] < gThen.number[c]
      BY <1>3, <1>11, <2>3, <3>2 DEF Numbers
    <3>4. gThen.number[c] # U[1].number[c]
      BY <1>3, <1>6, <2>3, <3>2, <3>3
    <3>5. QED
      BY <1>14, <3>1, <3>4
  <2>4. ASSUME UnderWay(c)', NEW p \in DOMAIN Q(c)' PROVE Q(c)'[p].flush > U[1].number[c]
    <3>1. Q(c)[1].kind = "Finish" /\ p + 1 \in DOMAIN Q(c) /\ 1 < p + 1
      BY <1>9, <1>13, <2>4
    <3>2. Q(c)[1].flush < Q(c)[p + 1].flush
      BY <1>3, <1>11, <3>1 DEF Order
    <3>3. QED
      BY <1>3, <1>6, <1>9, <3>1, <3>2
  <2>5. QED
    BY <1>2, <1>5, <1>7, <2>1, <2>2, <2>3, <2>4 DEF Carried, FinishFor
<1>16. ASSUME NEW x \in CmdBuffs, x # c PROVE Order(x)' /\ Carried(x)'
  <2>1. queue'[x] = queue[x] /\ flushes'[x] = flushes[x] /\ Order(x) /\ Carried(x)
    BY <1>2, <1>5, <1>16, MainFacts DEF Flushes, Others
  <2>2. Order(x)' /\ Q(x)' = Q(x)
    BY <2>1, SameQueue
  <2>3. UnderWay(x)' <=> UnderWay(x)
    BY <1>1, <1>2, <1>5, <1>16 DEF UnderWay
  <2>4. Carried(x)'
    BY <1>2, <1>5, <1>7, <2>1, <2>2, <2>3 DEF Carried, FinishFor
  <2>5. QED
    BY <2>2, <2>4
<1>17. QED
  BY <1>8, <1>12, <1>15, <1>16 DEF Flushes

LEMMA FlushesEnd ==
  ASSUME Types, Middle, Flushes, FlushEnd
  PROVE  Flushes'
<1>1. /\ Takes /\ dPc = "flush" /\ dPc' = "main" /\ todo = {}
      /\ UNCHANGED <<flushes, gPc, gThen, gTodo>>
  BY DeviceEffects DEF FlushEnd, gameVars
<1>2. /\ SameCmds /\ Len(U) \in Nat \ {0} /\ DOMAIN U = 1..Len(U)
      /\ DOMAIN U' = 1..(Len(U) - 1) /\ \A i \in DOMAIN U' : U'[i] = U[i + 1]
  BY <1>1 DEF Takes
<1>3. /\ \A i \in DOMAIN U' : i \in Nat \ {0} /\ i + 1 \in DOMAIN U /\ U'[i] = U[i + 1]
      /\ \A i \in DOMAIN U : i # 1 => i - 1 \in DOMAIN U' /\ U'[i - 1] = U[i]
  BY <1>2
<1>4. ASSUME NEW c
      PROVE  /\ \A i \in DOMAIN U' : Lists(i, c)' => Lists(i + 1, c)
             /\ \A i \in DOMAIN U : i # 1 /\ Lists(i, c) => Lists(i - 1, c)'
             /\ Flushing(c)' <=> Flushing(c)
             /\ InTodo(c)' <=> InTodo(c)
             /\ UnderWay(c) /\ ~UnderWay(c)'
  <2>1. \A i \in DOMAIN U' : Lists(i, c)' => Lists(i + 1, c)
    BY <1>3 DEF Lists
  <2>2. \A i \in DOMAIN U : i # 1 /\ Lists(i, c) => Lists(i - 1, c)'
    <3>1. ASSUME NEW i \in DOMAIN U, i # 1, Lists(i, c), NEW j, j = i - 1 PROVE Lists(j, c)'
      BY <1>3, <3>1 DEF Lists
    <3>2. QED
      BY <3>1
  <2>3. QED
    BY <1>1, <2>1, <2>2 DEF Flushing, InTodo, UnderWay
<1>5. Numbers'
  <2>1. ASSUME NEW c \in CmdBuffs, NEW i \in DOMAIN U', Lists(i, c)'
        PROVE  /\ U'[i].number[c] <= flushes[c]
               /\ Flushing(c) => U'[i].number[c] < gThen.number[c]
               /\ \A j \in DOMAIN U' : i < j /\ Lists(j, c)' => U'[i].number[c] < U'[j].number[c]
    <3>1. i + 1 \in DOMAIN U /\ U'[i] = U[i + 1] /\ Lists(i + 1, c) /\ i \in Nat
      BY <1>3, <1>4, <2>1
    <3>2. ASSUME NEW j \in DOMAIN U', i < j, Lists(j, c)' PROVE U'[i].number[c] < U'[j].number[c]
      <4>1. j + 1 \in DOMAIN U /\ U'[j] = U[j + 1] /\ Lists(j + 1, c) /\ j \in Nat
        BY <1>3, <1>4, <3>2
      <4>2. i + 1 < j + 1
        BY <3>1, <3>2, <4>1
      <4>3. QED
        BY <3>1, <4>1, <4>2 DEF Flushes, Numbers
    <3>3. QED
      BY <3>1, <3>2 DEF Flushes, Numbers
  <2>2. QED
    BY <1>1, <1>4, <2>1 DEF Flushes, Numbers
<1>6. ASSUME NEW c \in CmdBuffs PROVE Order(c)' /\ Carried(c)'
  <2>1. Order(c) /\ Carried(c) /\ flushes'[c] = flushes[c] /\ queue'[c] = queue[c]
    BY <1>1, <1>2 DEF Flushes, SameCmds
  <2>2. Order(c)' /\ Q(c)' = Q(c)
    BY <2>1, SameQueue
  <2>3. ASSUME NEW p \in DOMAIN Q(c), Q(c)[p].flush <= flushes[c]
        PROVE  \/ Flushing(c) /\ gThen.number[c] = Q(c)[p].flush
               \/ \E i \in DOMAIN U' : Lists(i, c)' /\ U'[i].number[c] = Q(c)[p].flush
    <3>1. ASSUME NEW i \in DOMAIN U, Lists(i, c), U[i].number[c] = Q(c)[p].flush
          PROVE  \E j \in DOMAIN U' : Lists(j, c)' /\ U'[j].number[c] = Q(c)[p].flush
      <4>1. i # 1
        <5>1. i = 1 => Q(c)[p].flush > Q(c)[p].flush
          BY <1>4, <2>1, <3>1 DEF Carried
        <5>2. Q(c)[p].flush \in Nat
          BY CmdTypes
        <5>3. QED
          BY <5>1, <5>2
      <4>2. QED
        BY <1>3, <1>4, <3>1, <4>1
    <3>2. QED
      BY <2>1, <2>3, <3>1 DEF Carried
  <2>4. ASSUME NEW i \in DOMAIN U', Lists(i, c)'
        PROVE  \E p \in DOMAIN Q(c) : Q(c)[p].kind = "Finish" /\ Q(c)[p].flush = U'[i].number[c]
    <3>1. i + 1 \in DOMAIN U /\ U'[i] = U[i + 1] /\ Lists(i + 1, c) /\ i + 1 # 1
      BY <1>3, <1>4, <2>4
    <3>2. QED
      BY <2>1, <3>1 DEF Carried, FinishFor
  <2>5. QED
    BY <1>1, <1>4, <2>1, <2>2, <2>3, <2>4 DEF Carried, FinishFor
<1>7. QED
  BY <1>5, <1>6 DEF Flushes

LEMMA FlushesNext ==
  ASSUME Types, Types', Middle, Flushes, Next
  PROVE  Flushes'
<1>0. "Flush" \notin {"Update"} /\ "Flush" \notin {"FreeStaging"} /\ "Flush" \notin Quiet
  BY DEF Quiet
<1>1. ASSUME NEW c \in CmdBuffs, RecordCommand(c) PROVE Flushes'
  <2>1. /\ Command(flushes[c] + 1) \in CmdMsg
        /\ Command(flushes[c] + 1).flush = flushes[c] + 1
        /\ Command(flushes[c] + 1).kind # "Finish"
    BY <1>1, CmdEffects, Subsets DEF Command
  <2>2. /\ queue' = [queue EXCEPT ![c] = Enqueue(@, <<Command(flushes[c] + 1)>>)]
        /\ UNCHANGED <<flushes, gPc, gThen, gTodo, dPc, todo>>
    BY <1>1 DEF RecordCommand, deviceVars
  <2>3. QED
    BY <2>1, <2>2, FlushesRecord
<1>2. ASSUME NEW c \in CmdBuffs, NEW b \in Buffers, RecordUpdateBuffer(c, b) PROVE Flushes'
  <2>1. /\ Update(b, flushes[c] + 1) \in CmdMsg
        /\ Update(b, flushes[c] + 1).flush = flushes[c] + 1
        /\ Update(b, flushes[c] + 1).kind # "Finish"
    BY <1>2, CmdEffects, Subsets DEF Update
  <2>2. /\ queue' = [queue EXCEPT ![c] = Enqueue(@, <<Update(b, flushes[c] + 1)>>)]
        /\ UNCHANGED <<flushes, gPc, gThen, gTodo, dPc, todo>>
    BY <1>2 DEF RecordUpdateBuffer, deviceVars
  <2>3. QED
    BY <2>1, <2>2, FlushesRecord
<1>3. CASE GameCall
  BY <1>0, <1>1, <1>2, <1>3, ElsewhereSteps, FlushesElsewhere, FlushesCommands
  DEF GameCall, ResizeBuffer, DestroyBuffer
<1>4. CASE GameStep
  BY <1>0, <1>4, ElsewhereSteps, FlushesElsewhere, FlushesFinish, FlushesEnqueue DEF GameStep
<1>5. CASE DeviceStep
  BY <1>5, FlushesExec, FlushesBegin, FlushesStep, FlushesEnd DEF DeviceStep
<1>6. QED
  BY <1>3, <1>4, <1>5 DEF Next

-----------------------------------------------------------------------------
(* Staging.                                                                *)

SoundKept(d) == \A m \in UpdateMsg : Sound(m) /\ (d = 1 => Ahead(2, m)) => Sound(m)'

LEMMA AheadKept ==
  ASSUME NEW d \in {0, 1}, NEW in, NEW out, Kept(d, in, out), NEW m, NEW i \in DOMAIN U',
         i + d \in DOMAIN U, Ahead(i + d, m)
  PROVE  Ahead(i, m)'
<1>1. ASSUME NEW k \in DOMAIN U', k < i
      PROVE  k + d \in DOMAIN U /\ U'[k] = U[k + d] /\ k + d < i + d
  <2>1. i \in Nat /\ k \in Nat
    BY DEF Kept
  <2>2. d = 0 => i \in DOMAIN U
    BY <2>1
  <2>3. k + d \in DOMAIN U /\ U'[k] = U[k + d]
    BY <1>1, <2>1, <2>2 DEF Kept
  <2>4. QED
    BY <1>1, <2>1, <2>3
<1>2. QED
  BY <1>1 DEF Ahead

LEMMA UpdateTypes ==
  ASSUME Types
  PROVE  /\ \A i \in DOMAIN U : U[i].kind = "Update" => U[i] \in UpdateMsg
         /\ \A c \in CmdBuffs : \A p \in DOMAIN Q(c) : Q(c)[p].kind = "Update" => Q(c)[p] \in UpdateMsg
<1>1. \A i \in DOMAIN U : U[i].kind = "Update" => U[i] \in UpdateMsg
  BY FrameTypes, KindFacts
<1>2. ASSUME NEW c \in CmdBuffs, NEW p \in DOMAIN Q(c), Q(c)[p].kind = "Update" PROVE Q(c)[p] \in UpdateMsg
  <2>1. Q(c)[p] \in MainMsg
    BY CmdTypes, Subsets
  <2>2. QED
    BY <1>2, <2>1, KindFacts
<1>3. QED
  BY <1>1, <1>2

LEMMA MainUpdatesKept ==
  ASSUME Types, MainUpdates, NEW d \in {0, 1}, NEW in, NEW out, Kept(d, in, out),
         "Update" \notin in, SoundKept(d)
  PROVE  MainUpdates'
<1>1. ASSUME NEW i \in DOMAIN U', U'[i].kind = "Update", NEW m, m = U'[i]
      PROVE  Sound(m)' /\ Ahead(i, m)'
  <2>1. i + d \in DOMAIN U /\ U'[i] = U[i + d] /\ i \in Nat \ {0}
    BY <1>1 DEF Kept
  <2>2. Sound(m) /\ Ahead(i + d, m) /\ m \in UpdateMsg
    BY <1>1, <2>1, UpdateTypes DEF MainUpdates
  <2>3. d = 1 => Ahead(2, m)
    <3>1. ASSUME d = 1, NEW k \in DOMAIN U, k < 2 PROVE k < i + d
      BY <2>1, <3>1, FrameTypes
    <3>2. QED
      BY <2>2, <3>1 DEF Ahead
  <2>4. QED
    BY <2>1, <2>2, <2>3, AheadKept DEF SoundKept
<1>2. QED
  BY <1>1 DEF MainUpdates

LEMMA CmdUpdateKept ==
  ASSUME NEW d \in {0, 1}, NEW in, NEW out, Kept(d, in, out), "Flush" \notin in,
         SoundKept(d), NEW c, NEW m \in UpdateMsg, CmdUpdate(c, m), d = 1 => Ahead(2, m),
         Waiting(c, m)' => ~Ended' /\ m.frame = frame' /\ m.store = store'[m.buffer]
  PROVE  CmdUpdate(c, m)'
<1>1. Sound(m)'
  BY DEF SoundKept, CmdUpdate
<1>2. ASSUME NEW i \in DOMAIN U', Lists(i, c)', U'[i].number[c] = m.flush PROVE Ahead(i, m)'
  <2>1. i + d \in DOMAIN U /\ Lists(i + d, c) /\ U'[i] = U[i + d]
    BY <1>2 DEF Kept, Lists
  <2>2. Ahead(i + d, m)
    BY <1>2, <2>1 DEF CmdUpdate
  <2>3. QED
    BY <2>1, <2>2, AheadKept
<1>3. QED
  BY <1>1, <1>2 DEF CmdUpdate

(* A command buffer shows no update that it did not show before, ...       *)
OldUpdates(c) ==
  agent'[c] = "live" =>
    \A p \in DOMAIN Q(c)' : Q(c)'[p].kind = "Update" =>
      agent[c] = "live" /\ \E q \in DOMAIN Q(c) : Q(c)[q] = Q(c)'[p]
(* ... and those that waited to be flushed still do.                       *)
StillWaiting(c) ==
  agent[c] = "live" =>
    \A p \in DOMAIN Q(c) : Q(c)[p].kind = "Update" =>
      \A m : m = Q(c)[p] /\ Waiting(c, m)' => ~Ended' /\ m.frame = frame' /\ m.store = store'[m.buffer]

LEMMA CmdUpdatesKept ==
  ASSUME Types, CmdUpdates, NEW d \in {0, 1}, NEW in, NEW out, Kept(d, in, out),
         "Flush" \notin in, SoundKept(d),
         \A c \in CmdBuffs : OldUpdates(c) /\ StillWaiting(c),
         d = 1 => \A c \in CmdBuffs : agent[c] = "live" =>
                    \A p \in DOMAIN Q(c) : Q(c)[p].kind = "Update" => Ahead(2, Q(c)[p])
  PROVE  CmdUpdates'
<1>1. ASSUME NEW c \in CmdBuffs, agent'[c] = "live", NEW p \in DOMAIN Q(c)',
             Q(c)'[p].kind = "Update", NEW m, m = Q(c)'[p]
      PROVE  CmdUpdate(c, m)'
  <2>1. agent[c] = "live"
    BY <1>1 DEF OldUpdates
  <2>2. PICK q \in DOMAIN Q(c) : Q(c)[q] = m
    BY <1>1 DEF OldUpdates
  <2>3. m.kind = "Update" /\ m \in UpdateMsg /\ CmdUpdate(c, m) /\ (d = 1 => Ahead(2, m))
    BY <1>1, <2>1, <2>2, UpdateTypes DEF CmdUpdates
  <2>4. Waiting(c, m)' => ~Ended' /\ m.frame = frame' /\ m.store = store'[m.buffer]
    BY <2>1, <2>2, <2>3 DEF StillWaiting
  <2>5. QED
    BY <2>3, <2>4, CmdUpdateKept
<1>2. QED
  BY <1>1 DEF CmdUpdates

LEMMA WriteSound ==
  ASSUME Types, Frames, gPc = "record", NEW b \in Buffers, WriteSlot(b),
         presented' = presented, frame' = frame
  PROVE  /\ SoundKept(0)
         /\ \A m : m.buffer = b /\ m.store = store[b] /\ m.slot = currentIndex /\ m.frame = frame
              => Sound(m)'
<1>1. /\ \A x \in Buffers, s \in Stores, i \in Slots :
            staging'[x][s][i] = IF x = b /\ s = store[b] /\ i = currentIndex THEN frame
                                ELSE staging[x][s][i]
      /\ store[b] \in Stores /\ currentIndex \in Slots
  BY WriteType DEF Types, WriteSlot
<1>2. /\ currentIndex = frame % MAX_FRAME_INDEX
      /\ presented <= frame /\ frame < presented + MAX_FRAME_INDEX
      /\ frame \in Nat /\ presented \in Nat /\ MAX_FRAME_INDEX \in Nat \ {0}
  <2>1. currentIndex = frame % MAX_FRAME_INDEX /\ presented <= frame
    BY FrameTypes DEF Frames, FrameCount, Ended
  <2>2. frame \in Nat /\ presented \in Nat /\ frame < presented + (MAX_CPU_FRAME_AHEAD + 1)
    BY FrameTypes DEF Frames, FrameCount
  <2>3. MAX_FRAME_INDEX \in Nat \ {0}
    BY <2>2, IndexType
  <2>4. QED
    BY <2>1, <2>2, <2>3 DEF MAX_FRAME_INDEX
<1>3. ASSUME NEW m \in UpdateMsg, Sound(m) PROVE Sound(m)'
  <2>1. /\ m.buffer \in Buffers /\ m.store \in Stores /\ m.slot \in Slots /\ m.frame \in Nat
    BY DEF UpdateMsg
  <2>2. /\ presented <= m.frame /\ m.frame <= frame /\ m.slot = m.frame % MAX_FRAME_INDEX
        /\ staging[m.buffer][m.store][m.slot] = m.frame
    BY <1>3 DEF Sound
  <2>3. ASSUME m.slot = currentIndex PROVE m.frame = frame
    <3>1. frame - m.frame < MAX_FRAME_INDEX /\ frame \in Int /\ m.frame \in Int
      BY <1>2, <2>1, <2>2
    <3>2. ((frame % MAX_FRAME_INDEX) - (m.frame % MAX_FRAME_INDEX)) % MAX_FRAME_INDEX = frame - m.frame
      BY <1>2, <2>2, <3>1, ModDistance
    <3>3. frame % MAX_FRAME_INDEX \in Int /\ (frame % MAX_FRAME_INDEX) - (m.frame % MAX_FRAME_INDEX) = 0
      BY <1>1, <1>2, <2>2, <2>3 DEF Slots
    <3>4. 0 % MAX_FRAME_INDEX = 0
      BY <1>2, ModNear
    <3>5. QED
      BY <3>1, <3>2, <3>3, <3>4
  <2>4. staging'[m.buffer][m.store][m.slot] = m.frame
    BY <1>1, <2>1, <2>2, <2>3
  <2>5. QED
    BY <2>2, <2>4 DEF Sound
<1>4. ASSUME NEW m, m.buffer = b /\ m.store = store[b] /\ m.slot = currentIndex /\ m.frame = frame
      PROVE  Sound(m)'
  BY <1>1, <1>2, <1>4 DEF Sound
<1>5. QED
  BY <1>3, <1>4 DEF SoundKept

LEMMA SoundSame ==
  ASSUME NEW d, UNCHANGED <<presented, frame, staging>>
  PROVE  SoundKept(d)
BY DEF SoundKept, Sound

(* What is updated now is behind all that could take its data.             *)
LEMMA AheadNew ==
  ASSUME Types, Frames, Freeing, ~Ended, NEW m, m.frame = frame, m.store = store[m.buffer],
         m.store \in Stores
  PROVE  \A i : Ahead(i, m)
<1>1. ASSUME NEW k \in DOMAIN U, U[k].kind = "Present" PROVE U[k].frame < m.frame
  BY <1>1, FrameTypes DEF Frames, PresentsWait
<1>2. ASSUME NEW k \in DOMAIN U, U[k].kind = "FreeStaging", U[k].buffer = m.buffer PROVE U[k].store # m.store
  <2>1. U[k].store < m.store
    BY <1>2 DEF Freeing
  <2>2. QED
    BY <2>1 DEF Stores
<1>3. QED
  BY <1>1, <1>2 DEF Ahead

LEMMA FreeingKept ==
  ASSUME Freeing, NEW d, NEW in, NEW out, Kept(d, in, out), "FreeStaging" \notin in, store' = store
  PROVE  Freeing'
BY DEF Freeing, Kept

LEMMA OldSame ==
  ASSUME NEW c \in CmdBuffs, queue'[c] = queue[c],
         agent'[c] = "live" => agent[c] = "live" \/ Q(c) = <<>>
  PROVE  OldUpdates(c)
BY DEF OldUpdates, Q

LEMMA StillSame ==
  ASSUME CmdUpdates, NEW c \in CmdBuffs,
         \A p \in DOMAIN Q(c) : \A m :
           m = Q(c)[p] /\ m.kind = "Update" /\ Waiting(c, m)' => Waiting(c, m),
         ~Ended => ~Ended' /\ frame' = frame /\ store' = store
  PROVE  StillWaiting(c)
BY DEF StillWaiting, CmdUpdates, CmdUpdate

LEMMA StagingQuiet ==
  ASSUME Types, Staging, Elsewhere(Quiet), UNCHANGED bufferVars, SoundKept(0),
         \A c \in CmdBuffs : agent'[c] = "live" => agent[c] = "live" \/ Q(c) = <<>>,
         \A c \in CmdBuffs : StillWaiting(c)
  PROVE  Staging'
<1>1. /\ Kept(0, Quiet, {}) /\ SameCmds /\ "Update" \notin Quiet /\ "Flush" \notin Quiet
      /\ "FreeStaging" \notin Quiet /\ store' = store
  BY DEF Elsewhere, Quiet, bufferVars
<1>2. Freeing /\ MainUpdates /\ CmdUpdates
  BY DEF Staging
<1>3. Freeing' /\ MainUpdates'
  BY <1>1, <1>2, FreeingKept, MainUpdatesKept
<1>4. \A c \in CmdBuffs : OldUpdates(c)
  BY <1>1, OldSame DEF SameCmds
<1>5. CmdUpdates'
  BY <1>1, <1>2, <1>4, CmdUpdatesKept
<1>6. QED
  BY <1>3, <1>5 DEF Staging

LEMMA StillElsewhere ==
  ASSUME Types, Staging, NEW in, Elsewhere(in),
         ~Ended => ~Ended' /\ frame' = frame /\ store' = store
  PROVE  \A c \in CmdBuffs : StillWaiting(c)
<1>1. \A c, m : Waiting(c, m)' => Waiting(c, m)
  BY DEF Elsewhere, Waiting, Flushing
<1>2. QED
  BY <1>1, StillSame DEF Staging

LEMMA StagingElsewhere ==
  ASSUME IInv,
         \/ \E c \in CmdBuffs : CreateCommandBuffer(c) \/ DestroyCommandBuffer(c)
         \/ CopyTextureToBuffers \/ DestroyDevice \/ Present
         \/ PresentFinish \/ FrameBoundary \/ WaitReturn \/ Join
  PROVE  Staging'
<1>0. Types /\ Middle /\ Frames /\ Staging /\ Lives
  BY DEF IInv
<1>1. Elsewhere(Quiet) /\ UNCHANGED bufferVars
  BY <1>0, ElsewhereSteps
  DEF CreateCommandBuffer, DestroyCommandBuffer, CopyTextureToBuffers, DestroyDevice, Present,
      PresentFinish, FrameBoundary, WaitReturn, Join, queueVars
<1>2. presented' = presented /\ staging' = staging /\ store' = store
  BY <1>1 DEF Elsewhere, deviceVars, bufferVars
<1>3. \A c \in CmdBuffs : agent'[c] = "live" => agent[c] = "live" \/ Q(c) = <<>>
  <2>1. CASE \E c \in CmdBuffs : CreateCommandBuffer(c)
    BY <1>0, <2>1 DEF CreateCommandBuffer, Types, Lives, Living
  <2>2. CASE WaitReturn
    BY <1>0, <2>2, WaitReturnEffects DEF Types
  <2>3. CASE UNCHANGED agent
    BY <2>3
  <2>4. QED
    BY <2>1, <2>2, <2>3
    DEF DestroyCommandBuffer, CopyTextureToBuffers, DestroyDevice, Present, PresentFinish,
        FrameBoundary, Join, queueVars
<1>4. CASE FrameBoundary
  <2>1. frame' = frame + 1 /\ frame \in Nat /\ Ended
    BY <1>0, <1>4, FrameTypes DEF FrameBoundary, Ended
  <2>2. SoundKept(0)
    BY <1>2, <2>1 DEF SoundKept, Sound, UpdateMsg
  <2>3. QED
    BY <1>0, <1>1, <1>3, <2>1, <2>2, StillElsewhere, StagingQuiet
<1>5. CASE Present
  <2>1. frame' = frame /\ gPc = "record" /\ Recorded = {} /\ flushes' = flushes
    BY <1>5 DEF Present
  <2>2. SoundKept(0)
    BY <1>2, <2>1, SoundSame
  <2>3. ASSUME NEW c \in CmdBuffs, agent[c] = "live", NEW p \in DOMAIN Q(c), NEW m, m = Q(c)[p]
        PROVE  ~Waiting(c, m)'
    <3>1. m.flush <= flushes[c] /\ m.flush \in Nat /\ flushes[c] \in Nat
      BY <1>0, <2>1, <2>3, CmdTypes DEF Recorded, NothingRecorded, Q
    <3>2. ~(m.flush > flushes[c])
      BY <3>1
    <3>3. QED
      BY <1>1, <2>1, <3>2 DEF Waiting, Flushing, Elsewhere
  <2>4. \A c \in CmdBuffs : StillWaiting(c)
    BY <2>3 DEF StillWaiting
  <2>5. QED
    BY <1>0, <1>1, <1>3, <2>2, <2>4, StagingQuiet
<1>6. CASE PresentFinish
  <2>1. frame' = frame /\ Ended
    BY <1>6 DEF PresentFinish, Ended
  <2>2. QED
    BY <1>0, <1>1, <1>2, <1>3, <2>1, SoundSame, StillElsewhere, StagingQuiet
<1>7. CASE ~(FrameBoundary \/ Present \/ PresentFinish)
  <2>1. frame' = frame /\ (~Ended => ~Ended')
    <3>1. CASE WaitReturn
      BY <1>0, <3>1, WaitReturnEffects DEF WaitReturn, Ended
    <3>2. CASE Join
      BY <3>2 DEF Join, Ended
    <3>3. QED
      BY <1>7, <3>1, <3>2
      DEF CreateCommandBuffer, DestroyCommandBuffer, CopyTextureToBuffers, DestroyDevice,
          KickAndWait, Ended
  <2>2. QED
    BY <1>0, <1>1, <1>2, <1>3, <2>1, SoundSame, StillElsewhere, StagingQuiet
<1>8. QED
  BY <1>4, <1>5, <1>6, <1>7

LEMMA StagingUpdate ==
  ASSUME IInv, NEW b \in Buffers, UpdateBuffer(b)
  PROVE  Staging'
<1>0. Types /\ Middle /\ Frames /\ Staging /\ Freeing /\ MainUpdates /\ CmdUpdates
  BY DEF IInv, Staging
<1>1. /\ Elsewhere({"Update"}) /\ Appends(Update(b, 0)) /\ gPc = "record" /\ gPc' = "record"
      /\ WriteSlot(b) /\ store[b] \in Stores /\ store' = store /\ frame' = frame
      /\ presented' = presented /\ agent' = agent
  BY <1>0, ElsewhereSteps, GameEffects, UpdateType
  DEF UpdateBuffer, NextCall, WriteSlot, deviceVars
<1>2. PICK m : m = Update(b, 0)
  OBVIOUS
<1>3. m.buffer = b /\ m.store = store[b] /\ m.slot = currentIndex /\ m.frame = frame /\ m.kind = "Update"
  BY <1>2 DEF Update
<1>4. SoundKept(0) /\ Sound(m)'
  BY <1>0, <1>1, <1>3, WriteSound
<1>5. ~Ended /\ ~Ended'
  BY <1>1 DEF Ended
<1>6. \A i : Ahead(i, m)
  BY <1>0, <1>1, <1>3, <1>5, AheadNew
<1>7. Freeing'
  BY <1>0, <1>1, FreeingKept DEF Elsewhere
<1>8. PICK k : k = Len(U) + 1
  OBVIOUS
<1>9. /\ k \in Nat \ {0} /\ DOMAIN U = 1..(k - 1) /\ DOMAIN U' = 1..k /\ U'[k] = m
      /\ \A i \in DOMAIN U : U'[i] = U[i]
  BY <1>1, <1>2, <1>8 DEF Appends
<1>10. MainUpdates'
  <2>1. ASSUME NEW i \in DOMAIN U', U'[i].kind = "Update", NEW n, n = U'[i]
        PROVE  Sound(n)' /\ Ahead(i, n)'
    <3>1. CASE i = k
      <4>1. Ahead(k, m)'
        BY <1>6, <1>9 DEF Ahead
      <4>2. QED
        BY <1>4, <1>9, <2>1, <3>1, <4>1
    <3>2. CASE i # k
      <4>1. i \in DOMAIN U /\ U[i] = n /\ i < k
        BY <1>9, <2>1, <3>2
      <4>2. Sound(n) /\ Ahead(i, n) /\ n \in UpdateMsg
        BY <1>0, <2>1, <4>1, UpdateTypes DEF MainUpdates
      <4>3. Ahead(i, n)'
        BY <1>9, <4>1, <4>2 DEF Ahead
      <4>4. QED
        BY <1>4, <4>2, <4>3 DEF SoundKept
    <3>3. QED
      BY <3>1, <3>2
  <2>2. QED
    BY <2>1 DEF MainUpdates
<1>11. \A c \in CmdBuffs : OldUpdates(c) /\ StillWaiting(c)
  BY <1>0, <1>1, <1>5, OldSame, StillElsewhere DEF Elsewhere, SameCmds
<1>12. CmdUpdates'
  BY <1>0, <1>1, <1>4, <1>11, CmdUpdatesKept DEF Elsewhere
<1>13. QED
  BY <1>7, <1>10, <1>12 DEF Staging

LEMMA StagingChange ==
  ASSUME IInv, NEW b \in Buffers, NEW s \in Stores \cup {Gone}, s > store[b], ChangeStore(b, s)
  PROVE  Staging'
<1>0. Types /\ Middle /\ Frames /\ Staging /\ Freeing /\ MainUpdates /\ CmdUpdates
  BY DEF IInv, Staging
<1>1. /\ Elsewhere({"FreeStaging"}) /\ Appends(FreeStaging(b)) /\ gPc = "record" /\ gPc' = "record"
      /\ MayChange(b) /\ store' = [store EXCEPT ![b] = s] /\ frame' = frame
      /\ presented' = presented /\ staging' = staging /\ agent' = agent /\ flushes' = flushes
  BY <1>0, ElsewhereSteps, GameEffects DEF ChangeStore, NextCall, deviceVars
<1>2. SoundKept(0)
  BY <1>1, SoundSame
<1>3. MainUpdates'
  BY <1>0, <1>1, <1>2, MainUpdatesKept DEF Elsewhere
<1>4. store[b] \in Nat /\ s \in Nat /\ store \in [Buffers -> Stores \cup {Gone}]
  BY <1>0, FrameAssumption DEF Types, Stores, Gone
<1>5. Freeing'
  <2>1. \A i \in DOMAIN U' : (i \in DOMAIN U /\ U'[i] = U[i]) \/ U'[i] = FreeStaging(b)
    BY <1>1 DEF Appends
  <2>2. \A i \in DOMAIN U : U[i].kind = "FreeStaging" => U[i].buffer \in Buffers /\ U[i].store \in Nat
    BY <1>0, FrameTypes, KindFacts DEF StagingMsg, Stores
  <2>3. FreeStaging(b).buffer = b /\ FreeStaging(b).store = store[b]
    BY DEF FreeStaging
  <2>4. ASSUME NEW i \in DOMAIN U', U'[i].kind = "FreeStaging" PROVE U'[i].store < store'[U'[i].buffer]
    <3>1. CASE U'[i] = FreeStaging(b)
      BY <1>1, <1>4, <2>3, <3>1
    <3>2. CASE i \in DOMAIN U /\ U'[i] = U[i]
      BY <1>0, <1>1, <1>4, <2>2, <2>4, <3>2 DEF Freeing
    <3>3. QED
      BY <2>1, <3>1, <3>2
  <2>5. QED
    BY <2>4 DEF Freeing
<1>6. ASSUME NEW c \in CmdBuffs PROVE StillWaiting(c)
  <2>1. ASSUME agent[c] = "live", NEW p \in DOMAIN Q(c), Q(c)[p].kind = "Update",
               NEW m, m = Q(c)[p], Waiting(c, m)'
        PROVE  ~Ended' /\ m.frame = frame' /\ m.store = store'[m.buffer]
    <3>1. Waiting(c, m) /\ m.flush > flushes[c]
      BY <1>1, <2>1 DEF Waiting, Flushing
    <3>2. m \in UpdateMsg /\ CmdUpdate(c, m) /\ flushes[c] \in Nat
      BY <1>0, <2>1, UpdateTypes, CmdTypes DEF CmdUpdates
    <3>3. ~(m.flush <= flushes[c]) /\ m.buffer \in Buffers
      BY <3>1, <3>2 DEF UpdateMsg
    <3>4. m.buffer # b
      BY <1>1, <2>1, <3>3 DEF MayChange, Recorded, NothingRecorded, Q
    <3>5. m.frame = frame /\ m.store = store[m.buffer]
      BY <3>1, <3>2 DEF CmdUpdate
    <3>6. QED
      BY <1>1, <1>4, <3>3, <3>4, <3>5 DEF Ended
  <2>2. QED
    BY <2>1 DEF StillWaiting
<1>7. \A c \in CmdBuffs : OldUpdates(c)
  BY <1>1, OldSame DEF Elsewhere, SameCmds
<1>8. CmdUpdates'
  BY <1>0, <1>1, <1>2, <1>6, <1>7, CmdUpdatesKept DEF Elsewhere
<1>9. QED
  BY <1>3, <1>5, <1>8 DEF Staging

LEMMA StagingRecord ==
  ASSUME IInv, NEW c \in CmdBuffs, RecordCommand(c)
  PROVE  Staging'
<1>0. Types /\ Middle /\ Frames /\ Staging /\ Freeing /\ MainUpdates /\ CmdUpdates /\ QueueTypes
  BY DEF IInv, Staging, Types
<1>1. /\ Command(flushes[c] + 1) \in CmdMsg
      /\ queue' = [queue EXCEPT ![c] = Enqueue(@, <<Command(flushes[c] + 1)>>)]
  BY <1>0, CmdEffects, Subsets DEF RecordCommand
<1>2. /\ U' = U /\ Others(c) /\ Longer(c, 1) /\ Q(c)'[Len(Q(c)) + 1] = Command(flushes[c] + 1)
  BY <1>0, <1>1, CmdGets
<1>3. /\ UNCHANGED <<store, staging, frame, presented, agent, flushes, gPc, gThen>>
      /\ gPc = "record"
  BY DEF RecordCommand, NextCall, bufferVars, deviceVars
<1>4. Kept(0, {}, {}) /\ SoundKept(0)
  BY <1>0, <1>2, <1>3, KeptSame, SoundSame
<1>5. Freeing' /\ MainUpdates'
  BY <1>0, <1>3, <1>4, FreeingKept, MainUpdatesKept
<1>6. ASSUME NEW x \in CmdBuffs PROVE OldUpdates(x) /\ StillWaiting(x)
  <2>1. OldUpdates(x)
    <3>1. CASE x = c
      BY <1>2, <1>3, <3>1 DEF OldUpdates, Longer, Command
    <3>2. CASE x # c
      BY <1>2, <1>3, <3>2, OldSame, MainFacts DEF Others
    <3>3. QED
      BY <3>1, <3>2
  <2>2. StillWaiting(x)
    BY <1>0, <1>3, StillSame DEF Waiting, Flushing, Ended
  <2>3. QED
    BY <2>1, <2>2
<1>7. CmdUpdates'
  BY <1>0, <1>4, <1>6, CmdUpdatesKept
<1>8. QED
  BY <1>5, <1>7 DEF Staging

LEMMA StagingRecordUpdate ==
  ASSUME IInv, NEW c \in CmdBuffs, NEW b \in Buffers, RecordUpdateBuffer(c, b)
  PROVE  Staging'
<1>0. /\ Types /\ Middle /\ Frames /\ Staging /\ Freeing /\ MainUpdates /\ CmdUpdates /\ QueueTypes
      /\ Numbers
  BY DEF IInv, Staging, Types, Flushes
<1>1. PICK m : m = Update(b, flushes[c] + 1)
  OBVIOUS
<1>2. /\ m \in UpdateMsg /\ m \in CmdMsg /\ queue' = [queue EXCEPT ![c] = Enqueue(@, <<m>>)]
  BY <1>0, <1>1, CmdEffects, Subsets DEF RecordUpdateBuffer
<1>3. m.buffer = b /\ m.store = store[b] /\ m.slot = currentIndex /\ m.frame = frame
      /\ m.flush = flushes[c] + 1
  BY <1>1 DEF Update
<1>4. /\ U' = U /\ Others(c) /\ Longer(c, 1) /\ Q(c)'[Len(Q(c)) + 1] = m
  BY <1>0, <1>2, CmdGets
<1>5. /\ UNCHANGED <<store, frame, presented, agent, flushes, gPc, gThen>>
      /\ gPc = "record" /\ WriteSlot(b) /\ store[b] \in Stores
  BY <1>0, UpdateType DEF RecordUpdateBuffer, NextCall, WriteSlot, deviceVars
<1>6. Kept(0, {}, {}) /\ SoundKept(0) /\ Sound(m)' /\ ~Ended /\ ~Ended'
  BY <1>0, <1>3, <1>4, <1>5, KeptSame, WriteSound DEF Ended
<1>7. Freeing' /\ MainUpdates'
  BY <1>0, <1>5, <1>6, FreeingKept, MainUpdatesKept
<1>8. CmdUpdate(c, m)'
  <2>1. \A i \in DOMAIN U : Lists(i, c) => U[i].number[c] # m.flush
    <3>1. \A i \in DOMAIN U : Lists(i, c) => U[i].number[c] \in Nat /\ flushes[c] \in Nat
      BY <1>0, CmdTypes
    <3>2. QED
      BY <1>0, <1>3, <3>1 DEF Numbers
  <2>2. \A i : Lists(i, c)' <=> Lists(i, c)
    BY <1>4 DEF Lists
  <2>3. QED
    BY <1>3, <1>4, <1>5, <1>6, <2>1, <2>2 DEF CmdUpdate
<1>9. ASSUME NEW x \in CmdBuffs, agent'[x] = "live", NEW p \in DOMAIN Q(x)',
             Q(x)'[p].kind = "Update", NEW n, n = Q(x)'[p]
      PROVE  CmdUpdate(x, n)'
  <2>1. CASE \E q \in DOMAIN Q(x) : Q(x)[q] = n
    <3>1. n \in UpdateMsg /\ CmdUpdate(x, n)
      BY <1>0, <1>5, <1>9, <2>1, UpdateTypes DEF CmdUpdates
    <3>2. Waiting(x, n)' => ~Ended' /\ n.frame = frame' /\ n.store = store'[n.buffer]
      BY <1>5, <1>6, <3>1 DEF Waiting, Flushing, CmdUpdate
    <3>3. QED
      BY <1>6, <3>1, <3>2, CmdUpdateKept
  <2>2. CASE x = c /\ n = m
    BY <1>8, <2>2
  <2>3. CASE x = c
    BY <1>4, <1>9, <2>1, <2>2, <2>3 DEF Longer
  <2>4. CASE x # c
    <3>1. queue'[x] = queue[x]
      BY <1>4, <2>4, MainFacts DEF Others
    <3>2. Q(x)' = Q(x)
      BY <3>1 DEF Q
    <3>3. QED
      BY <1>9, <2>1, <3>2
  <2>5. QED
    BY <2>3, <2>4
<1>10. CmdUpdates'
  BY <1>9 DEF CmdUpdates
<1>11. QED
  BY <1>7, <1>10 DEF Staging

LEMMA StagingCommands ==
  ASSUME IInv, NEW cs \in FlushLists, FlushCommands(cs)
  PROVE  Staging'
<1>0. Types /\ Staging /\ Freeing /\ MainUpdates /\ CmdUpdates
  BY DEF IInv, Staging
<1>1. /\ gPc = "record" /\ gPc' = "flush" /\ Stays /\ flushes' = flushes
      /\ \A c \in CmdBuffs : Flushing(c)' => gThen'.number[c] = flushes[c] + 1
  BY <1>0, FlushBegins
<1>2. UNCHANGED <<store, staging, frame, presented, agent>>
  BY DEF FlushCommands, queueVars, bufferVars, deviceVars
<1>3. Kept(0, {}, {}) /\ SoundKept(0) /\ SameCmds
  BY <1>1, <1>2, SoundSame DEF Stays
<1>4. Freeing' /\ MainUpdates'
  BY <1>0, <1>2, <1>3, FreeingKept, MainUpdatesKept
<1>5. ASSUME NEW c \in CmdBuffs PROVE OldUpdates(c) /\ StillWaiting(c)
  <2>1. flushes[c] \in Nat
    BY <1>0, CmdTypes
  <2>2. \A m : Waiting(c, m)' => Waiting(c, m)
    BY <1>1, <1>5, <2>1 DEF Waiting
  <2>3. StillWaiting(c)
    BY <1>0, <1>1, <1>2, <2>2, StillSame DEF Ended
  <2>4. QED
    BY <1>2, <1>3, <2>3, OldSame DEF SameCmds
<1>6. CmdUpdates'
  BY <1>0, <1>3, <1>5, CmdUpdatesKept
<1>7. QED
  BY <1>4, <1>6 DEF Staging

LEMMA StagingFinish ==
  ASSUME IInv, FinishWriting
  PROVE  Staging'
<1>0. Types /\ Middle /\ Staging /\ Freeing /\ MainUpdates /\ CmdUpdates /\ QueueTypes
  BY DEF IInv, Staging, Types
<1>1. PICK c \in CmdBuffs : c = gTodo[1] /\ c = Head(gTodo)
  BY <1>0, CmdEffects
<1>2. PICK n : n = flushes[c] + 1
  OBVIOUS
<1>3. /\ Free(n) \in CmdMsg /\ Finish(n) \in CmdMsg /\ flushes \in [CmdBuffs -> Nat]
      /\ queue' = [queue EXCEPT ![c] = Kick(Enqueue(@, <<Free(n), Finish(n)>>))]
      /\ flushes' = [flushes EXCEPT ![c] = n]
      /\ UNCHANGED <<store, staging, frame, presented, agent, gPc, gThen>>
  BY <1>0, <1>1, <1>2, CmdEffects, Subsets
  DEF FinishWriting, Finished, bufferVars, deviceVars, Types
<1>4. /\ U' = U /\ Others(c) /\ Longer(c, 2)
      /\ Q(c)'[Len(Q(c)) + 1] = Free(n) /\ Q(c)'[Len(Q(c)) + 2] = Finish(n)
  BY <1>0, <1>3, CmdGetsTwo
<1>5. Kept(0, {}, {}) /\ SoundKept(0)
  BY <1>0, <1>3, <1>4, KeptSame, SoundSame
<1>6. Freeing' /\ MainUpdates'
  BY <1>0, <1>3, <1>5, FreeingKept, MainUpdatesKept
<1>7. ASSUME NEW x \in CmdBuffs PROVE OldUpdates(x) /\ StillWaiting(x)
  <2>1. OldUpdates(x)
    <3>1. CASE x = c
      BY <1>3, <1>4, <3>1 DEF OldUpdates, Longer, Free, Finish
    <3>2. CASE x # c
      BY <1>3, <1>4, <3>2, OldSame, MainFacts DEF Others
    <3>3. QED
      BY <3>1, <3>2
  <2>2. ASSUME NEW p \in DOMAIN Q(x), NEW m, m = Q(x)[p], Waiting(x, m)' PROVE Waiting(x, m)
    <3>1. m.flush \in Nat /\ flushes[x] \in Nat /\ flushes'[x] \in {flushes[x], flushes[x] + 1}
      BY <1>0, <1>2, <1>3, <2>2, CmdTypes
    <3>2. Flushing(x)' <=> Flushing(x)
      BY <1>3 DEF Flushing
    <3>3. QED
      BY <1>3, <2>2, <3>1, <3>2 DEF Waiting
  <2>3. StillWaiting(x)
    BY <1>0, <1>3, <2>2, StillSame DEF Ended
  <2>4. QED
    BY <2>1, <2>3
<1>8. CmdUpdates'
  BY <1>0, <1>5, <1>7, CmdUpdatesKept
<1>9. QED
  BY <1>6, <1>8 DEF Staging

LEMMA StagingEnqueue ==
  ASSUME IInv, EnqueueFlush
  PROVE  Staging'
<1>0. Types /\ Middle /\ Frames /\ Staging /\ Freeing /\ MainUpdates /\ CmdUpdates
  BY DEF IInv, Staging
<1>1. /\ gPc = "flush" /\ gPc' = "record" /\ gThen \in FlushMsg /\ gThen.kind = "Flush"
      /\ UNCHANGED <<store, staging, frame, presented, agent, flushes>>
  BY <1>0, FlushFacts DEF EnqueueFlush, Middle, bufferVars, deviceVars
<1>2. PICK k : k = Len(U) + 1
  OBVIOUS
<1>3. /\ SameCmds /\ Kept(0, {"Flush"}, {}) /\ k \in Nat \ {0} /\ DOMAIN U = 1..(k - 1)
      /\ DOMAIN U' = 1..k /\ U'[k] = gThen /\ \A i \in DOMAIN U : U'[i] = U[i]
  BY <1>0, <1>1, <1>2, GameEffects DEF Appends
<1>4. SoundKept(0) /\ ~Ended /\ ~Ended'
  BY <1>1, SoundSame DEF Ended
<1>5. Freeing' /\ MainUpdates'
  BY <1>0, <1>1, <1>3, <1>4, FreeingKept, MainUpdatesKept
<1>6. ASSUME NEW c \in CmdBuffs, agent[c] = "live", NEW p \in DOMAIN Q(c),
             Q(c)[p].kind = "Update", NEW m, m = Q(c)[p]
      PROVE  CmdUpdate(c, m)'
  <2>1. CmdUpdate(c, m) /\ m \in UpdateMsg /\ m.store \in Stores
    BY <1>0, <1>6, UpdateTypes DEF CmdUpdates, UpdateMsg
  <2>2. Sound(m)'
    BY <1>4, <2>1 DEF SoundKept, CmdUpdate
  <2>3. ASSUME NEW i \in DOMAIN U', Lists(i, c)', U'[i].number[c] = m.flush PROVE Ahead(i, m)'
    <3>1. Ahead(i, m)
      <4>1. CASE i = k
        <5>1. Waiting(c, m)
          BY <1>1, <1>3, <2>3, <4>1 DEF Waiting, Flushing, Lists
        <5>2. m.frame = frame /\ m.store = store[m.buffer]
          BY <2>1, <5>1 DEF CmdUpdate
        <5>3. QED
          BY <1>0, <1>4, <2>1, <5>2, AheadNew
      <4>2. CASE i # k
        BY <1>3, <2>1, <2>3, <4>2 DEF CmdUpdate, Lists
      <4>3. QED
        BY <4>1, <4>2
    <3>2. QED
      BY <1>3, <3>1 DEF Ahead
  <2>4. Waiting(c, m)' => ~Ended' /\ m.frame = frame' /\ m.store = store'[m.buffer]
    BY <1>1, <1>4, <2>1 DEF Waiting, Flushing, CmdUpdate
  <2>5. QED
    BY <2>2, <2>3, <2>4 DEF CmdUpdate
<1>7. CmdUpdates'
  BY <1>1, <1>3, <1>6 DEF CmdUpdates, SameCmds, Q
<1>8. QED
  BY <1>5, <1>7 DEF Staging

(* The first message of the main queue is harmless to every update that    *)
(* the command queues hold.                                                *)
LEMMA AheadSecond ==
  ASSUME IInv, NEW c \in CmdBuffs, agent[c] = "live", NEW p \in DOMAIN Q(c),
         Q(c)[p].kind = "Update", 1 \in DOMAIN U, U[1].kind # "Flush"
  PROVE  Ahead(2, Q(c)[p])
<1>0. /\ Types /\ Middle /\ Frames /\ Staging /\ Freeing /\ MainUpdates /\ CmdUpdates
      /\ Order(c) /\ Carried(c)
  BY DEF IInv, Staging, Flushes
<1>1. PICK m : m = Q(c)[p]
  OBVIOUS
<1>2. m \in UpdateMsg /\ CmdUpdate(c, m) /\ m.store \in Stores /\ m.flush \in Nat /\ flushes[c] \in Nat
  BY <1>0, <1>1, UpdateTypes, CmdTypes DEF CmdUpdates, UpdateMsg
<1>3. CASE Waiting(c, m)
  <2>1. ~Ended /\ m.frame = frame /\ m.store = store[m.buffer]
    BY <1>2, <1>3 DEF CmdUpdate
  <2>2. QED
    BY <1>0, <1>1, <1>2, <2>1, AheadNew
<1>4. CASE ~Waiting(c, m)
  <2>1. m.flush <= flushes[c] /\ ~(Flushing(c) /\ gThen.number[c] = m.flush)
    BY <1>2, <1>4 DEF Waiting
  <2>2. PICK i \in DOMAIN U : Lists(i, c) /\ U[i].number[c] = m.flush
    BY <1>0, <1>1, <2>1 DEF Carried
  <2>3. Ahead(i, m) /\ i # 1
    BY <1>2, <2>2 DEF CmdUpdate, Lists
  <2>4. \A k \in DOMAIN U : k < 2 => k < i
    BY <1>0, <2>3, FrameTypes
  <2>5. QED
    BY <1>1, <2>3, <2>4 DEF Ahead
<1>5. QED
  BY <1>3, <1>4

LEMMA AheadFlush ==
  ASSUME Types, U[1].kind = "Flush"
  PROVE  \A m : Ahead(2, m)
<1>1. \A k \in DOMAIN U : k < 2 => k = 1
  BY FrameTypes
<1>2. QED
  BY <1>1 DEF Ahead

LEMMA StagingTakes ==
  ASSUME IInv, Takes, UNCHANGED <<agent, flushes, gPc, gThen, frame, store>>, SoundKept(1)
  PROVE  Staging'
<1>0. Types /\ Staging /\ Freeing /\ MainUpdates /\ CmdUpdates
  BY DEF IInv, Staging
<1>1. Kept(1, {}, {U[1].kind}) /\ SameCmds /\ 1 \in DOMAIN U
  BY DEF Takes
<1>2. Freeing' /\ MainUpdates'
  BY <1>0, <1>1, FreeingKept, MainUpdatesKept
<1>3. \A c \in CmdBuffs : OldUpdates(c) /\ StillWaiting(c)
  BY <1>0, <1>1, OldSame, StillSame DEF SameCmds, Waiting, Flushing, Ended
<1>4. \A c \in CmdBuffs : agent[c] = "live" =>
        \A p \in DOMAIN Q(c) : Q(c)[p].kind = "Update" => Ahead(2, Q(c)[p])
  BY <1>0, <1>1, AheadSecond, AheadFlush
<1>5. CmdUpdates'
  BY <1>0, <1>1, <1>3, <1>4, CmdUpdatesKept
<1>6. QED
  BY <1>2, <1>5 DEF Staging

LEMMA StagingExec ==
  ASSUME IInv,
         \/ ExecPlain \/ ExecLife \/ ExecFreeStaging \/ ExecPresent \/ ExecWait
         \/ ExecTerminate \/ FlushEnd
  PROVE  Staging'
<1>0. Types /\ Middle /\ Frames
  BY DEF IInv
<1>1. Takes /\ 1 \in DOMAIN U /\ UNCHANGED <<agent, flushes, gPc, gThen, frame, store>>
  <2>1. Takes
    BY <1>0, DeviceEffects
  <2>2. QED
    BY <2>1 DEF Takes, ExecPlain, ExecLife, ExecFreeStaging, ExecPresent, ExecWait, ExecTerminate,
                FlushEnd, gameVars, bufferVars
<1>2. SoundKept(1)
  <2>1. CASE ExecPresent
    <3>1. U[1].kind = "Present" /\ presented' = presented + 1 /\ staging' = staging
      BY <1>0, <2>1, DeviceEffects DEF ExecPresent, bufferVars
    <3>2. presented <= U[1].frame /\ U[1].frame \in Nat /\ presented \in Nat
      BY <1>0, <1>1, <3>1, FrameTypes DEF Frames, PresentsWait
    <3>3. ASSUME NEW m \in UpdateMsg, Sound(m), Ahead(2, m) PROVE Sound(m)'
      <4>1. U[1].frame < m.frame /\ m.frame \in Nat
        BY <1>1, <3>1, <3>3 DEF Ahead, UpdateMsg
      <4>2. presented' <= m.frame
        BY <3>1, <3>2, <4>1
      <4>3. QED
        BY <1>1, <3>1, <3>3, <4>2 DEF Sound
    <3>4. QED
      BY <3>3 DEF SoundKept
  <2>2. CASE ExecFreeStaging
    <3>1. PICK f : f = U[1]
      OBVIOUS
    <3>2. /\ f.kind = "FreeStaging" /\ f \in MainMsg /\ presented' = presented
          /\ staging' = [staging EXCEPT ![f.buffer][f.store] = [i \in Slots |-> Freed]]
      BY <1>0, <1>1, <2>2, <3>1, DeviceEffects DEF ExecFreeStaging, deviceVars, Takes
    <3>3. f.buffer \in Buffers /\ f.store \in Stores
      BY <3>2, KindFacts DEF StagingMsg
    <3>4. staging \in [Buffers -> [Stores -> [Slots -> Nat]]]
      BY <1>0 DEF Types
    <3>5. ASSUME NEW m \in UpdateMsg, Sound(m), Ahead(2, m) PROVE Sound(m)'
      <4>1. f.buffer # m.buffer \/ f.store # m.store
        BY <1>1, <3>1, <3>2, <3>5 DEF Ahead
      <4>2. m.buffer \in Buffers /\ m.store \in Stores
        BY DEF UpdateMsg
      <4>3. staging'[m.buffer][m.store] = staging[m.buffer][m.store]
        BY <3>2, <3>3, <3>4, <4>1, <4>2
      <4>4. QED
        BY <1>1, <3>2, <3>5, <4>3 DEF Sound
    <3>6. QED
      BY <3>5 DEF SoundKept
  <2>3. CASE ~(ExecPresent \/ ExecFreeStaging)
    BY <1>1, <2>3, SoundSame
    DEF ExecPlain, ExecLife, ExecWait, ExecTerminate, FlushEnd, bufferVars, deviceVars
  <2>4. QED
    BY <2>1, <2>2, <2>3
<1>3. QED
  BY <1>1, <1>2, StagingTakes

LEMMA StagingFlush ==
  ASSUME IInv, FlushBegin \/ \E i \in todo : FlushStep(i)
  PROVE  Staging'
<1>0. Types /\ Middle /\ Staging /\ Freeing /\ MainUpdates /\ CmdUpdates /\ QueueTypes
  BY DEF IInv, Staging, Types
<1>1. UNCHANGED <<store, staging, frame, presented, agent, flushes, gPc, gThen>>
  BY DEF FlushBegin, FlushStep, queueVars, bufferVars, gameVars
<1>2. /\ U' = U
      /\ \A c \in CmdBuffs : \A p \in DOMAIN Q(c)' : \E q \in DOMAIN Q(c) : Q(c)[q] = Q(c)'[p]
  <2>1. CASE FlushBegin
    BY <1>0, <2>1, DeviceEffects DEF Stays, SameCmds, Q
  <2>2. ASSUME NEW i \in todo, FlushStep(i)
        PROVE  /\ U' = U
               /\ \A c \in CmdBuffs : \A p \in DOMAIN Q(c)' : \E q \in DOMAIN Q(c) : Q(c)[q] = Q(c)'[p]
    <3>1. PICK c \in CmdBuffs : c = U[1].cmdBuffs[i] /\ Message(main) = U[1]
      BY <1>0, <2>2, DeviceEffects
    <3>2. U' = U /\ Others(c) /\ Shorter(c)
      BY <1>0, <2>2, <3>1, CmdLoses DEF FlushStep
    <3>3. ASSUME NEW x \in CmdBuffs, NEW p \in DOMAIN Q(x)' PROVE \E q \in DOMAIN Q(x) : Q(x)[q] = Q(x)'[p]
      <4>1. CASE x = c
        <5>1. p + 1 \in DOMAIN Q(c) /\ Q(c)'[p] = Q(c)[p + 1]
          BY <3>2, <3>3, <4>1 DEF Shorter
        <5>2. QED
          BY <4>1, <5>1
      <4>2. CASE x # c
        <5>1. queue'[x] = queue[x]
          BY <3>2, <4>2, MainFacts DEF Others
        <5>2. QED
          BY <3>3, <5>1 DEF Q
      <4>3. QED
        BY <4>1, <4>2
    <3>4. QED
      BY <3>2, <3>3
  <2>3. QED
    BY <2>1, <2>2
<1>3. Kept(0, {}, {}) /\ SoundKept(0)
  BY <1>0, <1>1, <1>2, KeptSame, SoundSame
<1>4. Freeing' /\ MainUpdates'
  BY <1>0, <1>1, <1>3, FreeingKept, MainUpdatesKept
<1>5. \A c \in CmdBuffs : OldUpdates(c) /\ StillWaiting(c)
  BY <1>0, <1>1, <1>2, StillSame DEF OldUpdates, Waiting, Flushing, Ended
<1>6. CmdUpdates'
  BY <1>0, <1>3, <1>5, CmdUpdatesKept
<1>7. QED
  BY <1>4, <1>6 DEF Staging

LEMMA StagingNext ==
  ASSUME IInv, Next
  PROVE  Staging'
<1>1. ASSUME NEW b \in Buffers, ResizeBuffer(b) \/ DestroyBuffer(b) PROVE Staging'
  <2>1. store[b] \in Stores \cup {Gone} /\ MaxResizes \in Nat
    BY FrameAssumption DEF IInv, Types
  <2>2. CASE ResizeBuffer(b)
    <3>1. store[b] + 1 \in Stores /\ store[b] + 1 > store[b] /\ ChangeStore(b, store[b] + 1)
      BY <2>1, <2>2 DEF ResizeBuffer, Stores, Gone
    <3>2. QED
      BY <3>1, StagingChange
  <2>3. CASE DestroyBuffer(b)
    <3>1. ChangeStore(b, Gone) /\ store[b] # Gone
      BY <2>3 DEF DestroyBuffer, ChangeStore, MayChange
    <3>2. Gone > store[b]
      BY <2>1, <3>1 DEF Stores, Gone
    <3>3. QED
      BY <3>1, <3>2, StagingChange
  <2>4. QED
    BY <1>1, <2>2, <2>3
<1>2. CASE GameCall
  BY <1>1, <1>2, StagingUpdate, StagingRecord, StagingRecordUpdate, StagingElsewhere, StagingCommands
  DEF GameCall
<1>3. CASE GameStep
  BY <1>3, StagingElsewhere, StagingFinish, StagingEnqueue DEF GameStep
<1>4. CASE DeviceStep
  BY <1>4, StagingExec, StagingFlush DEF DeviceStep
<1>5. QED
  BY <1>2, <1>3, <1>4 DEF Next

-----------------------------------------------------------------------------
(* Waits.                                                                  *)

LEMMA WaitsQuiet ==
  ASSUME Waits, NEW in, NEW out, Kept(0, in, out), "Wait" \notin in, "Terminate" \notin in,
         gPc # "wait", gPc' # "wait", gPc \in {"join", "gone"} => gPc' \in {"join", "gone"}
  PROVE  Waits'
BY DEF Waits, Kept

LEMMA WaitsSame ==
  ASSUME Waits, U' = U, UNCHANGED <<gPc, event>>
  PROVE  Waits'
BY DEF Waits

(* The wait message is the last one.                                       *)
LEMMA WaitsBegin ==
  ASSUME Waits, gPc = "record", gPc' = "wait", event' = FALSE,
         \/ Appends(Bare("Wait"))
         \/ \E m : AppendsTwo(m, Bare("Wait")) /\ m.kind \notin {"Wait", "Terminate"}
  PROVE  Waits'
<1>1. PICK k : k = Len(U')
  OBVIOUS
<1>2. /\ k \in Nat \ {0} /\ DOMAIN U' = 1..k /\ U'[k].kind = "Wait"
      /\ \A i \in DOMAIN U' : i # k => U'[i].kind \notin {"Wait", "Terminate"}
  <2>1. \A i \in DOMAIN U : U[i].kind \notin {"Wait", "Terminate"}
    BY DEF Waits
  <2>2. CASE Appends(Bare("Wait"))
    BY <1>1, <2>1, <2>2 DEF Appends, Bare
  <2>3. ASSUME NEW m, AppendsTwo(m, Bare("Wait")), m.kind \notin {"Wait", "Terminate"}
        PROVE  /\ k \in Nat \ {0} /\ DOMAIN U' = 1..k /\ U'[k].kind = "Wait"
               /\ \A i \in DOMAIN U' : i # k => U'[i].kind \notin {"Wait", "Terminate"}
    BY <1>1, <2>1, <2>3 DEF AppendsTwo, Bare
  <2>4. QED
    BY <2>2, <2>3
<1>3. U' # <<>>
  BY <1>1, <1>2
<1>4. QED
  BY <1>1, <1>2, <1>3 DEF Waits, Bare

LEMMA WaitsGame ==
  ASSUME IInv, GameCall \/ GameStep
  PROVE  Waits'
<1>0. Types /\ Middle /\ Waits /\ QueueTypes
  BY DEF IInv, Types
<1>1. ASSUME NEW b \in Buffers, UpdateBuffer(b) PROVE Waits'
  <2>1. Kept(0, {"Update"}, {}) /\ gPc = "record" /\ gPc' = gPc
    BY <1>0, <1>1, GameEffects DEF UpdateBuffer, NextCall, Appends, Update
  <2>2. QED
    BY <1>0, <2>1, WaitsQuiet
<1>2. ASSUME NEW b \in Buffers, NEW s, ChangeStore(b, s) PROVE Waits'
  <2>1. Kept(0, {"FreeStaging"}, {}) /\ gPc = "record" /\ gPc' = gPc
    BY <1>0, <1>2, GameEffects DEF ChangeStore, NextCall, Appends, FreeStaging
  <2>2. QED
    BY <1>0, <2>1, WaitsQuiet
<1>3. ASSUME NEW c \in CmdBuffs,
             RecordCommand(c) \/ \E b \in Buffers : RecordUpdateBuffer(c, b) PROVE Waits'
  <2>1. PICK m \in CmdMsg : queue' = [queue EXCEPT ![c] = Enqueue(@, <<m>>)]
    BY <1>0, <1>3, CmdEffects, Subsets DEF RecordCommand, RecordUpdateBuffer
  <2>2. U' = U
    BY <1>0, <2>1, CmdGets
  <2>3. QED
    BY <1>0, <1>3, <2>2, WaitsSame DEF RecordCommand, RecordUpdateBuffer
<1>4. ASSUME NEW c \in CmdBuffs, CreateCommandBuffer(c) PROVE Waits'
  <2>1. Kept(0, {"Init"}, {}) /\ gPc = "record" /\ gPc' = gPc
    BY <1>0, <1>4, GameEffects DEF CreateCommandBuffer, NextCall, Appends, Life
  <2>2. QED
    BY <1>0, <2>1, WaitsQuiet
<1>5. ASSUME NEW c \in CmdBuffs, DestroyCommandBuffer(c) PROVE Waits'
  <2>1. Appends(Bare("Wait")) /\ gPc = "record" /\ gPc' = "wait" /\ event' = FALSE
    BY <1>0, <1>5, GameEffects DEF DestroyCommandBuffer, NextCall, KickAndWait
  <2>2. QED
    BY <1>0, <2>1, WaitsBegin
<1>6. ASSUME NEW cs \in FlushLists, FlushCommands(cs) PROVE Waits'
  <2>1. Kept(0, {}, {}) /\ gPc = "record" /\ gPc' = "flush"
    BY <1>0, <1>6, QueueSame DEF FlushCommands, NextCall, queueVars, Stays
  <2>2. QED
    BY <1>0, <2>1, WaitsQuiet
<1>7. ASSUME CopyTextureToBuffers PROVE Waits'
  <2>1. AppendsTwo(Bare("Copy"), Bare("Wait")) /\ Bare("Copy").kind = "Copy"
    BY <1>0, <1>7, GameEffects DEF Bare
  <2>2. gPc = "record" /\ gPc' = "wait" /\ event' = FALSE
    BY <1>7 DEF CopyTextureToBuffers, NextCall, KickAndWait
  <2>3. QED
    BY <1>0, <2>1, <2>2, WaitsBegin
<1>8. ASSUME DestroyDevice PROVE Waits'
  <2>1. AppendsTwo(Bare("DeviceDestroy"), Bare("Wait")) /\ Bare("DeviceDestroy").kind = "DeviceDestroy"
    BY <1>0, <1>8, GameEffects DEF Bare
  <2>2. gPc = "record" /\ gPc' = "wait" /\ event' = FALSE
    BY <1>8 DEF DestroyDevice, KickAndWait
  <2>3. QED
    BY <1>0, <2>1, <2>2, WaitsBegin
<1>9. ASSUME Present PROVE Waits'
  <2>1. Kept(0, {"Present", "Free"}, {}) /\ gPc = "record" /\ gPc' = "present"
    BY <1>0, <1>9, GameEffects DEF Present, AppendsTwo, PresentFrame, Free
  <2>2. QED
    BY <1>0, <2>1, WaitsQuiet
<1>10. ASSUME FinishWriting PROVE Waits'
  <2>1. PICK c \in CmdBuffs : c = gTodo[1] /\ c = Head(gTodo)
    BY <1>0, <1>10, CmdEffects
  <2>2. U' = U
    BY <1>0, <1>10, <2>1, CmdEffects, CmdGetsTwo, Subsets DEF FinishWriting, Finished
  <2>3. QED
    BY <1>0, <1>10, <2>2, WaitsSame DEF FinishWriting
<1>11. ASSUME EnqueueFlush PROVE Waits'
  <2>1. Kept(0, {"Flush"}, {}) /\ gPc = "flush" /\ gPc' = "record"
    BY <1>0, <1>11, GameEffects, FlushFacts DEF EnqueueFlush, Middle, Appends
  <2>2. QED
    BY <1>0, <2>1, WaitsQuiet
<1>12. ASSUME PresentFinish PROVE Waits'
  <2>1. Kept(0, {"Finish"}, {}) /\ gPc = "present" /\ gPc' = "boundary"
    BY <1>0, <1>12, GameEffects DEF PresentFinish, Appends, Finish
  <2>2. QED
    BY <1>0, <2>1, WaitsQuiet
<1>13. ASSUME FrameBoundary \/ Join PROVE Waits'
  <2>1. Kept(0, {}, {})
    BY <1>0, <1>13, QueueSame DEF FrameBoundary, Join, queueVars, Stays
  <2>2. (gPc = "boundary" /\ gPc' = "record") \/ (gPc = "join" /\ gPc' = "gone")
    BY <1>13 DEF FrameBoundary, Join
  <2>3. QED
    BY <1>0, <2>1, <2>2, WaitsQuiet
<1>14. ASSUME WaitReturn PROVE Waits'
  <2>1. U = <<>> /\ DOMAIN U = {}
    BY <1>0, <1>14 DEF WaitReturn, Waits
  <2>2. \A i \in DOMAIN U' : U'[i].kind = "Destroy" \/ (U'[i].kind = "Terminate" /\ gPc' = "join")
    <3>1. \A m : Appends(m) => \A i \in DOMAIN U' : U'[i] = m
      BY <2>1 DEF Appends
    <3>2. Stays => DOMAIN U' = {}
      BY <2>1 DEF Stays
    <3>3. Bare("Terminate").kind = "Terminate"
      BY DEF Bare
    <3>4. QED
      BY <1>0, <1>14, <3>1, <3>2, <3>3, WaitReturnEffects
  <2>3. gPc' # "wait"
    BY <1>0, <1>14, WaitReturnEffects
  <2>4. QED
    BY <2>2, <2>3 DEF Waits
<1>15. QED
  BY <1>1, <1>2, <1>3, <1>4, <1>5, <1>6, <1>7, <1>8, <1>9, <1>10, <1>11, <1>12, <1>13, <1>14
  DEF GameCall, GameStep, ResizeBuffer, DestroyBuffer

LEMMA WaitsDevice ==
  ASSUME IInv, DeviceStep
  PROVE  Waits'
<1>0. Types /\ Middle /\ Waits /\ QueueTypes
  BY DEF IInv, Types
<1>1. ASSUME ExecPlain \/ ExecLife \/ ExecFreeStaging \/ ExecPresent \/ FlushEnd PROVE Waits'
  <2>1. Takes /\ U[1].kind # "Wait"
    BY <1>0, <1>1, DeviceEffects
  <2>2. UNCHANGED <<gPc, event>>
    BY <1>1 DEF ExecPlain, ExecLife, ExecFreeStaging, ExecPresent, FlushEnd, gameVars
  <2>3. PICK k : k = Len(U)
    OBVIOUS
  <2>4. /\ k \in Nat \ {0} /\ DOMAIN U = 1..k /\ DOMAIN U' = 1..(k - 1) /\ Len(U') = k - 1
        /\ \A i \in DOMAIN U' : U'[i] = U[i + 1] /\ i + 1 \in DOMAIN U
    BY <2>1, <2>3 DEF Takes
  <2>5. /\ \A i \in DOMAIN U' : U'[i].kind = "Wait" => gPc = "wait" /\ ~event /\ i = k - 1
        /\ \A i \in DOMAIN U' : U'[i].kind = "Terminate" => gPc \in {"join", "gone"}
    BY <1>0, <2>3, <2>4 DEF Waits
  <2>6. ASSUME gPc = "wait" PROVE ~event /\ U' # <<>> /\ U'[k - 1].kind = "Wait"
    <3>1. U # <<>>
      BY <2>4
    <3>2. ~event /\ U[k].kind = "Wait"
      BY <1>0, <2>3, <2>6, <3>1 DEF Waits
    <3>3. k # 1 /\ k - 1 \in DOMAIN U'
      BY <2>1, <2>4, <3>2
    <3>4. U'[k - 1] = U[k]
      BY <2>4, <3>3
    <3>5. QED
      BY <3>2, <3>3, <3>4
  <2>7. QED
    BY <2>2, <2>4, <2>5, <2>6 DEF Waits
<1>2. ASSUME ExecWait PROVE Waits'
  <2>1. Takes /\ U[1].kind = "Wait"
    BY <1>0, <1>2, DeviceEffects
  <2>2. Len(U) = 1 /\ DOMAIN U' = {} /\ Len(U') = 0
    BY <1>0, <2>1 DEF Takes, Waits
  <2>3. U' \in Seq(MainMsg)
    BY <2>1, MainFacts DEF Takes, QueueTypes, U
  <2>4. U' = <<>> /\ event' = TRUE
    BY <1>2, <2>2, <2>3 DEF ExecWait
  <2>5. QED
    BY <2>2, <2>4 DEF Waits
<1>3. ASSUME ExecTerminate PROVE Waits'
  <2>1. Takes /\ U[1].kind = "Terminate" /\ gPc' = gPc
    BY <1>0, <1>3, DeviceEffects DEF ExecTerminate, gameVars
  <2>2. gPc \in {"join", "gone"}
    BY <1>0, <2>1 DEF Takes, Waits
  <2>3. \A i \in DOMAIN U' : U'[i].kind # "Wait"
    BY <1>0, <2>1, <2>2 DEF Takes, Waits
  <2>4. QED
    BY <2>1, <2>2, <2>3 DEF Waits
<1>4. ASSUME FlushBegin PROVE Waits'
  BY <1>0, <1>4, DeviceEffects, WaitsSame DEF FlushBegin, Stays, gameVars
<1>5. ASSUME NEW i \in todo, FlushStep(i) PROVE Waits'
  <2>1. PICK c \in CmdBuffs : c = U[1].cmdBuffs[i] /\ Message(main) = U[1]
    BY <1>0, <1>5, DeviceEffects
  <2>2. U' = U
    BY <1>0, <1>5, <2>1, CmdLoses DEF FlushStep
  <2>3. QED
    BY <1>0, <1>5, <2>2, WaitsSame DEF FlushStep, gameVars
<1>6. QED
  BY <1>1, <1>2, <1>3, <1>4, <1>5 DEF DeviceStep

-----------------------------------------------------------------------------
(* Lives.                                                                  *)

(* The main queue keeps its messages about a command buffer, and its queue *)
(* stays as it is unless it is alive.                                      *)
Unmoved(c, d) ==
  /\ \A i \in DOMAIN U' : Lists(i, c)' \/ (U'[i].kind = "Destroy" /\ U'[i].cmdBuff = c) =>
       i + d \in DOMAIN U /\ U'[i] = U[i + d]
  /\ \A i \in DOMAIN U : U[i].kind = "Init" /\ U[i].cmdBuff = c =>
       i > d /\ i - d \in DOMAIN U' /\ U'[i - d] = U[i]

LEMMA LivingKept ==
  ASSUME Types, Types', NEW c \in CmdBuffs, Living(c), NEW d \in {0, 1}, Unmoved(c, d),
         agent'[c] = agent[c], actor'[c] = actor[c],
         Flushing(c)' => Flushing(c) \/ agent[c] = "live",
         agent[c] = "live" \/ queue'[c] = queue[c]
  PROVE  Living(c)'
<1>0. /\ \A i \in DOMAIN U : i \in Nat \ {0}
      /\ \A i \in DOMAIN U' : i \in Nat \ {0}
  <2>1. QueueTypes /\ QueueTypes'
    BY DEF Types
  <2>2. QED
    BY <2>1, MainShapes DEF MainShape
<1>1. \A i \in DOMAIN U' : Lists(i, c)' => agent'[c] = "live"
  BY DEF Living, Unmoved, Lists
<1>2. \A i \in DOMAIN U' : U'[i].kind = "Destroy" /\ U'[i].cmdBuff = c => agent'[c] = "deleted"
  BY DEF Living, Unmoved
<1>3. Flushing(c)' => agent'[c] = "live"
  BY DEF Living
<1>4. ASSUME agent'[c] = "live", actor'[c] # "ready"
      PROVE  \E i \in DOMAIN U' : /\ U'[i].kind = "Init" /\ U'[i].cmdBuff = c
                                  /\ \A j \in DOMAIN U' : Lists(j, c)' => i < j
  <2>1. PICK i \in DOMAIN U : /\ U[i].kind = "Init" /\ U[i].cmdBuff = c
                              /\ \A j \in DOMAIN U : Lists(j, c) => i < j
    BY <1>4 DEF Living
  <2>2. i > d /\ i - d \in DOMAIN U' /\ U'[i - d] = U[i]
    BY <2>1 DEF Unmoved
  <2>3. ASSUME NEW j \in DOMAIN U', Lists(j, c)' PROVE i - d < j
    <3>1. j + d \in DOMAIN U /\ U'[j] = U[j + d]
      BY <2>3 DEF Unmoved
    <3>2. Lists(j + d, c)
      BY <2>3, <3>1 DEF Lists
    <3>3. i < j + d /\ i \in Nat /\ j \in Nat
      BY <1>0, <2>1, <3>1, <3>2
    <3>4. QED
      BY <3>3
  <2>4. QED
    BY <2>1, <2>2, <2>3
<1>5. /\ agent'[c] = "new" => Q(c)' = <<>>
      /\ agent'[c] = "deleted" => queue'[c].visible = 0
  BY DEF Living, Q
<1>6. QED
  BY <1>1, <1>2, <1>3, <1>4, <1>5 DEF Living

LEMMA KeptUnmoved ==
  ASSUME NEW c, NEW d \in {0, 1}, NEW in, NEW out, Kept(d, in, out),
         "Flush" \notin in, "Destroy" \notin in, "Init" \notin out
  PROVE  Unmoved(c, d)
<1>1. ASSUME NEW i \in DOMAIN U', Lists(i, c)' \/ (U'[i].kind = "Destroy" /\ U'[i].cmdBuff = c)
      PROVE  i + d \in DOMAIN U /\ U'[i] = U[i + d]
  BY <1>1 DEF Kept, Lists
<1>2. ASSUME NEW i \in DOMAIN U, U[i].kind = "Init" PROVE i > d /\ i - d \in DOMAIN U' /\ U'[i - d] = U[i]
  BY <1>2 DEF Kept
<1>3. QED
  BY <1>1, <1>2 DEF Unmoved

LEMMA LivesKept ==
  ASSUME Types, Types', Lives, NEW d \in {0, 1}, NEW in, NEW out, Kept(d, in, out),
         "Flush" \notin in, "Destroy" \notin in, "Init" \notin out,
         UNCHANGED <<agent, actor>>, \A c \in CmdBuffs : Flushing(c)' => Flushing(c),
         \A c \in CmdBuffs : agent[c] = "live" \/ queue'[c] = queue[c]
  PROVE  Lives'
BY LivingKept, KeptUnmoved DEF Lives

(* Who waited finds nothing left to execute in any queue.                  *)
LEMMA NothingVisible ==
  ASSUME Types, Flushes, U = <<>>, gPc # "flush", NEW c \in CmdBuffs
  PROVE  queue[c].visible = 0
<1>1. Order(c) /\ Carried(c) /\ DOMAIN U = {} /\ ~Flushing(c)
  BY DEF Flushes, Flushing
<1>2. queue[c].visible \in 0..Len(Q(c)) /\ DOMAIN Q(c) = 1..Len(Q(c)) /\ Len(Q(c)) \in Nat
  BY CmdTypes
<1>3. \A p \in DOMAIN Q(c) : ~(p <= queue[c].visible)
  BY <1>1 DEF Order, Carried
<1>4. QED
  BY <1>2, <1>3

LEMMA LivesCall ==
  ASSUME IInv, Types', GameCall
  PROVE  Lives'
<1>0. Types /\ Middle /\ Lives /\ QueueTypes
  BY DEF IInv, Types
<1>1. ASSUME NEW in, Kept(0, in, {}), SameCmds, "Flush" \notin in, "Destroy" \notin in,
             UNCHANGED <<agent, actor>>, gPc' # "flush"
      PROVE  Lives'
  BY <1>0, <1>1, LivesKept DEF SameCmds, Flushing
<1>2. ASSUME NEW b \in Buffers, UpdateBuffer(b) PROVE Lives'
  <2>1. Kept(0, {"Update"}, {}) /\ SameCmds
    BY <1>0, <1>2, GameEffects DEF Appends, Update
  <2>2. QED
    BY <1>1, <1>2, <2>1 DEF UpdateBuffer, NextCall, deviceVars
<1>3. ASSUME NEW b \in Buffers, NEW s, ChangeStore(b, s) PROVE Lives'
  <2>1. Kept(0, {"FreeStaging"}, {}) /\ SameCmds
    BY <1>0, <1>3, GameEffects DEF Appends, FreeStaging
  <2>2. QED
    BY <1>1, <1>3, <2>1 DEF ChangeStore, NextCall, deviceVars
<1>4. ASSUME NEW c \in CmdBuffs,
             RecordCommand(c) \/ \E b \in Buffers : RecordUpdateBuffer(c, b) PROVE Lives'
  <2>1. PICK m \in CmdMsg : queue' = [queue EXCEPT ![c] = Enqueue(@, <<m>>)]
    BY <1>0, <1>4, CmdEffects, Subsets DEF RecordCommand, RecordUpdateBuffer
  <2>2. U' = U /\ Others(c) /\ Kept(0, {}, {})
    BY <1>0, <2>1, CmdGets, KeptSame
  <2>3. \A x \in CmdBuffs : agent[x] = "live" \/ queue'[x] = queue[x]
    BY <1>4, <2>2, MainFacts DEF RecordCommand, RecordUpdateBuffer, CanRecord, Others
  <2>4. UNCHANGED <<agent, actor, gPc, gThen>>
    BY <1>4 DEF RecordCommand, RecordUpdateBuffer, deviceVars
  <2>5. QED
    BY <1>0, <2>2, <2>3, <2>4, LivesKept DEF Flushing
<1>5. ASSUME NEW c \in CmdBuffs, CreateCommandBuffer(c) PROVE Lives'
  <2>1. PICK m : m = Life("Init", c)
    OBVIOUS
  <2>2. m.kind = "Init" /\ m.cmdBuff = c /\ Appends(m)
    BY <1>0, <1>5, <2>1, GameEffects DEF Life
  <2>3. /\ SameCmds /\ Kept(0, {"Init"}, {}) /\ Len(U) \in Nat /\ DOMAIN U = 1..Len(U)
        /\ DOMAIN U' = 1..(Len(U) + 1) /\ U'[Len(U) + 1] = m /\ \A i \in DOMAIN U : U'[i] = U[i]
    BY <2>2 DEF Appends
  <2>4. /\ agent[c] = "new" /\ agent' = [agent EXCEPT ![c] = "live"]
        /\ actor' = actor /\ gPc' # "flush" /\ agent \in [CmdBuffs -> {"new", "live", "deleted"}]
    BY <1>0, <1>5 DEF CreateCommandBuffer, NextCall, deviceVars, Types
  <2>5. ASSUME NEW x \in CmdBuffs, x # c PROVE Living(x)'
    BY <1>0, <2>3, <2>4, <2>5, KeptUnmoved, LivingKept DEF Lives, SameCmds, Flushing
  <2>6. Living(c)'
    <3>1. /\ \A i \in DOMAIN U : ~Lists(i, c)
          /\ \A i \in DOMAIN U : ~(U[i].kind = "Destroy" /\ U[i].cmdBuff = c)
      BY <1>0, <2>4 DEF Lives, Living
    <3>2. \A i \in DOMAIN U' : ~Lists(i, c)'
      BY <2>2, <2>3, <3>1 DEF Lists
    <3>3. \A i \in DOMAIN U' : ~(U'[i].kind = "Destroy" /\ U'[i].cmdBuff = c)
      BY <2>2, <2>3, <3>1
    <3>4. \E i \in DOMAIN U' : /\ U'[i].kind = "Init" /\ U'[i].cmdBuff = c
                               /\ \A j \in DOMAIN U' : Lists(j, c)' => i < j
      BY <2>2, <2>3, <3>2
    <3>5. agent'[c] = "live"
      BY <2>4
    <3>6. QED
      BY <3>2, <3>3, <3>4, <3>5 DEF Living
  <2>7. QED
    BY <2>5, <2>6 DEF Lives
<1>6. ASSUME NEW c \in CmdBuffs, DestroyCommandBuffer(c) PROVE Lives'
  <2>1. Kept(0, {"Wait"}, {}) /\ SameCmds
    BY <1>0, <1>6, GameEffects DEF Appends, Bare
  <2>2. QED
    BY <1>1, <1>6, <2>1 DEF DestroyCommandBuffer, KickAndWait, deviceVars
<1>7. ASSUME NEW cs \in FlushLists, FlushCommands(cs) PROVE Lives'
  <2>1. Kept(0, {}, {}) /\ SameCmds
    BY <1>0, <1>7, QueueSame DEF FlushCommands, queueVars, Stays
  <2>2. UNCHANGED <<agent, actor>>
    BY <1>7 DEF FlushCommands, queueVars, deviceVars
  <2>3. \A c : Flushing(c)' => agent[c] = "live"
    BY <1>7 DEF FlushCommands, Flushing, Flush
  <2>4. QED
    BY <1>0, <2>1, <2>2, <2>3, KeptUnmoved, LivingKept DEF Lives, SameCmds
<1>8. ASSUME CopyTextureToBuffers PROVE Lives'
  <2>1. Kept(0, {"Copy", "Wait"}, {}) /\ SameCmds
    BY <1>0, <1>8, GameEffects DEF AppendsTwo, Bare
  <2>2. QED
    BY <1>1, <1>8, <2>1 DEF CopyTextureToBuffers, KickAndWait, deviceVars
<1>9. ASSUME DestroyDevice PROVE Lives'
  <2>1. Kept(0, {"DeviceDestroy", "Wait"}, {}) /\ SameCmds
    BY <1>0, <1>9, GameEffects DEF AppendsTwo, Bare
  <2>2. QED
    BY <1>1, <1>9, <2>1 DEF DestroyDevice, KickAndWait, deviceVars
<1>10. ASSUME Present PROVE Lives'
  <2>1. Kept(0, {"Present", "Free"}, {}) /\ SameCmds
    BY <1>0, <1>10, GameEffects DEF AppendsTwo, PresentFrame, Free
  <2>2. QED
    BY <1>1, <1>10, <2>1 DEF Present, deviceVars
<1>11. QED
  BY <1>2, <1>3, <1>4, <1>5, <1>6, <1>7, <1>8, <1>9, <1>10
  DEF GameCall, ResizeBuffer, DestroyBuffer

LEMMA LivesReturn ==
  ASSUME IInv, Types', WaitReturn
  PROVE  Lives'
<1>0. Types /\ Middle /\ Lives /\ Flushes /\ Waits
  BY DEF IInv
<1>1. /\ U = <<>> /\ DOMAIN U = {} /\ gPc # "flush" /\ gPc' # "flush"
      /\ actor' = actor /\ agent \in [CmdBuffs -> {"new", "live", "deleted"}]
  <2>1. gPc = "wait" /\ event /\ actor' = actor
    BY DEF WaitReturn, deviceVars
  <2>2. U = <<>> /\ DOMAIN U = {}
    BY <1>0, <2>1 DEF Waits
  <2>3. gPc' # "flush"
    BY <1>0, WaitReturnEffects
  <2>4. agent \in [CmdBuffs -> {"new", "live", "deleted"}]
    BY <1>0 DEF Types
  <2>5. QED
    BY <2>1, <2>2, <2>3, <2>4
<1>2. CASE agent' = agent /\ Stays
  BY <1>0, <1>1, <1>2, LivesKept DEF Stays, SameCmds, Flushing
<1>3. ASSUME NEW d \in CmdBuffs, NEW m, Appends(m), agent' = [agent EXCEPT ![d] = "deleted"],
             m.kind # "Flush", m.kind = "Destroy" => m.cmdBuff = d
      PROVE  Lives'
  <2>1. SameCmds /\ \A i \in DOMAIN U' : U'[i] = m
    BY <1>1, <1>3 DEF Appends
  <2>2. ASSUME NEW x \in CmdBuffs, x # d PROVE Living(x)'
    <3>1. Unmoved(x, 0)
      BY <1>1, <1>3, <2>1, <2>2 DEF Unmoved, Lists
    <3>2. agent'[x] = agent[x] /\ queue'[x] = queue[x]
      BY <1>1, <1>3, <2>1, <2>2 DEF SameCmds
    <3>3. QED
      BY <1>0, <1>1, <3>1, <3>2, LivingKept DEF Lives, Flushing
  <2>3. Living(d)'
    <3>1. agent'[d] = "deleted" /\ ~Flushing(d)' /\ \A i \in DOMAIN U' : ~Lists(i, d)'
      BY <1>1, <1>3, <2>1 DEF Flushing, Lists
    <3>2. queue'[d].visible = 0
      BY <1>0, <1>1, <2>1, NothingVisible DEF SameCmds
    <3>3. QED
      BY <3>1, <3>2 DEF Living
  <2>4. QED
    BY <2>2, <2>3 DEF Lives
<1>4. CASE /\ gThen.kind = "Destroy" /\ gThen \in LifeMsg /\ Appends(gThen)
           /\ agent' = [agent EXCEPT ![gThen.cmdBuff] = "deleted"]
  BY <1>3, <1>4 DEF LifeMsg
<1>5. CASE /\ Appends(Bare("Terminate")) /\ agent' = [agent EXCEPT ![primary] = "deleted"]
  <2>1. Bare("Terminate").kind = "Terminate" /\ primary \in CmdBuffs
    BY CmdBuffAssumption DEF Bare
  <2>2. QED
    BY <1>3, <1>5, <2>1
<1>6. QED
  BY <1>0, <1>2, <1>4, <1>5, WaitReturnEffects

LEMMA LivesGame ==
  ASSUME IInv, Types', GameStep
  PROVE  Lives'
<1>0. Types /\ Middle /\ Lives /\ QueueTypes
  BY DEF IInv, Types
<1>1. ASSUME FinishWriting PROVE Lives'
  <2>1. PICK c \in CmdBuffs : c = gTodo[1] /\ c = Head(gTodo) /\ Flushing(c)
    BY <1>0, <1>1, CmdEffects
  <2>2. U' = U /\ Others(c) /\ Kept(0, {}, {})
    <3>1. U' = U /\ Others(c)
      <4>1. queue' = [queue EXCEPT ![c] = Kick(Enqueue(@, <<Free(flushes[c] + 1), Finish(flushes[c] + 1)>>))]
        BY <1>1, <2>1 DEF FinishWriting, Finished
      <4>2. Free(flushes[c] + 1) \in CmdMsg /\ Finish(flushes[c] + 1) \in CmdMsg
        BY <1>0, <1>1, <2>1, CmdEffects, Subsets
      <4>3. QED
        BY <1>0, <4>1, <4>2, CmdGetsTwo
    <3>2. QED
      BY <1>0, <3>1, KeptSame
  <2>3. \A x \in CmdBuffs : agent[x] = "live" \/ queue'[x] = queue[x]
    BY <1>0, <2>1, <2>2, MainFacts DEF Lives, Living, Others
  <2>4. UNCHANGED <<agent, actor, gPc, gThen>>
    BY <1>1 DEF FinishWriting, deviceVars
  <2>5. QED
    BY <1>0, <2>2, <2>3, <2>4, LivesKept DEF Flushing
<1>2. ASSUME EnqueueFlush PROVE Lives'
  <2>1. /\ gPc = "flush" /\ gPc' = "record" /\ gThen.kind = "Flush" /\ Appends(gThen)
        /\ UNCHANGED <<agent, actor>>
    BY <1>0, <1>2, GameEffects, FlushFacts DEF EnqueueFlush, Middle, deviceVars
  <2>2. /\ SameCmds /\ Len(U) \in Nat /\ DOMAIN U = 1..Len(U) /\ DOMAIN U' = 1..(Len(U) + 1)
        /\ U'[Len(U) + 1] = gThen /\ \A i \in DOMAIN U : U'[i] = U[i]
    BY <2>1 DEF Appends
  <2>3. ASSUME NEW c \in CmdBuffs PROVE Living(c)'
    <3>1. Living(c) /\ agent'[c] = agent[c] /\ actor'[c] = actor[c] /\ queue'[c] = queue[c]
      BY <1>0, <2>1, <2>2 DEF Lives, SameCmds
    <3>2. \A i \in DOMAIN U : Lists(i, c)' <=> Lists(i, c)
      BY <2>2 DEF Lists
    <3>3. ASSUME NEW i \in DOMAIN U', Lists(i, c)' PROVE agent[c] = "live"
      <4>1. CASE i = Len(U) + 1
        BY <2>1, <2>2, <3>1, <3>3, <4>1 DEF Lists, Living, Flushing
      <4>2. CASE i # Len(U) + 1
        BY <2>2, <3>1, <3>2, <3>3, <4>2 DEF Living
      <4>3. QED
        BY <4>1, <4>2
    <3>4. \A i \in DOMAIN U' : U'[i].kind = "Destroy" /\ U'[i].cmdBuff = c => agent[c] = "deleted"
      BY <2>1, <2>2, <3>1 DEF Living
    <3>5. ASSUME agent[c] = "live", actor[c] # "ready"
          PROVE  \E i \in DOMAIN U' : /\ U'[i].kind = "Init" /\ U'[i].cmdBuff = c
                                      /\ \A j \in DOMAIN U' : Lists(j, c)' => i < j
      <4>1. PICK i \in DOMAIN U : /\ U[i].kind = "Init" /\ U[i].cmdBuff = c
                                  /\ \A j \in DOMAIN U : Lists(j, c) => i < j
        BY <3>1, <3>5 DEF Living
      <4>2. i \in DOMAIN U' /\ U'[i] = U[i] /\ i < Len(U) + 1
        BY <2>2
      <4>3. \A j \in DOMAIN U' : Lists(j, c)' => i < j
        BY <2>2, <3>2, <4>1, <4>2
      <4>4. QED
        BY <4>1, <4>2, <4>3
    <3>6. ~Flushing(c)'
      BY <2>1 DEF Flushing
    <3>7. (agent'[c] = "new" => Q(c)' = <<>>) /\ (agent'[c] = "deleted" => queue'[c].visible = 0)
      BY <3>1 DEF Living, Q
    <3>8. QED
      BY <3>1, <3>3, <3>4, <3>5, <3>6, <3>7 DEF Living
  <2>4. QED
    BY <2>3 DEF Lives
<1>3. ASSUME PresentFinish PROVE Lives'
  <2>1. Kept(0, {"Finish"}, {}) /\ SameCmds
    BY <1>0, <1>3, GameEffects DEF Appends, Finish
  <2>2. UNCHANGED <<agent, actor>> /\ gPc' # "flush"
    BY <1>3 DEF PresentFinish, deviceVars
  <2>3. QED
    BY <1>0, <2>1, <2>2, LivesKept DEF SameCmds, Flushing
<1>4. ASSUME FrameBoundary \/ Join PROVE Lives'
  <2>1. Kept(0, {}, {}) /\ SameCmds
    BY <1>0, <1>4, QueueSame DEF FrameBoundary, Join, queueVars, Stays
  <2>2. UNCHANGED <<agent, actor>> /\ gPc' # "flush"
    BY <1>4 DEF FrameBoundary, Join, queueVars, deviceVars
  <2>3. QED
    BY <1>0, <2>1, <2>2, LivesKept DEF SameCmds, Flushing
<1>5. QED
  BY <1>1, <1>2, <1>3, <1>4, LivesReturn DEF GameStep

LEMMA LivesDevice ==
  ASSUME IInv, Types', DeviceStep
  PROVE  Lives'
<1>0. Types /\ Middle /\ Lives /\ QueueTypes
  BY DEF IInv, Types
<1>1. ASSUME ExecPlain \/ ExecFreeStaging \/ ExecPresent \/ ExecWait \/ ExecTerminate \/ FlushEnd
      PROVE  Lives'
  <2>1. Takes /\ U[1].kind # "Init"
    BY <1>0, <1>1, DeviceEffects
  <2>2. UNCHANGED <<agent, actor, gPc, gThen>>
    BY <1>1 DEF ExecPlain, ExecFreeStaging, ExecPresent, ExecWait, ExecTerminate, FlushEnd,
                gameVars, deviceVars
  <2>3. QED
    BY <1>0, <2>1, <2>2, LivesKept DEF Takes, SameCmds, Flushing
<1>2. ASSUME ExecLife PROVE Lives'
  <2>0. Takes /\ U[1].kind \in {"Init", "Destroy"}
    BY <1>0, <1>2, DeviceEffects
  <2>1. PICK m : m = U[1]
    OBVIOUS
  <2>2. /\ m \in LifeMsg /\ m.cmdBuff \in CmdBuffs /\ m.kind \in {"Init", "Destroy"}
        /\ 1 \in DOMAIN U /\ Message(main) = m
    BY <2>0, <2>1, KindFacts DEF Takes, LifeMsg
  <2>3. PICK d \in CmdBuffs : d = m.cmdBuff
    BY <2>2
  <2>4. /\ actor' = [actor EXCEPT ![d] = IF m.kind = "Init" THEN "ready" ELSE "destroyed"]
        /\ UNCHANGED <<agent, gPc, gThen>> /\ actor \in [CmdBuffs -> {"new", "ready", "destroyed"}]
    BY <1>0, <1>2, <2>2, <2>3 DEF ExecLife, gameVars, Types
  <2>5. /\ SameCmds /\ \A i \in DOMAIN U' : i + 1 \in DOMAIN U /\ U'[i] = U[i + 1]
        /\ \A i \in DOMAIN U : i # 1 => i > 1 /\ i - 1 \in DOMAIN U' /\ U'[i - 1] = U[i]
    <3>1. /\ SameCmds /\ Len(U) \in Nat /\ DOMAIN U = 1..Len(U) /\ DOMAIN U' = 1..(Len(U) - 1)
          /\ \A i \in DOMAIN U' : U'[i] = U[i + 1]
      BY <2>0 DEF Takes
    <3>2. QED
      BY <3>1
  <2>6. ASSUME NEW x \in CmdBuffs, x # d PROVE Living(x)'
    <3>1. Unmoved(x, 1)
      BY <2>1, <2>3, <2>5, <2>6 DEF Unmoved
    <3>2. actor'[x] = actor[x] /\ agent'[x] = agent[x] /\ queue'[x] = queue[x]
      BY <2>4, <2>5, <2>6 DEF SameCmds
    <3>3. QED
      BY <1>0, <2>4, <3>1, <3>2, LivingKept DEF Lives, Flushing
  <2>7. Living(d)'
    <3>1. Living(d) /\ agent'[d] = agent[d] /\ queue'[d] = queue[d]
      BY <1>0, <2>4, <2>5 DEF Lives, SameCmds
    <3>2. agent'[d] = "live" => actor'[d] = "ready"
      BY <2>1, <2>2, <2>3, <2>4, <3>1 DEF Living
    <3>3. \A i \in DOMAIN U' : Lists(i, d)' => Lists(i + 1, d)
      BY <2>5 DEF Lists
    <3>4. \A i \in DOMAIN U' : Lists(i, d)' => agent'[d] = "live"
      BY <2>5, <3>1, <3>3 DEF Living
    <3>5. \A i \in DOMAIN U' : U'[i].kind = "Destroy" /\ U'[i].cmdBuff = d => agent'[d] = "deleted"
      BY <2>5, <3>1 DEF Living
    <3>6. QED
      BY <2>4, <3>1, <3>2, <3>4, <3>5 DEF Living, Flushing, Q
  <2>8. QED
    BY <2>6, <2>7 DEF Lives
<1>3. ASSUME FlushBegin PROVE Lives'
  <2>1. Stays /\ UNCHANGED <<agent, actor, gPc, gThen>>
    BY <1>0, <1>3, DeviceEffects DEF FlushBegin, queueVars, gameVars
  <2>2. QED
    BY <1>0, <2>1, LivesKept DEF Stays, SameCmds, Flushing
<1>4. ASSUME NEW i \in todo, FlushStep(i) PROVE Lives'
  <2>1. PICK c \in CmdBuffs : /\ c = U[1].cmdBuffs[i] /\ Message(main) = U[1]
                              /\ 1 \in DOMAIN U /\ Lists(1, c)
    BY <1>0, <1>4, DeviceEffects, FlushFacts DEF Lists
  <2>2. U' = U /\ Others(c) /\ Kept(0, {}, {})
    BY <1>0, <1>4, <2>1, CmdLoses, KeptSame DEF FlushStep
  <2>3. \A x \in CmdBuffs : agent[x] = "live" \/ queue'[x] = queue[x]
    BY <1>0, <2>1, <2>2, MainFacts DEF Lives, Living, Others
  <2>4. UNCHANGED <<agent, actor, gPc, gThen>>
    BY <1>4 DEF FlushStep, gameVars
  <2>5. QED
    BY <1>0, <2>2, <2>3, <2>4, LivesKept DEF Flushing
<1>5. QED
  BY <1>1, <1>2, <1>3, <1>4 DEF DeviceStep

-----------------------------------------------------------------------------
(* The invariant.                                                          *)

LEMMA InitIInv ==
  Init => IInv
<1> SUFFICES ASSUME Init PROVE IInv
  OBVIOUS
<1> USE DEF Init
<1>1. /\ \A c \in Queues : queue[c] = [unread |-> <<>>, visible |-> 0]
      /\ \A c \in Queues : Q(c) = <<>> /\ queue[c].visible = 0
  BY DEF Q
<1>2. U = <<>> /\ DOMAIN U = {} /\ \A c \in CmdBuffs : DOMAIN Q(c) = {}
  BY <1>1, MainFacts DEF U
<1>3. QueueTypes
  <2>1. <<>> \in Seq(MainMsg) /\ <<>> \in Seq(CmdMsg)
    OBVIOUS
  <2>2. [unread |-> <<>>, visible |-> 0] \in [unread : Seq(MainMsg), visible : Nat]
    BY <2>1
  <2>3. queue \in [Queues -> [unread : Seq(MainMsg), visible : Nat]]
    BY <2>2
  <2>4. \A c \in Queues : queue[c].visible <= Len(Q(c))
    <3>1. Len(<<>>) = 0 /\ 0 <= 0
      OBVIOUS
    <3>2. QED
      BY <1>1, <3>1
  <2>5. \A c \in CmdBuffs : Q(c) \in Seq(CmdMsg)
    BY <1>1, <2>1, MainFacts
  <2>6. QED
    BY <2>3, <2>4, <2>5 DEF QueueTypes
<1>4. MAX_FRAME_INDEX \in Nat \ {0} /\ 0 \in Slots /\ 0 % MAX_FRAME_INDEX = 0
  <2>1. MAX_FRAME_INDEX \in Nat \ {0}
    BY IndexType
  <2>2. QED
    BY <2>1, ModNear DEF Slots
<1>5. Types
  <2>1. 0 \in Stores /\ 0 \in 0..MaxCalls /\ MAX_CPU_FRAME_AHEAD \in Nat
    BY FrameAssumption DEF Stores
  <2>2. store \in [Buffers -> Stores \cup {Gone}]
    BY <2>1
  <2>3. staging \in [Buffers -> [Stores -> [Slots -> Nat]]]
    OBVIOUS
  <2>4. gThen \in [kind : {"record", "Terminate"}]
    BY DEF Bare
  <2>5. /\ agent \in [CmdBuffs -> {"new", "live", "deleted"}]
        /\ actor \in [CmdBuffs -> {"new", "ready", "destroyed"}]
        /\ flushes \in [CmdBuffs -> Nat]
    OBVIOUS
  <2>6. gTodo \in Seq(CmdBuffs) /\ todo \subseteq Nat
    OBVIOUS
  <2>7. gPc = "record" /\ dPc = "main" /\ event = FALSE
    OBVIOUS
  <2>8. currentIndex = 0 /\ semaphore = MAX_CPU_FRAME_AHEAD /\ frame = 0 /\ presented = 0 /\ calls = 0
    OBVIOUS
  <2> HIDE DEF Init
  <2>9. QED
    BY <1>3, <1>4, <2>1, <2>2, <2>3, <2>4, <2>5, <2>6, <2>7, <2>8 DEF Types
<1>6. Middle
  BY DEF Middle
<1>7. Frames
  BY <1>2, <1>4, FrameAssumption DEF Frames, FrameCount, PresentsWait, Ended
<1>8. Flushes
  BY <1>2 DEF Flushes, Numbers, Order, Carried, Flushing, UnderWay
<1>9. Staging
  BY <1>2 DEF Staging, Freeing, MainUpdates, CmdUpdates
<1>10. Waits
  BY <1>2 DEF Waits
<1>11. Lives
  BY <1>1, <1>2, MainFacts DEF Lives, Living, Flushing
<1>12. QED
  BY <1>5, <1>6, <1>7, <1>8, <1>9, <1>10, <1>11 DEF IInv

LEMMA StutterIInv ==
  ASSUME IInv, UNCHANGED vars
  PROVE  IInv'
<1>1. Types /\ Middle /\ Types' /\ Middle'
  BY TypeStep DEF IInv
<1>2. /\ UNCHANGED <<queue, currentIndex, semaphore, store, staging, agent, actor, flushes>>
      /\ UNCHANGED <<gPc, gTodo, gThen, event, dPc, todo, frame, presented>>
  BY DEF vars, queueVars, bufferVars, gameVars, deviceVars
<1>3. U' = U /\ \A c : Q(c)' = Q(c)
  BY <1>2 DEF U, Q
<1>4. Frames'
  BY <1>2, <1>3 DEF IInv, Frames, FrameCount, PresentsWait, Ended
<1>5. /\ \A i, c : Lists(i, c)' <=> Lists(i, c)
      /\ \A c : (Flushing(c)' <=> Flushing(c)) /\ (InTodo(c)' <=> InTodo(c))
      /\ \A c : UnderWay(c)' <=> UnderWay(c)
  BY <1>2, <1>3 DEF Lists, Flushing, InTodo, UnderWay
<1>6. Flushes'
  BY <1>2, <1>3, <1>5 DEF IInv, Flushes, Numbers, Order, Carried, FinishFor
<1>7. /\ \A m : Sound(m)' <=> Sound(m)
      /\ \A i, m : Ahead(i, m)' <=> Ahead(i, m)
      /\ \A c, m : Waiting(c, m)' <=> Waiting(c, m)
  BY <1>2, <1>3, <1>5 DEF Sound, Ahead, Waiting
<1>8. Staging'
  BY <1>2, <1>3, <1>5, <1>7 DEF IInv, Staging, Freeing, MainUpdates, CmdUpdates, CmdUpdate, Ended
<1>9. Waits'
  BY <1>2, <1>3, WaitsSame DEF IInv
<1>10. Lives'
  BY <1>2, <1>3, <1>5 DEF IInv, Lives, Living
<1>11. QED
  BY <1>1, <1>4, <1>6, <1>8, <1>9, <1>10 DEF IInv

LEMMA StepIInv ==
  IInv /\ [Next]_vars => IInv'
<1> SUFFICES ASSUME IInv, Next PROVE IInv'
  BY StutterIInv
<1>1. Types /\ Middle /\ Flushes /\ Types' /\ Middle'
  BY TypeStep DEF IInv
<1>2. Frames'
  BY FramesGame, FramesDevice DEF Next
<1>3. Flushes'
  BY <1>1, FlushesNext
<1>4. Staging'
  BY StagingNext
<1>5. Waits'
  BY WaitsGame, WaitsDevice DEF Next
<1>6. Lives'
  BY <1>1, LivesCall, LivesGame, LivesDevice DEF Next
<1>7. QED
  BY <1>1, <1>2, <1>3, <1>4, <1>5, <1>6 DEF IInv

(* What the states of a behaviour satisfy.                                 *)
THEOREM DeviceAgentInvariant ==
  Spec => []IInv
<1>1. QED
  BY InitIInv, StepIInv, PTL DEF Spec

-----------------------------------------------------------------------------
(* The properties.                                                         *)

LEMMA ApartFromInvariant ==
  IInv => FramesApart
<1> SUFFICES ASSUME IInv PROVE FramesApart
  OBVIOUS
<1>0. Types /\ Frames /\ MainUpdates /\ CmdUpdates
  BY DEF IInv, Staging
<1>1. FramesAhead
  BY <1>0, FrameTypes DEF FramesAhead, Frames, FrameCount
<1>2. ASSUME NEW c \in {main} \cup {d \in CmdBuffs : agent[d] = "live"},
             NEW i \in DOMAIN queue[c].unread, NEW m, m = queue[c].unread[i], m.kind = "Update"
      PROVE  staging[m.buffer][m.store][m.slot] = m.frame
  <2>1. CASE c = main
    BY <1>0, <1>2, <2>1 DEF MainUpdates, Sound, U
  <2>2. CASE c # main
    BY <1>0, <1>2, <2>2 DEF CmdUpdates, CmdUpdate, Sound, Q
  <2>3. QED
    BY <2>1, <2>2
<1>3. StagingStable
  BY <1>2 DEF StagingStable
<1>4. QED
  BY <1>1, <1>3 DEF FramesApart

LEMMA ExactFromInvariant ==
  IInv => FlushExact
<1> SUFFICES ASSUME IInv, dPc = "flush", NEW m, m = Message(main), NEW i \in DOMAIN m.cmdBuffs,
                    NEW c, c = m.cmdBuffs[i]
             PROVE  /\ i \in todo => HasNewMessage(c) /\ Message(c).flush = m.number[c]
                    /\ i \notin todo => \A j \in DOMAIN queue[c].unread :
                                          queue[c].unread[j].flush > m.number[c]
  BY DEF FlushExact
<1>0. Types /\ Middle /\ Flushes
  BY DEF IInv
<1>1. 1 \in DOMAIN U /\ U[1] \in FlushMsg /\ m = U[1]
  BY <1>0, FirstUnderWay
<1>2. /\ m.kind = "Flush" /\ c \in CmdBuffs /\ c \in DOMAIN m.number
      /\ \A k \in DOMAIN m.cmdBuffs : m.cmdBuffs[k] = c => k = i
      /\ todo \subseteq DOMAIN m.cmdBuffs
  BY <1>0, <1>1, FlushFacts DEF Middle
<1>3. ASSUME i \in todo PROVE HasNewMessage(c) /\ Message(c).flush = m.number[c]
  BY <1>0, <1>1, <1>2, <1>3, FlushFirst
<1>4. ASSUME i \notin todo, NEW j \in DOMAIN queue[c].unread PROVE queue[c].unread[j].flush > m.number[c]
  <2>1. UnderWay(c) /\ Lists(1, c)
    BY <1>1, <1>2, <1>4 DEF UnderWay, Lists
  <2>2. QED
    BY <1>0, <1>1, <1>2, <1>4, <2>1 DEF Flushes, Carried, Q
<1>5. QED
  BY <1>3, <1>4

LEMMA LifeFromInvariant ==
  IInv => LifeInStep
<1> SUFFICES ASSUME IInv PROVE LifeInStep
  OBVIOUS
<1>0. Types /\ Middle /\ Lives /\ Flushes /\ QueueTypes
  BY DEF IInv, Types
<1>1. TypeOK
  <2>1. ASSUME NEW c \in Queues
        PROVE  /\ queue[c].visible \in 0..Len(queue[c].unread)
               /\ \A i \in DOMAIN queue[c].unread : queue[c].unread[i].kind \in Kinds
    <3>1. Q(c) \in Seq(MainMsg) /\ queue[c].visible \in 0..Len(Q(c))
      BY <1>0, QueueFacts
    <3>2. ASSUME NEW i \in DOMAIN Q(c) PROVE Q(c)[i].kind \in Kinds
      <4>1. Q(c)[i] \in MainMsg
        BY <3>1
      <4>2. QED
        BY <4>1, KindFacts
    <3>3. QED
      BY <3>1, <3>2 DEF Q
  <2>2. gThen.kind \in Kinds \cup {"record"}
    BY <1>0, KindOfThen
  <2>3. QED
    BY <1>0, <2>1, <2>2 DEF Types, TypeOK
<1>2. ActorReady
  <2>1. ASSUME dPc = "flush", NEW i \in todo PROVE actor[Message(main).cmdBuffs[i]] = "ready"
    <3>1. 1 \in DOMAIN U /\ U[1] \in FlushMsg /\ Message(main) = U[1] /\ i \in DOMAIN U[1].cmdBuffs
      BY <1>0, <2>1, FirstUnderWay DEF Middle
    <3>2. PICK c \in CmdBuffs : c = U[1].cmdBuffs[i]
      BY <3>1, FlushFacts
    <3>3. Lists(1, c) /\ Living(c)
      BY <1>0, <2>1, <3>2, FlushFirst DEF Lives
    <3>4. \A j \in DOMAIN U : ~(j < 1)
      BY <1>0, FrameTypes
    <3>5. actor[c] = "ready"
      BY <3>1, <3>3, <3>4 DEF Living
    <3>6. QED
      BY <3>1, <3>2, <3>5
  <2>2. QED
    BY <2>1 DEF ActorReady
<1>3. QueueLive
  <2>1. \A c \in CmdBuffs : agent[c] = "deleted" => ~HasNewMessage(c)
    BY <1>0 DEF Lives, Living, HasNewMessage
  <2>2. ASSUME NEW i \in DOMAIN U, U[i].kind = "Flush", NEW j \in DOMAIN U[i].cmdBuffs
        PROVE  agent[U[i].cmdBuffs[j]] = "live"
    <3>1. U[i] \in FlushMsg
      BY <1>0, <2>2, FrameTypes, KindFacts
    <3>2. PICK c \in CmdBuffs : c = U[i].cmdBuffs[j]
      BY <2>2, <3>1, FlushFacts
    <3>3. Lists(i, c)
      BY <2>2, <3>1, <3>2, FlushFacts DEF Lists
    <3>4. QED
      BY <1>0, <3>2, <3>3 DEF Lives, Living
  <2>3. QED
    BY <2>1, <2>2 DEF QueueLive, U
<1>4. QED
  BY <1>1, <1>2, <1>3 DEF LifeInStep

(* However many frames the game thread may be ahead, it is never further,  *)
(* and no update loses its data, neither to a later frame that reuses its  *)
(* staging slot nor to a resize or destroy of its buffer.                  *)
THEOREM FramesApartCorrect ==
  Spec => []FramesApart
<1>1. QED
  BY DeviceAgentInvariant, ApartFromInvariant, PTL

(* Whatever the lists of command buffers and the number of jobs, a flush   *)
(* executes what was recorded for it, all of it and nothing else.          *)
THEOREM FlushExactCorrect ==
  Spec => []FlushExact
<1>1. QED
  BY DeviceAgentInvariant, ExactFromInvariant, PTL

(* Every variable keeps its type, commands execute between the             *)
(* initialisation and the destruction of their command buffer, and a queue *)
(* is deleted when nothing of it is left to execute.                       *)
THEOREM LifeInStepCorrect ==
  Spec => []LifeInStep
<1>1. QED
  BY DeviceAgentInvariant, LifeFromInvariant, PTL
=============================================================================
