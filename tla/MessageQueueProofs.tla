------------------------- MODULE MessageQueueProofs -------------------------
(***************************************************************************)
(* The invariant of MessageQueue, for every value of the constants: the    *)
(* counters, the chain of messages, from the two that the queue implements *)
(* FifoChannel, and the memory that the chain keeps alive.                 *)
(***************************************************************************)
EXTENDS MessageQueueInv, MessageQueueChannel, SequenceTheorems, TLAPS

-----------------------------------------------------------------------------
(* Remainders, by which the unsigned counters are modelled.               *)

(* A number is its remainder when it lies in the range of remainders.      *)
LEMMA ModUnique ==
  ASSUME NEW m \in Nat \ {0}, NEW q \in Int, NEW r \in 0..(m - 1), NEW a \in Int,
         a = m * q + r
  PROVE  a % m = r
  BY SMTT(30)

(* Every number has a quotient and a remainder.                            *)
LEMMA ModSplit ==
  ASSUME NEW m \in Nat \ {0}, NEW a \in Int
  PROVE  \E q \in Int, r \in 0..(m - 1) : a = m * q + r /\ a % m = r
<1>1. a = m * (a \div m) + (a % m) /\ (a \div m) \in Int
  BY SMTT(30)
<1>2. a % m \in 0..(m - 1)
  BY SMTT(30)
<1>3. QED
  BY <1>1, <1>2

(* Counting on a wrapped counter wraps the count.                          *)
LEMMA ModAdd ==
  ASSUME NEW m \in Nat \ {0}, NEW a \in Int, NEW b \in Int
  PROVE  ((a % m) + b) % m = (a + b) % m
<1>1. PICK q \in Int, r \in 0..(m - 1) : a = m * q + r /\ a % m = r
  BY ModSplit
<1>2. r + b \in Int
  OBVIOUS
<1>3. PICK p \in Int, t \in 0..(m - 1) : r + b = m * p + t /\ (r + b) % m = t
  BY <1>2, ModSplit
<1>4. m * (q + p) = m * q + m * p /\ m * q \in Int /\ m * p \in Int
  OBVIOUS
<1>5. PICK x \in Int, y \in Int : x = q + p /\ y = a + b
  OBVIOUS
<1>6. y % m = t
  <2>1. y = m * x + t
    BY <1>1, <1>3, <1>4, <1>5
  <2>2. m \in Nat \ {0} /\ x \in Int /\ t \in 0..(m - 1) /\ y \in Int
    BY <1>3, <1>5
  <2>3. \A k \in Int, u \in 0..(m - 1), z \in Int : z = m * k + u => z % m = u
    BY ModUnique
  <2>4. QED
    BY <2>1, <2>2, <2>3
<1>7. QED
  BY <1>1, <1>3, <1>5, <1>6

(* The wrapped difference of two counters is their distance.               *)
LEMMA ModDistance ==
  ASSUME NEW m \in Nat \ {0}, NEW a \in Int, NEW b \in Int, b <= a, a - b < m
  PROVE  ((a % m) - (b % m)) % m = a - b
<1>1. PICK q \in Int, r \in 0..(m - 1) : a = m * q + r /\ a % m = r
  BY ModSplit
<1>2. PICK p \in Int, t \in 0..(m - 1) : b = m * p + t /\ b % m = t
  BY ModSplit
<1>3. m * (p - q) = m * p - m * q /\ m * q \in Int /\ m * p \in Int
  OBVIOUS
<1>4. r - t = m * (p - q) + (a - b)
  BY <1>1, <1>2, <1>3
<1>5. r - t \in Int /\ p - q \in Int /\ a - b \in 0..(m - 1)
  OBVIOUS
<1>6. (r - t) % m = a - b
  BY <1>4, <1>5, ModUnique
<1>7. QED
  BY <1>1, <1>2, <1>6

-----------------------------------------------------------------------------
(* 1. Types and counters.                                                  *)

(* The modulus of the counters. *)
LEMMA Modulus == W \in Nat \ {0}
BY CountAssumption

(* Two more messages are always told apart from none: W > 2.               *)
LEMMA ModSmall ==
  ASSUME NEW a \in 0..(W - 1)
  PROVE  (a + 2) % W \in 0..(W - 1) /\ (((a + 2) % W) - a) % W = 2
<1>1. a \in Int /\ a + 2 \in Int /\ a <= a + 2 /\ (a + 2) - a = 2 /\ 2 < W
  BY CountAssumption
<1>2. a % W = a
  <2>1. 0 \in Int /\ a = W * 0 + a
    BY CountAssumption
  <2>2. QED
    BY <2>1, <1>1, ModUnique, Modulus
<1>3. a + 2 \in Int /\ (a + 2) % W \in 0..(W - 1)
  BY <1>1, ModSplit, Modulus
<1>4. (((a + 2) % W) - (a % W)) % W = 2
  BY <1>1, ModDistance, Modulus
<1>5. QED
  BY <1>2, <1>3, <1>4

-----------------------------------------------------------------------------
(* Types.                                                                  *)

LEMMA AddrPair ==
  ASSUME NEW c \in Chunks, NEW n \in 0..ChunkSlots
  PROVE  <<c, n>> \in Addr
  BY DEF Addr

LEMMA MessageTypes ==
  ASSUME NEW i \in Nat, NEW c \in Chunks, NEW o \in Chunks, NEW d \in SUBSET Chunks,
         NEW k \in Kinds \ {"Switch"}
  PROVE  Plain(i, k, d) \in Message /\ SwitchMessage(i, o, c) \in Message
  BY DEF Plain, SwitchMessage, Message

LEMMA DummyFits == DummySlots \in 0..(ChunkSlots - SwitchSlots) /\ 0 \in 0..ChunkSlots
  BY SlotAssumption

(* Allocated slots end before the reserve, so the link behind them is an   *)
(* address.                                                                *)
LEMMA FitsAddr ==
  ASSUME TypeOK, NEW n \in Nat, Fits(n)
  PROVE  /\ wOffset + n \in 0..(ChunkSlots - SwitchSlots)
         /\ <<wChunk, wOffset>> \in Addr /\ <<wChunk, wOffset + n>> \in Addr
         /\ \A a \in Addr : Relinked(a, n) \in [Addr -> Addr]
<1>1. wOffset + n \in 0..(ChunkSlots - SwitchSlots)
  BY SlotAssumption DEF TypeOK, Fits
<1>2. <<wChunk, wOffset>> \in Addr /\ <<wChunk, wOffset + n>> \in Addr
  BY <1>1, SlotAssumption, AddrPair DEF TypeOK
<1>3. QED
  BY <1>1, <1>2 DEF Relinked, TypeOK

(* What entering a new chunk does to the variables it changes.             *)
LEMMA EnterChunkTypes ==
  ASSUME TypeOK, NEW c \in Chunks, EnterChunk(c)
  PROVE  /\ wChunk' \in Chunks /\ wOffset' \in 0..(ChunkSlots - SwitchSlots)
         /\ wLast' \in Addr /\ link' \in [Addr -> Addr] /\ msg' \in [Addr -> Message]
         /\ sent' \in Nat /\ where' \in [1..sent' -> Addr]
<1>1. /\ <<wChunk, wOffset>> \in Addr /\ <<c, 0>> \in Addr
      /\ <<c, DummySlots>> \in Addr
  BY SlotAssumption, AddrPair DEF TypeOK
<1>2. /\ SwitchMessage(sent + 1, wChunk, c) \in Message
      /\ Plain(sent + 2, "Dummy", {}) \in Message
  BY MessageTypes DEF TypeOK, Kinds
<1>3. sent' \in Nat /\ where' \in [1..sent' -> Addr]
  BY <1>1 DEF EnterChunk, TypeOK
<1>4. link' \in [Addr -> Addr] /\ msg' \in [Addr -> Message]
  BY <1>1, <1>2 DEF EnterChunk, TypeOK
<1>5. QED
  BY <1>1, <1>3, <1>4, DummyFits DEF EnterChunk, TypeOK

LEMMA TypeInit == Init => TypeOK
<1> SUFFICES ASSUME Init PROVE TypeOK
  OBVIOUS
<1>1. <<wChunk, 0>> \in Addr /\ <<wChunk, DummySlots>> \in Addr
  BY SlotAssumption, AddrPair DEF Init
<1>2. Plain(1, "Dummy", {}) \in Message
  BY MessageTypes DEF Init, Kinds
<1>3. link \in [Addr -> Addr] /\ msg \in [Addr -> Message] /\ where \in [1..sent -> Addr]
  BY <1>1, <1>2 DEF Init
<1>4. pReq \in Requests
  BY DEF Init, Requests
<1>5. written \in 0..(W - 1) /\ rSnap \in 0..(W - 1)
  BY CountAssumption DEF Init
<1>6. QED
  BY <1>1, <1>3, <1>4, <1>5, DummyFits DEF Init, TypeOK

LEMMA TypeStep ==
  ASSUME CountInv, [Next]_vars
  PROVE  TypeOK'
<1> USE SlotAssumption, CountAssumption DEF CountInv
<1>1. ASSUME NEW r \in Requests, Call(r) PROVE TypeOK'
  <2>1. pPc' \in {"push", "alloc"} /\ pReq' \in Requests
    BY <1>1 DEF Call
  <2>2. event' \in BOOLEAN
    BY <1>1 DEF TypeOK, Call, FreshEvent
  <2>3. UNCHANGED <<writerVars, written, readerVars, memoryVars, immediate, attached, mutex, cPc,
                    historyVars>>
    BY <1>1 DEF Call
  <2>4. QED
    BY <2>1, <2>2, <2>3 DEF TypeOK, writerVars, readerVars, memoryVars, historyVars
<1>2. ASSUME SwitchChunk PROVE TypeOK'
  <2>1. PICK c \in Chunks : EnterChunk(c) /\ chunk' = [chunk EXCEPT ![c] = "used"]
    BY <1>2 DEF SwitchChunk
  <2>2. chunk' \in [Chunks -> {"free", "used", "stashed"}] /\ wPending' \in Nat
    BY <1>2, <2>1 DEF SwitchChunk, TypeOK
  <2>3. /\ wChunk' \in Chunks /\ wOffset' \in 0..(ChunkSlots - SwitchSlots)
        /\ wLast' \in Addr /\ link' \in [Addr -> Addr] /\ msg' \in [Addr -> Message]
        /\ sent' \in Nat /\ where' \in [1..sent' -> Addr]
    BY <2>1, EnterChunkTypes
  <2>4. UNCHANGED <<written, readerVars, threadVars, wData, published, read>>
    BY <1>2 DEF SwitchChunk
  <2>5. QED
    BY <2>2, <2>3, <2>4 DEF TypeOK, readerVars, threadVars
<1>3. ASSUME PlaceMessage PROVE TypeOK'
  <2> DEFINE data == IF pReq.kind = "User" THEN wData ELSE {}
             here == <<wChunk, wOffset>>
  <2>1. /\ pReq.slots \in Nat /\ Fits(pReq.slots)
        /\ pReq.kind \in Kinds \ {"Switch"} /\ data \in SUBSET Chunks
    BY <1>3 DEF PlaceMessage, TypeOK, Requests, KickKinds, Kinds, RoomLeft
  <2>2. Plain(sent + 1, pReq.kind, data) \in Message
    BY <2>1, MessageTypes DEF TypeOK
  <2>3. /\ here \in Addr /\ wOffset' \in 0..(ChunkSlots - SwitchSlots)
        /\ link' \in [Addr -> Addr]
    BY <1>3, <2>1, FitsAddr DEF PlaceMessage
  <2>4. msg' \in [Addr -> Message]
    BY <1>3, <2>2, <2>3 DEF PlaceMessage, TypeOK
  <2>5. sent' \in Nat /\ where' \in [1..sent' -> Addr]
    BY <1>3, <2>3 DEF PlaceMessage, TypeOK
  <2>6. wData' \subseteq Chunks /\ wPending' \in Nat /\ wLast' = here
    BY <1>3 DEF PlaceMessage, TypeOK
  <2>7. /\ pPc' \in {"idle", "push"}
        /\ UNCHANGED <<wChunk, written, readerVars, chunk, immediate, attached, mutex,
                       event, pReq, cPc, published, read>>
    BY <1>3 DEF PlaceMessage
  <2>8. QED
    BY <2>3, <2>4, <2>5, <2>6, <2>7 DEF TypeOK, readerVars
<1>4. ASSUME PlaceData PROVE TypeOK'
  <2>1. pReq.slots \in Nat /\ Fits(pReq.slots)
    BY <1>4 DEF PlaceData, TypeOK, Requests
  <2>2. wOffset' \in 0..(ChunkSlots - SwitchSlots) /\ link' \in [Addr -> Addr]
    BY <1>4, <2>1, FitsAddr DEF PlaceData, TypeOK
  <2>3. QED
    BY <1>4, <2>2 DEF TypeOK, PlaceData, readerVars
<1>5. ASSUME Push PROVE TypeOK'
  BY <1>5 DEF TypeOK, Push, Plus, writerVars, readerVars, memoryVars, threadVars, historyVars
<1>6. ASSUME Notify PROVE TypeOK'
  BY <1>6 DEF TypeOK, Notify, writerVars, readerVars, memoryVars, threadVars, historyVars
<1>7. ASSUME WaitReturn PROVE TypeOK'
  BY <1>7 DEF TypeOK, WaitReturn, writerVars, readerVars, memoryVars, threadVars, historyVars
<1>8. ASSUME Join PROVE TypeOK'
  BY <1>8 DEF TypeOK, Join, writerVars, readerVars, memoryVars, threadVars, historyVars
<1>9. ASSUME SetImmediateMode PROVE TypeOK'
  BY <1>9 DEF TypeOK, SetImmediateMode, writerVars, readerVars, memoryVars, threadVars, historyVars
<1>10. ASSUME RunConsumerThread PROVE TypeOK'
  BY <1>10 DEF TypeOK, RunConsumerThread, writerVars, readerVars, memoryVars, threadVars, historyVars
<1>11. ASSUME NEW n \in DataSlots, ImmediateSwitchChunk(n) PROVE TypeOK'
  <2>1. PICK c \in Chunks :
          /\ EnterChunk(c)
          /\ chunk' = Recycled([chunk EXCEPT ![c] = "used"], wChunk)
          /\ rChunk' = c /\ rLast' = <<c, 0>>
    BY <1>11 DEF ImmediateSwitchChunk
  <2>2. rLast' \in Addr /\ chunk' \in [Chunks -> {"free", "used", "stashed"}]
    BY <2>1, AddrPair DEF Recycled, TypeOK
  <2>3. wPending = 0 /\ rNew = 0 /\ written = rSnap
    BY <1>11 DEF ImmediateSwitchChunk, TypeOK, Counted
  <2>4. written' = (written + 2) % W /\ rNew' = ((((written + 2) % W) - rSnap) % W) - 2
    BY <1>11, <2>3 DEF ImmediateSwitchChunk, Plus, Minus, TypeOK
  <2>5. written' \in 0..(W - 1) /\ rNew' = 0
    BY <2>3, <2>4, ModSmall DEF TypeOK
  <2>6. /\ wChunk' \in Chunks /\ wOffset' \in 0..(ChunkSlots - SwitchSlots)
        /\ wLast' \in Addr /\ link' \in [Addr -> Addr] /\ msg' \in [Addr -> Message]
        /\ sent' \in Nat /\ where' \in [1..sent' -> Addr]
    BY <2>1, EnterChunkTypes
  <2>7. /\ wPending' = 0 /\ published' = sent + 2 /\ read' = read + 2
        /\ rSnap' = written' /\ UNCHANGED <<rTerminate, rFlushed, threadVars, wData>>
    BY <1>11 DEF ImmediateSwitchChunk
  <2>8. rChunk' \in Chunks
    BY <2>1
  <2>9. QED
    BY <2>2, <2>5, <2>6, <2>7, <2>8 DEF TypeOK, threadVars
<1>12. ASSUME NEW n \in DataSlots, ImmediateData(n) PROVE TypeOK'
  BY <1>12 DEF TypeOK, ImmediateData, Relinked, Fits, Addr, writerVars, readerVars, memoryVars, threadVars, historyVars
<1>13. ASSUME ImmediateMessage PROVE TypeOK'
  BY <1>13 DEF TypeOK, ImmediateMessage, writerVars, readerVars, memoryVars, threadVars, historyVars
<1>14. ASSUME ImmediateFree PROVE TypeOK'
  BY <1>14 DEF TypeOK, ImmediateFree, Freed, writerVars, readerVars, memoryVars, threadVars, historyVars
<1>15. ASSUME Destroy PROVE TypeOK'
  BY <1>15 DEF TypeOK, Destroy, Recycled, writerVars, readerVars, memoryVars, threadVars, historyVars
<1>16. ASSUME Lock PROVE TypeOK'
  BY <1>16 DEF TypeOK, Lock, writerVars, readerVars, memoryVars, threadVars, historyVars, producerSide
<1>17. ASSUME PullLocked PROVE TypeOK'
  BY <1>17 DEF TypeOK, PullLocked, Pull, Minus, HasNewMessage, writerVars, readerVars, memoryVars, threadVars, historyVars, producerSide
<1>18. ASSUME Sleep PROVE TypeOK'
  BY <1>18 DEF TypeOK, Sleep, writerVars, readerVars, memoryVars, threadVars, historyVars, producerSide
<1>19. ASSUME SpuriousWakeup PROVE TypeOK'
  BY <1>19 DEF TypeOK, SpuriousWakeup, writerVars, readerVars, memoryVars, threadVars, historyVars, producerSide
<1>20. ASSUME PullAwake PROVE TypeOK'
  <2>1. rNew' \in Nat /\ rSnap' \in 0..(W - 1)
    BY <1>20 DEF TypeOK, PullAwake, Pull, Minus
  <2>2. cPc' = "check"
        /\ UNCHANGED <<producerSide, rChunk, rLast, rTerminate, rFlushed, memoryVars,
                       immediate, attached, mutex, event, read>>
    BY <1>20 DEF PullAwake
  <2>3. QED
    BY <2>1, <2>2 DEF TypeOK, writerVars, memoryVars, producerSide
<1>21. ASSUME Read PROVE TypeOK'
  BY <1>21 DEF TypeOK, Read, HasNewMessage, writerVars, readerVars, memoryVars, threadVars, historyVars, producerSide
<1>22. ASSUME ExecPlain PROVE TypeOK'
  BY <1>22 DEF TypeOK, ExecPlain, writerVars, readerVars, memoryVars, threadVars, historyVars, producerSide
<1>23. ASSUME ExecSwitch PROVE TypeOK'
  <2>1. rNew' \in Nat /\ rSnap' \in 0..(W - 1)
    BY <1>23 DEF TypeOK, ExecSwitch, Pull, Minus
  <2>2. msg[rLast].new \in Chunks /\ msg[rLast].old \in Chunks
    <3>1. msg[rLast] \in Message /\ msg[rLast].kind = "Switch"
      BY <1>23 DEF TypeOK, ExecSwitch
    <3>2. QED
      BY <3>1 DEF Message
  <2>3. rChunk' \in Chunks /\ chunk' \in [Chunks -> {"free", "used", "stashed"}]
    BY <1>23, <2>2 DEF TypeOK, ExecSwitch, Recycled
  <2>4. cPc' = "check"
        /\ UNCHANGED <<producerSide, rLast, rTerminate, rFlushed, link, msg,
                       immediate, attached, mutex, event, read>>
    BY <1>23 DEF ExecSwitch
  <2>5. QED
    BY <2>1, <2>3, <2>4 DEF TypeOK, writerVars, producerSide
<1>24. ASSUME ExecFree PROVE TypeOK'
  BY <1>24 DEF TypeOK, ExecFree, Freed, writerVars, readerVars, memoryVars, threadVars, historyVars, producerSide
<1>25. ASSUME ExecWait PROVE TypeOK'
  BY <1>25 DEF TypeOK, ExecWait, writerVars, readerVars, memoryVars, threadVars, historyVars, producerSide
<1>26. ASSUME ExecFinish PROVE TypeOK'
  BY <1>26 DEF TypeOK, ExecFinish, writerVars, readerVars, memoryVars, threadVars, historyVars, producerSide
<1>27. ASSUME ExecTerminate PROVE TypeOK'
  BY <1>27 DEF TypeOK, ExecTerminate, writerVars, readerVars, memoryVars, threadVars, historyVars, producerSide
<1>28. ASSUME FlushEnd PROVE TypeOK'
  BY <1>28 DEF TypeOK, FlushEnd, writerVars, readerVars, memoryVars, threadVars, historyVars, producerSide
<1>29. CASE UNCHANGED vars
  BY <1>29 DEF TypeOK, vars, writerVars, readerVars, memoryVars, threadVars, historyVars
<1>30. ASSUME NEW n \in DataSlots, ImmediateSwitchFails(n) PROVE TypeOK'
  BY <1>30 DEF TypeOK, ImmediateSwitchFails, writerVars, readerVars, memoryVars, historyVars
<1>31. QED
  BY <1>30, <1>1, <1>2, <1>3, <1>4, <1>5, <1>6, <1>7, <1>8, <1>9, <1>10, <1>11, <1>12, <1>13, <1>14, <1>15, <1>16, <1>17, <1>18, <1>19, <1>20, <1>21, <1>22, <1>23, <1>24, <1>25, <1>26, <1>27, <1>28, <1>29
     DEF Next, ProducerCall, ProducerStep, ConsumerStep


-----------------------------------------------------------------------------
(* Counters.                                                               *)

countVars == <<sent, published, read, wPending, written, rSnap, rNew>>

(* The reader's distance to the writer, whatever the counters wrapped to.  *)
LEMMA Distance ==
  ASSUME TypeOK, Counted
  PROVE  Minus(written, rSnap) = published - (read + rNew)
<1>1. /\ published \in Int /\ read + rNew \in Int /\ read + rNew <= published
      /\ published - (read + rNew) < W
  BY CountAssumption DEF TypeOK, Counted
<1>2. ((published % W) - ((read + rNew) % W)) % W = published - (read + rNew)
  BY <1>1, ModDistance, Modulus
<1>3. QED
  BY <1>2 DEF Counted, Minus

(* pullMessages catches up with everything published.                      *)
LEMMA PullCounts ==
  ASSUME TypeOK, Counted, Pull, UNCHANGED <<sent, published, read, wPending, written>>
  PROVE  Counted' /\ rNew' = published - read
<1>1. rNew' = rNew + (published - (read + rNew)) /\ rSnap' = written
  BY Distance DEF Pull
<1>2. rNew' = published - read
  BY <1>1 DEF TypeOK
<1>3. read + rNew' = published
  BY <1>2 DEF TypeOK
<1>4. QED
  BY <1>1, <1>2, <1>3 DEF Counted, TypeOK

LEMMA PushCounts ==
  ASSUME TypeOK, Counted, Push
  PROVE  Counted'
<1>1. ((published % W) + wPending) % W = sent % W
  <2>1. published \in Int /\ wPending \in Int /\ published + wPending = sent
    BY DEF TypeOK, Counted
  <2>2. QED
    BY <2>1, ModAdd, Modulus
<1>2. written' = published' % W
  BY <1>1 DEF Push, Plus, Counted
<1>3. QED
  BY <1>2 DEF Push, Counted, TypeOK, readerVars

(* A reserved message's worth of room.                                     *)
LEMMA AllocRoom ==
  ASSUME CountInv, pPc = "alloc"
  PROVE  /\ Fits(pReq.slots) => sent + 1 - read < W
         /\ ~Fits(pReq.slots) => sent + 3 - read < W
         /\ pReq.slots \in Nat
         /\ DummySlots + pReq.slots + SwitchSlots <= ChunkSlots
<1>1. pReq.slots \in MessageSlots \cup DataSlots
  BY DEF CountInv, RoomLeft
<1>2. pReq.slots \in Nat /\ DummySlots + pReq.slots + SwitchSlots <= ChunkSlots
  <2>1. PICK n \in MessageSlots \cup DataSlots : pReq.slots = n
    BY <1>1
  <2>2. n \in Nat /\ n + SwitchSlots + DummySlots <= ChunkSlots
    BY SlotAssumption
  <2>3. QED
    BY <2>1, <2>2, SlotAssumption
<1>3. QED
  BY <1>2, CountAssumption DEF CountInv, RoomLeft, TypeOK

LEMMA CountedStep ==
  ASSUME CountInv, [Next]_vars
  PROVE  Counted'
<1> USE DEF CountInv
<1>1. CASE UNCHANGED countVars
  BY <1>1 DEF Counted, countVars
<1>2. ASSUME SwitchChunk PROVE Counted'
  <2>1. sent' = sent + 2 /\ wPending' = wPending + 2 /\ sent + 3 - read < W
    BY <1>2, AllocRoom DEF SwitchChunk, EnterChunk
  <2>2. UNCHANGED <<published, read, written, rSnap, rNew>>
    BY <1>2 DEF SwitchChunk, readerVars
  <2>3. QED
    BY <2>1, <2>2, CountAssumption DEF Counted, TypeOK
<1>3. ASSUME PlaceMessage PROVE Counted'
  <2>1. sent' = sent + 1 /\ wPending' = wPending + 1 /\ sent + 1 - read < W
    BY <1>3, AllocRoom DEF PlaceMessage
  <2>2. UNCHANGED <<published, read, written, rSnap, rNew>>
    BY <1>3 DEF PlaceMessage, readerVars
  <2>3. QED
    BY <2>1, <2>2, CountAssumption DEF Counted, TypeOK
<1>4. ASSUME Push PROVE Counted'
  BY <1>4, PushCounts
<1>5. ASSUME NEW n \in DataSlots, ImmediateSwitchChunk(n) PROVE Counted'
  <2>1. wPending = 0 /\ rNew = 0 /\ written = rSnap /\ read = sent /\ published = sent
    BY <1>5 DEF ImmediateSwitchChunk, TypeOK, Counted
  <2>2. /\ written' = (written + 2) % W /\ rSnap' = written'
        /\ rNew' = 0 + ((((written + 2) % W) - written) % W) - 2
        /\ sent' = sent + 2 /\ published' = sent + 2 /\ read' = read + 2 /\ wPending' = 0
    <3>1. wPending + 2 = 2
      BY <2>1
    <3>2. QED
      BY <1>5, <2>1, <3>1 DEF ImmediateSwitchChunk, EnterChunk, Plus, Minus
  <2>3. rNew' = 0
    BY <2>2, ModSmall DEF TypeOK
  <2>4. written' = (sent + 2) % W
    <3>1. ((sent % W) + 2) % W = (sent + 2) % W
      <4>1. sent \in Int /\ 2 \in Int
        BY DEF TypeOK
      <4>2. QED
        BY <4>1, ModAdd, Modulus
    <3>2. QED
      BY <2>1, <2>2, <3>1 DEF Counted
  <2>5. QED
    BY <2>1, <2>2, <2>3, <2>4, CountAssumption DEF Counted, TypeOK
<1>6. ASSUME PullLocked PROVE Counted'
  BY <1>6, PullCounts DEF PullLocked, producerSide, writerVars
<1>7. ASSUME PullAwake PROVE Counted'
  BY <1>7, PullCounts DEF PullAwake, producerSide, writerVars
<1>8. ASSUME ExecSwitch PROVE Counted'
  BY <1>8, PullCounts DEF ExecSwitch, producerSide, writerVars
<1>9. ASSUME Read PROVE Counted'
  <2>1. read' = read + 1 /\ rNew' = rNew - 1 /\ rNew > 0
    BY <1>9 DEF Read, HasNewMessage
  <2>2. UNCHANGED <<sent, published, wPending, written, rSnap>>
    BY <1>9 DEF Read, producerSide, writerVars
  <2>3. read' + rNew' = read + rNew
    BY <2>1 DEF TypeOK
  <2>4. QED
    BY <2>1, <2>2, <2>3, CountAssumption DEF Counted, TypeOK
<1>10. ASSUME NEW r \in Requests, Call(r) PROVE UNCHANGED countVars
  BY <1>10 DEF Call, countVars, writerVars, readerVars, historyVars
<1>11. ASSUME NEW n \in DataSlots, ImmediateData(n) PROVE UNCHANGED countVars
  BY <1>11 DEF ImmediateData, countVars, readerVars
<1>12. ASSUME Notify PROVE UNCHANGED countVars
  BY <1>12 DEF Notify, countVars, writerVars, readerVars, historyVars
<1>13. ASSUME WaitReturn PROVE UNCHANGED countVars
  BY <1>13 DEF WaitReturn, countVars, writerVars, readerVars, historyVars
<1>14. ASSUME Join PROVE UNCHANGED countVars
  BY <1>14 DEF Join, countVars, writerVars, readerVars, historyVars
<1>15. ASSUME SetImmediateMode PROVE UNCHANGED countVars
  BY <1>15 DEF SetImmediateMode, countVars, writerVars, readerVars, historyVars
<1>16. ASSUME RunConsumerThread PROVE UNCHANGED countVars
  BY <1>16 DEF RunConsumerThread, countVars, writerVars, historyVars
<1>17. ASSUME ImmediateMessage PROVE UNCHANGED countVars
  BY <1>17 DEF ImmediateMessage, countVars, writerVars, readerVars
<1>18. ASSUME ImmediateFree PROVE UNCHANGED countVars
  BY <1>18 DEF ImmediateFree, countVars, writerVars, readerVars, historyVars
<1>19. ASSUME Destroy PROVE UNCHANGED countVars
  BY <1>19 DEF Destroy, countVars, writerVars, readerVars, historyVars
<1>20. ASSUME Lock PROVE UNCHANGED countVars
  BY <1>20 DEF Lock, countVars, producerSide, writerVars, readerVars
<1>21. ASSUME Sleep PROVE UNCHANGED countVars
  BY <1>21 DEF Sleep, countVars, producerSide, writerVars, readerVars
<1>22. ASSUME SpuriousWakeup PROVE UNCHANGED countVars
  BY <1>22 DEF SpuriousWakeup, countVars, producerSide, writerVars, readerVars
<1>23. ASSUME ExecPlain PROVE UNCHANGED countVars
  BY <1>23 DEF ExecPlain, countVars, producerSide, writerVars, readerVars
<1>24. ASSUME ExecFree PROVE UNCHANGED countVars
  BY <1>24 DEF ExecFree, countVars, producerSide, writerVars, readerVars
<1>25. ASSUME ExecWait PROVE UNCHANGED countVars
  BY <1>25 DEF ExecWait, countVars, producerSide, writerVars, readerVars
<1>26. ASSUME ExecFinish PROVE UNCHANGED countVars
  BY <1>26 DEF ExecFinish, countVars, writerVars, producerSide
<1>27. ASSUME ExecTerminate PROVE UNCHANGED countVars
  BY <1>27 DEF ExecTerminate, countVars, writerVars, producerSide
<1>28. ASSUME FlushEnd PROVE UNCHANGED countVars
  BY <1>28 DEF FlushEnd, countVars, writerVars, producerSide
<1>29. ASSUME PlaceData PROVE UNCHANGED countVars
  BY <1>29 DEF PlaceData, countVars, readerVars
<1>30. ASSUME UNCHANGED vars PROVE UNCHANGED countVars
  BY <1>30 DEF vars, countVars, writerVars, readerVars, historyVars
<1>31. ASSUME NEW n \in DataSlots, ImmediateSwitchFails(n) PROVE UNCHANGED countVars
  BY <1>31 DEF ImmediateSwitchFails, countVars, writerVars, readerVars, historyVars
<1>32. QED
  BY <1>31, <1>1, <1>2, <1>3, <1>4, <1>5, <1>6, <1>7, <1>8, <1>9, <1>10, <1>11, <1>12, <1>13, <1>14, <1>15, <1>16, <1>17, <1>18, <1>19, <1>20, <1>21, <1>22, <1>23, <1>24, <1>25, <1>26, <1>27, <1>28, <1>29, <1>30
     DEF Next, ProducerCall, ProducerStep, ConsumerStep


-----------------------------------------------------------------------------
(* Room and modes.                                                         *)

LEMMA RoomStep ==
  ASSUME CountInv, [Next]_vars
  PROVE  RoomLeft'
<1> USE DEF CountInv
<1>1. CASE pPc' # "alloc"
  BY <1>1 DEF RoomLeft
<1>2. ASSUME UNCHANGED <<pPc, pReq, wOffset, sent>>, read' \in Nat, read' >= read
      PROVE  RoomLeft'
  <2>1. SUFFICES ASSUME pPc = "alloc" PROVE RoomLeft'
    BY <1>2 DEF RoomLeft
  <2>2. \A d \in Nat : sent + d - read < W => sent' + d - read' < W
    <3>1. \A s, r, q, d \in Nat : q >= r /\ s + d - r < W => s + d - q < W
      BY CountAssumption
    <3>2. sent \in Nat /\ read \in Nat
      BY DEF TypeOK
    <3>3. QED
      BY <1>2, <3>1, <3>2
  <2>3. Fits(pReq.slots)' = Fits(pReq.slots)
    BY <1>2 DEF Fits
  <2>4. QED
    BY <1>2, <2>1, <2>2, <2>3 DEF RoomLeft
<1>3. ASSUME NEW r \in Requests, Call(r) PROVE RoomLeft'
  <2>1. /\ pReq' = r /\ sent + 3 - read < W
        /\ UNCHANGED <<wOffset, sent, read>>
        /\ pPc' = IF r.kind = "Kick" THEN "push" ELSE "alloc"
    BY <1>3 DEF Call, Bound, writerVars, historyVars
  <2>2. r.kind # "Kick" => r.slots \in MessageSlots \cup DataSlots
    BY DEF Requests, KickKinds
  <2>3. QED
    BY <2>1, <2>2 DEF RoomLeft
<1>4. ASSUME SwitchChunk PROVE RoomLeft'
  <2>1. /\ sent + 3 - read < W
        /\ pReq.slots \in Nat /\ DummySlots + pReq.slots + SwitchSlots <= ChunkSlots
    BY <1>4, AllocRoom DEF SwitchChunk
  <2>2. /\ sent' = sent + 2 /\ wOffset' = DummySlots
        /\ UNCHANGED <<pPc, pReq, read>>
    BY <1>4 DEF SwitchChunk, EnterChunk, threadVars
  <2>3. sent' + 1 - read' < W /\ Fits(pReq.slots)'
    BY <2>1, <2>2 DEF Fits, TypeOK
  <2>4. QED
    BY <1>4, <2>2, <2>3 DEF RoomLeft, SwitchChunk
<1>5. ASSUME PlaceMessage PROVE pPc' # "alloc"
  BY <1>5 DEF PlaceMessage
<1>6. ASSUME PlaceData PROVE pPc' # "alloc"
  BY <1>6 DEF PlaceData
<1>7. ASSUME Push PROVE pPc' # "alloc"
  BY <1>7 DEF Push
<1>8. ASSUME Notify PROVE pPc' # "alloc"
  BY <1>8 DEF Notify
<1>9. ASSUME WaitReturn PROVE pPc' # "alloc"
  BY <1>9 DEF WaitReturn
<1>10. ASSUME Join PROVE pPc' # "alloc"
  BY <1>10 DEF Join
<1>11. ASSUME SetImmediateMode PROVE pPc' # "alloc"
  BY <1>11 DEF SetImmediateMode
<1>12. ASSUME RunConsumerThread PROVE pPc' # "alloc"
  BY <1>12 DEF RunConsumerThread
<1>13. ASSUME NEW n \in DataSlots, ImmediateSwitchChunk(n) PROVE pPc' # "alloc"
  BY <1>13 DEF ImmediateSwitchChunk, threadVars
<1>14. ASSUME NEW n \in DataSlots, ImmediateData(n) PROVE pPc' # "alloc"
  BY <1>14 DEF ImmediateData, threadVars
<1>15. ASSUME ImmediateMessage PROVE pPc' # "alloc"
  BY <1>15 DEF ImmediateMessage, threadVars
<1>16. ASSUME ImmediateFree PROVE pPc' # "alloc"
  BY <1>16 DEF ImmediateFree, threadVars
<1>17. ASSUME Destroy PROVE pPc' # "alloc"
  BY <1>17 DEF Destroy
<1>18. ASSUME ConsumerStep \/ SpuriousWakeup
      PROVE  UNCHANGED <<pPc, pReq, wOffset, sent>> /\ read' \in Nat /\ read' >= read
  BY <1>18 DEF ConsumerStep, SpuriousWakeup, Lock, PullLocked, Sleep, PullAwake, Read,
     ExecPlain, ExecSwitch, ExecFree, ExecWait, ExecFinish, ExecTerminate, FlushEnd,
     producerSide, writerVars, TypeOK
<1>19. ASSUME UNCHANGED vars
      PROVE  UNCHANGED <<pPc, pReq, wOffset, sent>> /\ read' \in Nat /\ read' >= read
  BY <1>19 DEF vars, writerVars, threadVars, historyVars, TypeOK
<1>20. ASSUME NEW n \in DataSlots, ImmediateSwitchFails(n) PROVE pPc' # "alloc"
  BY <1>20 DEF ImmediateSwitchFails
<1>21. QED
  BY <1>20, <1>1, <1>2, <1>3, <1>4, <1>5, <1>6, <1>7, <1>8, <1>9, <1>10, <1>11, <1>12, <1>13, <1>14, <1>15, <1>16, <1>17, <1>18, <1>19
     DEF Next, ProducerCall, ProducerStep

LEMMA ModesStep ==
  ASSUME CountInv, [Next]_vars
  PROVE  ModesExclusive'
<1> USE DEF CountInv
<1>1. ASSUME NEW r \in Requests, Call(r) PROVE ModesExclusive'
  BY <1>1 DEF ModesExclusive, Call, TypeOK, historyVars
<1>2. ASSUME SwitchChunk PROVE ModesExclusive'
  BY <1>2 DEF ModesExclusive, SwitchChunk, TypeOK, threadVars, EnterChunk
<1>3. ASSUME PlaceMessage PROVE ModesExclusive'
  BY <1>3 DEF ModesExclusive, PlaceMessage, TypeOK
<1>4. ASSUME PlaceData PROVE ModesExclusive'
  BY <1>4 DEF ModesExclusive, PlaceData, TypeOK
<1>5. ASSUME Push PROVE ModesExclusive'
  BY <1>5 DEF ModesExclusive, Push, TypeOK
<1>6. ASSUME Notify PROVE ModesExclusive'
  BY <1>6 DEF ModesExclusive, Notify, TypeOK, historyVars
<1>7. ASSUME WaitReturn PROVE ModesExclusive'
  BY <1>7 DEF ModesExclusive, WaitReturn, TypeOK, historyVars
<1>8. ASSUME Join PROVE ModesExclusive'
  BY <1>8 DEF ModesExclusive, Join, TypeOK, historyVars
<1>9. ASSUME SetImmediateMode PROVE ModesExclusive'
  BY <1>9 DEF ModesExclusive, SetImmediateMode, TypeOK, historyVars
<1>10. ASSUME RunConsumerThread PROVE ModesExclusive'
  BY <1>10 DEF ModesExclusive, RunConsumerThread, TypeOK, historyVars
<1>11. ASSUME NEW n \in DataSlots, ImmediateSwitchChunk(n) PROVE ModesExclusive'
  BY <1>11 DEF ModesExclusive, ImmediateSwitchChunk, TypeOK, threadVars, EnterChunk
<1>12. ASSUME NEW n \in DataSlots, ImmediateData(n) PROVE ModesExclusive'
  BY <1>12 DEF ModesExclusive, ImmediateData, TypeOK, threadVars
<1>13. ASSUME ImmediateMessage PROVE ModesExclusive'
  BY <1>13 DEF ModesExclusive, ImmediateMessage, TypeOK, threadVars
<1>14. ASSUME ImmediateFree PROVE ModesExclusive'
  BY <1>14 DEF ModesExclusive, ImmediateFree, TypeOK, threadVars, historyVars
<1>15. ASSUME Destroy PROVE ModesExclusive'
  BY <1>15 DEF ModesExclusive, Destroy, TypeOK, historyVars
<1>16. ASSUME Lock PROVE ModesExclusive'
  BY <1>16 DEF ModesExclusive, Lock, TypeOK, producerSide
<1>17. ASSUME PullLocked PROVE ModesExclusive'
  BY <1>17 DEF ModesExclusive, PullLocked, TypeOK, producerSide
<1>18. ASSUME Sleep PROVE ModesExclusive'
  BY <1>18 DEF ModesExclusive, Sleep, TypeOK, producerSide
<1>19. ASSUME SpuriousWakeup PROVE ModesExclusive'
  BY <1>19 DEF ModesExclusive, SpuriousWakeup, TypeOK, producerSide
<1>20. ASSUME PullAwake PROVE ModesExclusive'
  BY <1>20 DEF ModesExclusive, PullAwake, TypeOK, producerSide
<1>21. ASSUME Read PROVE ModesExclusive'
  BY <1>21 DEF ModesExclusive, Read, TypeOK, producerSide
<1>22. ASSUME ExecPlain PROVE ModesExclusive'
  BY <1>22 DEF ModesExclusive, ExecPlain, TypeOK, producerSide
<1>23. ASSUME ExecSwitch PROVE ModesExclusive'
  BY <1>23 DEF ModesExclusive, ExecSwitch, TypeOK, producerSide
<1>24. ASSUME ExecFree PROVE ModesExclusive'
  BY <1>24 DEF ModesExclusive, ExecFree, TypeOK, producerSide
<1>25. ASSUME ExecWait PROVE ModesExclusive'
  BY <1>25 DEF ModesExclusive, ExecWait, TypeOK, producerSide
<1>26. ASSUME ExecFinish PROVE ModesExclusive'
  BY <1>26 DEF ModesExclusive, ExecFinish, TypeOK, producerSide
<1>27. ASSUME ExecTerminate PROVE ModesExclusive'
  BY <1>27 DEF ModesExclusive, ExecTerminate, TypeOK, producerSide
<1>28. ASSUME FlushEnd PROVE ModesExclusive'
  BY <1>28 DEF ModesExclusive, FlushEnd, TypeOK, producerSide
<1>29. CASE UNCHANGED vars
  BY <1>29 DEF ModesExclusive, vars, threadVars, historyVars
<1>30. ASSUME NEW n \in DataSlots, ImmediateSwitchFails(n) PROVE ModesExclusive'
  BY <1>30 DEF ModesExclusive, ImmediateSwitchFails
<1>31. QED
  BY <1>30, <1>1, <1>2, <1>3, <1>4, <1>5, <1>6, <1>7, <1>8, <1>9, <1>10, <1>11, <1>12, <1>13, <1>14, <1>15, <1>16, <1>17, <1>18, <1>19, <1>20, <1>21, <1>22, <1>23, <1>24, <1>25, <1>26, <1>27, <1>28, <1>29
     DEF Next, ProducerCall, ProducerStep, ConsumerStep

LEMMA CountInvInit == Init => CountInv
<1> SUFFICES ASSUME Init PROVE CountInv
  OBVIOUS
<1>1. 1 % W = 1
  BY CountAssumption, ModUnique, Modulus
<1>2. Counted
  BY <1>1, CountAssumption DEF Init, Counted
<1>3. RoomLeft /\ ModesExclusive
  BY DEF Init, RoomLeft, ModesExclusive
<1>4. QED
  BY <1>2, <1>3, TypeInit DEF CountInv

LEMMA CountInvStep == CountInv /\ [Next]_vars => CountInv'
  BY TypeStep, CountedStep, RoomStep, ModesStep DEF CountInv

(* The first part of the invariant: types, counters and modes.             *)
THEOREM CountCorrect == Spec => []CountInv
  BY CountInvInit, CountInvStep, PTL DEF Spec

(* Every variable keeps its type, and the writer's chunk the reserve for   *)
(* the switch message.                                                     *)
THEOREM TypeCorrect == Spec => []TypeOK
<1>1. CountInv => TypeOK
  BY DEF CountInv
<1>2. QED
  BY <1>1, CountCorrect, PTL

(* The counters that pushMessages and pullMessages keep account for every  *)
(* published message, however often they have wrapped.                     *)
THEOREM CountersCorrect == Spec => []CountersAgree
<1>1. CountInv => CountersAgree
  BY Distance DEF CountInv, CountersAgree, TypeOK, Counted
<1>2. QED
  BY <1>1, CountCorrect, PTL

-----------------------------------------------------------------------------
(* 2. The chain of messages in memory: nothing is lost, reordered or       *)
(* overwritten between the reader's last message and the writer's, and the *)
(* chunks it runs through are the queue's.                                 *)

chainVars == <<wChunk, wOffset, wLast, rLast, link, msg, chunk, where, sent, read>>

(* A step that leaves the memory and the chain alone may only finish the   *)
(* execution of a message.                                                 *)
LEMMA ChainStutter ==
  ASSUME ChainInv, UNCHANGED chainVars,
         cPc' = "exec" => cPc = "exec", pPc = "gone" => pPc' = "gone"
  PROVE  ChainInv'
<1> USE DEF chainVars
<1>1. \A i : Live(i)' => Live(i)
  BY DEF Live
<1>2. Chain'
  BY DEF ChainInv, Chain
<1>3. Disjoint'
  BY DEF ChainInv, Disjoint
<1>4. Owned'
  BY <1>1 DEF ChainInv, Owned
<1>5. SwitchesLeave'
  BY <1>1 DEF ChainInv, SwitchesLeave, IsSwitch
<1>6. QED
  BY <1>2, <1>3, <1>4, <1>5 DEF ChainInv

(* The slot the writer points at, and any free chunk, hold no message of   *)
(* the chain.                                                              *)
LEMMA Fresh ==
  ASSUME CountInv, ChainInv
  PROVE  \A i \in read..sent :
           /\ i \in 1..sent /\ where[i] \in Addr
           /\ where[i] # <<wChunk, wOffset>>
           /\ \A c \in Chunks : chunk[c] = "free" => ChunkOf(where[i]) # c /\ where[i] # <<c, 0>>
<1> SUFFICES ASSUME NEW i \in read..sent
             PROVE  /\ i \in 1..sent /\ where[i] \in Addr
                    /\ where[i] # <<wChunk, wOffset>>
                    /\ \A c \in Chunks : chunk[c] = "free" =>
                         ChunkOf(where[i]) # c /\ where[i] # <<c, 0>>
  OBVIOUS
<1>1. i \in 1..sent /\ where[i] \in Addr
  BY DEF CountInv, TypeOK, Counted
<1>2. where[i] # <<wChunk, wOffset>>
  <2>1. ChunkOf(where[i]) = wChunk => where[i][2] < wOffset
    BY DEF ChainInv, Disjoint
  <2>2. wOffset \in Int
    BY DEF CountInv, TypeOK
  <2>3. QED
    BY <2>1, <2>2 DEF ChunkOf
<1>3. ASSUME NEW c \in Chunks, chunk[c] = "free"
      PROVE  ChunkOf(where[i]) # c /\ where[i] # <<c, 0>>
  <2>1. chunk[ChunkOf(where[i])] # "free"
    BY DEF ChainInv, Owned
  <2>2. ChunkOf(where[i]) # c
    BY <1>3, <2>1
  <2>3. QED
    BY <2>2 DEF ChunkOf
<1>4. QED
  BY <1>1, <1>2, <1>3

-----------------------------------------------------------------------------
(* A message is placed.                                                    *)

(* Where PlaceMessage puts its message.                                    *)
LEMMA PlaceMessagePlaces ==
  ASSUME CountInv, ChainInv, PlaceMessage
  PROVE  LET here == <<wChunk, wOffset>>
             m == Plain(sent + 1, pReq.kind, IF pReq.kind = "User" THEN wData ELSE {})
         IN  /\ \A i \in read..sent :
                  /\ where'[i] = where[i]
                  /\ link'[where[i]] = link[where[i]] /\ msg'[where[i]] = msg[where[i]]
             /\ where'[sent + 1] = here /\ msg'[here] = m
             /\ link'[here] = <<wChunk, wOffset + pReq.slots>>
<1> DEFINE here == <<wChunk, wOffset>>
           next == <<wChunk, wOffset + pReq.slots>>
           m == Plain(sent + 1, pReq.kind, IF pReq.kind = "User" THEN wData ELSE {})
<1>1. /\ link' = [link EXCEPT ![here] = next]
      /\ msg' = [msg EXCEPT ![here] = m]
      /\ where' = [i \in 1..(sent + 1) |-> IF i = sent + 1 THEN here ELSE where[i]]
  BY DEF PlaceMessage, Relinked
<1>2. here \in Addr /\ sent \in Nat
  <2>1. wOffset \in 0..ChunkSlots
    BY SlotAssumption DEF CountInv, TypeOK
  <2>2. QED
    BY <2>1, AddrPair DEF CountInv, TypeOK
<1> HIDE DEF m, next
<1>3. \A i \in read..sent :
        /\ where'[i] = where[i]
        /\ link'[where[i]] = link[where[i]] /\ msg'[where[i]] = msg[where[i]]
  BY <1>1, <1>2, Fresh DEF CountInv, TypeOK
<1>4. where'[sent + 1] = here /\ link'[here] = next /\ msg'[here] = m
  BY <1>1, <1>2 DEF CountInv, TypeOK
<1>5. QED
  BY <1>3, <1>4 DEF m, next

LEMMA PlaceMessageChain ==
  ASSUME CountInv, ChainInv, PlaceMessage
  PROVE  ChainInv'
<1> DEFINE here == <<wChunk, wOffset>>
           next == <<wChunk, wOffset + pReq.slots>>
           m == Plain(sent + 1, pReq.kind, IF pReq.kind = "User" THEN wData ELSE {})
<1>1. /\ wOffset' = wOffset + pReq.slots /\ wLast' = here /\ sent' = sent + 1
      /\ UNCHANGED <<wChunk, rLast, read, chunk, cPc>>
      /\ pPc = "alloc" /\ pPc' # "gone"
  BY DEF PlaceMessage, readerVars
<1>2. m.id = sent + 1 /\ m.kind # "Switch"
  BY DEF PlaceMessage, Plain, CountInv, TypeOK, Requests, KickKinds
<1>3. here \in Addr /\ pReq.slots \in Nat \ {0} /\ wOffset \in Nat /\ sent \in Nat /\ read \in Nat
      /\ 1 <= read /\ read <= sent
  <2>1. pReq.slots \in MessageSlots \cup DataSlots
    BY <1>1 DEF CountInv, RoomLeft
  <2>2. pReq.slots \in Nat \ {0}
    BY <2>1, SlotAssumption
  <2>3. wOffset \in 0..ChunkSlots /\ wOffset \in Nat
    BY SlotAssumption DEF CountInv, TypeOK
  <2>4. QED
    BY <2>2, <2>3, AddrPair DEF CountInv, TypeOK, Counted
<1>4. \A i \in read..sent :
        /\ where'[i] = where[i]
        /\ link'[where[i]] = link[where[i]] /\ msg'[where[i]] = msg[where[i]]
  BY PlaceMessagePlaces
<1>5. where'[sent + 1] = here /\ link'[here] = next /\ msg'[here] = m
  BY PlaceMessagePlaces
<1> HIDE DEF m
<1>6. \A i \in read..sent' : i \in read..sent \/ i = sent + 1
  BY <1>1, <1>3
<1>7. \A i \in read..sent : (Live(i)' <=> Live(i)) /\ (IsSwitch(i)' <=> IsSwitch(i))
  <2>1. \A i \in read..sent : i \in read'..sent' /\ read' = read /\ cPc' = cPc
    BY <1>1, <1>3
  <2>2. \A i \in read..sent : Live(i)' <=> Live(i)
    BY <2>1 DEF Live
  <2>3. \A i \in read..sent : IsSwitch(i)' <=> IsSwitch(i)
    BY <1>4 DEF IsSwitch
  <2>4. QED
    BY <2>2, <2>3
<1>8. Chain'
  <2>1. rLast' = where'[read'] /\ wLast' = where'[sent']
    BY <1>1, <1>3, <1>4, <1>5 DEF ChainInv, Chain
  <2>2. ChunkOf(wLast)' = wChunk' /\ link'[wLast'] = <<wChunk', wOffset'>>
    BY <1>1, <1>5 DEF ChunkOf
  <2>3. ASSUME NEW i \in read..(sent' - 1) PROVE link'[where'[i]] = where'[i + 1]
    <3>1. sent' - 1 = sent /\ i \in read..sent
      BY <1>1, <1>3
    <3>2. ASSUME i # sent PROVE link'[where'[i]] = where'[i + 1]
      <4>1. i \in read..(sent - 1) /\ i + 1 \in read..sent
        BY <1>3, <3>1, <3>2
      <4>2. QED
        BY <1>4, <3>1, <4>1 DEF ChainInv, Chain
    <3>3. CASE i = sent
      BY <1>4, <1>5, <3>1, <3>3 DEF ChainInv, Chain
    <3>4. QED
      BY <3>2, <3>3
  <2>4. ASSUME NEW i \in read..sent' PROVE msg'[where'[i]].id = i
    BY <1>2, <1>4, <1>5, <1>6 DEF ChainInv, Chain
  <2>5. QED
    BY <1>1, <2>1, <2>2, <2>3, <2>4 DEF Chain
<1>9. Disjoint'
  <2>1. ASSUME NEW i \in read..sent', ChunkOf(where'[i]) = wChunk
        PROVE  where'[i][2] < wOffset'
    <3>1. CASE i \in read..sent
      <4>1. where[i] \in Addr /\ where[i][2] < wOffset
        BY <1>4, <2>1, <3>1, Fresh DEF ChainInv, Disjoint
      <4>2. where[i][2] \in Int
        BY <4>1 DEF Addr
      <4>3. QED
        BY <1>1, <1>3, <1>4, <3>1, <4>1, <4>2
    <3>2. CASE i = sent + 1
      BY <1>1, <1>3, <1>5, <3>2
    <3>3. QED
      BY <1>6, <3>1, <3>2
  <2>2. ASSUME NEW i \in read..sent', NEW j \in read..sent', where'[i] = where'[j]
        PROVE  i = j
    BY <1>4, <1>5, <1>6, <2>2, Fresh DEF ChainInv, Disjoint
  <2>3. QED
    BY <1>1, <2>1, <2>2 DEF Disjoint
<1>10. Owned'
  <2>1. chunk[wChunk] = "used"
    BY <1>1 DEF ChainInv, Owned
  <2>2. ASSUME NEW i \in read..sent'
        PROVE  chunk[ChunkOf(where'[i])] # "free" /\ (Live(i)' => chunk[ChunkOf(where'[i])] = "used")
    BY <1>4, <1>5, <1>6, <1>7, <2>1, <2>2 DEF ChainInv, Owned, ChunkOf
  <2>3. QED
    BY <1>1, <2>1, <2>2 DEF Owned
<1>11. SwitchesLeave'
  <2>1. ASSUME NEW i \in read..sent', Live(i)', IsSwitch(i)'
        PROVE  /\ i < sent'
               /\ msg'[where'[i]].old = ChunkOf(where'[i])
               /\ msg'[where'[i]].old # wChunk'
               /\ \A j \in (i + 1)..sent' : ChunkOf(where'[j]) # msg'[where'[i]].old
    <3>1. i \in read..sent /\ Live(i) /\ IsSwitch(i)
      <4>1. i # sent + 1
        BY <1>1, <1>2, <1>5, <2>1 DEF IsSwitch
      <4>2. QED
        BY <1>6, <1>7, <2>1, <4>1
    <3>2. /\ i < sent /\ msg[where[i]].old = ChunkOf(where[i]) /\ msg[where[i]].old # wChunk
          /\ \A j \in (i + 1)..sent : ChunkOf(where[j]) # msg[where[i]].old
      BY <3>1 DEF ChainInv, SwitchesLeave
    <3>3. ASSUME NEW j \in (i + 1)..sent' PROVE ChunkOf(where'[j]) # msg'[where'[i]].old
      <4>1. CASE j \in (i + 1)..sent
        BY <1>3, <1>4, <3>1, <3>2, <4>1
      <4>2. CASE j = sent + 1
        BY <1>4, <1>5, <3>1, <3>2, <4>2 DEF ChunkOf
      <4>3. j \in (i + 1)..sent \/ j = sent + 1
        BY <1>1, <1>3, <3>1, <3>3
      <4>4. QED
        BY <4>1, <4>2, <4>3
    <3>4. i < sent'
      BY <1>1, <1>3, <3>2
    <3>5. QED
      BY <1>1, <1>4, <3>1, <3>2, <3>3, <3>4
  <2>2. QED
    BY <1>1, <2>1 DEF SwitchesLeave
<1>12. QED
  BY <1>8, <1>9, <1>10, <1>11 DEF ChainInv

-----------------------------------------------------------------------------
(* An argument block is placed behind the last message.                    *)

LEMMA PlaceDataChain ==
  ASSUME CountInv, ChainInv, NEW n \in Nat,
         link' = Relinked(wLast, n), wOffset' = wOffset + n,
         UNCHANGED <<wChunk, wLast, rLast, msg, chunk, where, sent, read, cPc>>,
         pPc # "gone"
  PROVE  ChainInv'
<1>1. /\ wLast = where[sent] /\ wLast \in Addr /\ sent \in read..sent
      /\ wOffset \in Nat /\ read \in Nat /\ sent \in Nat /\ link \in [Addr -> Addr]
  <2>1. /\ wLast \in Addr /\ wOffset \in Nat /\ read \in Nat /\ sent \in Nat
        /\ link \in [Addr -> Addr]
    BY DEF CountInv, TypeOK
  <2>2. read <= sent /\ wLast = where[sent]
    <3>1. rNew \in Nat /\ published \in Nat
      BY DEF CountInv, TypeOK
    <3>2. read + rNew <= published /\ published <= sent
      BY DEF CountInv, Counted
    <3>3. wLast = where[sent]
      BY DEF ChainInv, Chain
    <3>4. QED
      BY <2>1, <3>1, <3>2, <3>3
  <2>3. sent \in read..sent
    BY <2>1, <2>2
  <2>4. QED
    BY <2>1, <2>2, <2>3
<1>2. \A i \in read..(sent - 1) : where[i] # wLast /\ where[i] \in Addr
  <2> TAKE i \in read..(sent - 1)
  <2>1. i \in read..sent /\ i # sent
    BY <1>1
  <2>2. QED
    BY <1>1, <2>1, Fresh DEF ChainInv, Disjoint
<1>3. /\ link'[wLast] = <<wChunk, wOffset + n>>
      /\ \A i \in read..(sent - 1) : link'[where[i]] = link[where[i]]
  BY <1>1, <1>2 DEF Relinked
<1>4. Chain'
  BY <1>3 DEF ChainInv, Chain, ChunkOf
<1>5. Disjoint'
  <2>1. ASSUME NEW i \in read..sent, ChunkOf(where[i]) = wChunk
        PROVE  where[i][2] < wOffset + n
    <3>1. where[i][2] \in Int /\ where[i][2] < wOffset
      BY <2>1, Fresh DEF Addr, ChainInv, Disjoint
    <3>2. QED
      BY <1>1, <3>1
  <2>2. QED
    BY <2>1 DEF ChainInv, Disjoint, ChunkOf
<1>6. Owned' /\ SwitchesLeave'
  <2>1. \A i : Live(i)' => Live(i)
    BY DEF Live
  <2>2. QED
    BY <2>1 DEF ChainInv, Owned, SwitchesLeave, IsSwitch, ChunkOf
<1>7. QED
  BY <1>4, <1>5, <1>6 DEF ChainInv

-----------------------------------------------------------------------------
(* The writer enters a new chunk.                                          *)

(* Where EnterChunk puts the switch message and the dummy.                 *)
LEMMA EnterChunkPlaces ==
  ASSUME CountInv, ChainInv, NEW c \in Chunks, EnterChunk(c), pPc # "gone"
  PROVE  /\ \A i \in read..sent :
              /\ where'[i] = where[i] /\ ChunkOf(where[i]) # c
              /\ link'[where[i]] = link[where[i]] /\ msg'[where[i]] = msg[where[i]]
         /\ where'[sent + 1] = <<wChunk, wOffset>> /\ where'[sent + 2] = <<c, 0>>
         /\ link'[<<wChunk, wOffset>>] = <<c, 0>>
         /\ link'[<<c, 0>>] = <<c, DummySlots>>
         /\ msg'[<<wChunk, wOffset>>] = SwitchMessage(sent + 1, wChunk, c)
         /\ msg'[<<c, 0>>] = Plain(sent + 2, "Dummy", {})
         /\ c # wChunk
<1>1. /\ <<wChunk, wOffset>> \in Addr /\ <<c, 0>> \in Addr
      /\ link \in [Addr -> Addr] /\ msg \in [Addr -> Message] /\ sent \in Nat
  BY SlotAssumption, AddrPair DEF CountInv, TypeOK
<1>2. c # wChunk
  BY DEF EnterChunk, ChainInv, Owned
<1>3. <<c, 0>> # <<wChunk, wOffset>>
  BY <1>2
<1>4. chunk[c] = "free"
  BY DEF EnterChunk
<1>5. ASSUME NEW i \in read..sent
      PROVE  /\ where'[i] = where[i] /\ ChunkOf(where[i]) # c
             /\ link'[where[i]] = link[where[i]] /\ msg'[where[i]] = msg[where[i]]
  <2>1. /\ i \in 1..sent /\ where[i] \in Addr /\ where[i] # <<wChunk, wOffset>>
        /\ ChunkOf(where[i]) # c /\ where[i] # <<c, 0>>
    BY <1>4, Fresh
  <2>2. where'[i] = where[i]
    BY <1>1, <2>1 DEF EnterChunk
  <2>3. QED
    BY <1>1, <2>1, <2>2 DEF EnterChunk
<1>6. where'[sent + 1] = <<wChunk, wOffset>> /\ where'[sent + 2] = <<c, 0>>
  BY <1>1 DEF EnterChunk
<1>7. /\ link'[<<wChunk, wOffset>>] = <<c, 0>> /\ link'[<<c, 0>>] = <<c, DummySlots>>
      /\ msg'[<<wChunk, wOffset>>] = SwitchMessage(sent + 1, wChunk, c)
      /\ msg'[<<c, 0>>] = Plain(sent + 2, "Dummy", {})
  BY <1>1, <1>3 DEF EnterChunk
<1>8. QED
  BY <1>2, <1>5, <1>6, <1>7
LEMMA SwitchChunkChain ==
  ASSUME CountInv, ChainInv, SwitchChunk
  PROVE  ChainInv'
<1>1. PICK c \in Chunks : EnterChunk(c) /\ chunk' = [chunk EXCEPT ![c] = "used"]
  BY DEF SwitchChunk
<1>2. /\ UNCHANGED <<rLast, read, cPc, pPc>> /\ pPc # "gone"
      /\ wChunk' = c /\ wOffset' = DummySlots /\ wLast' = <<c, 0>> /\ sent' = sent + 2
  BY <1>1 DEF SwitchChunk, EnterChunk, readerVars, threadVars
<1>3. /\ read \in Nat /\ sent \in Nat /\ read <= sent
      /\ DummySlots \in Nat /\ 0 < DummySlots /\ chunk \in [Chunks -> {"free", "used", "stashed"}]
  BY SlotAssumption DEF CountInv, TypeOK, Counted
<1> DEFINE here == <<wChunk, wOffset>>
           head == <<c, 0>>
           s == SwitchMessage(sent + 1, wChunk, c)
           d == Plain(sent + 2, "Dummy", {})
<1>4. /\ \A i \in read..sent :
           /\ where'[i] = where[i] /\ ChunkOf(where[i]) # c
           /\ link'[where[i]] = link[where[i]] /\ msg'[where[i]] = msg[where[i]]
      /\ where'[sent + 1] = here /\ where'[sent + 2] = head
      /\ link'[here] = head /\ link'[head] = <<c, DummySlots>>
      /\ msg'[here] = s /\ msg'[head] = d
      /\ c # wChunk
  BY <1>1, <1>2, EnterChunkPlaces
<1>5. /\ s.id = sent + 1 /\ s.kind = "Switch" /\ s.old = wChunk
      /\ d.id = sent + 2 /\ d.kind = "Dummy"
  BY DEF SwitchMessage, Plain
<1> HIDE DEF s, d
<1>6. \A i \in read..sent' : i \in read..sent \/ i = sent + 1 \/ i = sent + 2
  BY <1>2, <1>3
<1>7. \A i \in read..sent : (Live(i)' <=> Live(i)) /\ (IsSwitch(i)' <=> IsSwitch(i))
  <2>1. \A i \in read..sent : i \in read'..sent' /\ read' = read /\ cPc' = cPc
    BY <1>2, <1>3
  <2>2. \A i \in read..sent : Live(i)' <=> Live(i)
    BY <2>1 DEF Live
  <2>3. \A i \in read..sent : IsSwitch(i)' <=> IsSwitch(i)
    BY <1>4 DEF IsSwitch
  <2>4. QED
    BY <2>2, <2>3
<1>8. Chain'
  <2>1. rLast' = where'[read'] /\ wLast' = where'[sent']
    BY <1>2, <1>3, <1>4 DEF ChainInv, Chain
  <2>2. ChunkOf(wLast)' = wChunk' /\ link'[wLast'] = <<wChunk', wOffset'>>
    BY <1>2, <1>4 DEF ChunkOf
  <2>3. ASSUME NEW i \in read..(sent' - 1) PROVE link'[where'[i]] = where'[i + 1]
    <3>1. sent' - 1 = sent + 1 /\ (i \in read..sent \/ i = sent + 1)
      BY <1>2, <1>3
    <3>2. ASSUME i \in read..sent, i # sent PROVE link'[where'[i]] = where'[i + 1]
      <4>1. i \in read..(sent - 1) /\ i + 1 \in read..sent
        BY <1>3, <3>2
      <4>2. QED
        BY <1>4, <3>2, <4>1 DEF ChainInv, Chain
    <3>3. CASE i = sent
      <4>1. sent \in read..sent
        BY <1>3
      <4>2. QED
        BY <1>4, <3>3, <4>1 DEF ChainInv, Chain
    <3>4. CASE i = sent + 1
      <4>1. i + 1 = sent + 2
        BY <1>3, <3>4
      <4>2. QED
        BY <1>4, <3>4, <4>1
    <3>5. QED
      BY <3>1, <3>2, <3>3, <3>4
  <2>4. ASSUME NEW i \in read..sent' PROVE msg'[where'[i]].id = i
    BY <1>4, <1>5, <1>6 DEF ChainInv, Chain
  <2>5. QED
    BY <1>2, <2>1, <2>2, <2>3, <2>4 DEF Chain
<1>9. Disjoint'
  <2>1. ASSUME NEW i \in read..sent', ChunkOf(where'[i]) = c
        PROVE  where'[i][2] < DummySlots
    <3>1. i = sent + 2
      BY <1>4, <1>6, <2>1 DEF ChunkOf
    <3>2. QED
      BY <1>3, <1>4, <3>1
  <2>2. ASSUME NEW i \in read..sent', NEW j \in read..sent', where'[i] = where'[j]
        PROVE  i = j
    <3>1. here # head
      BY <1>4
    <3>2. \A k \in read..sent : where'[k] = where[k] /\ where[k] # here /\ where[k] # head
      BY <1>4, Fresh DEF ChunkOf
    <3>3. QED
      BY <1>4, <1>6, <2>2, <3>1, <3>2 DEF ChainInv, Disjoint
  <2>3. QED
    BY <1>2, <2>1, <2>2 DEF Disjoint
<1>10. Owned'
  <2>1. chunk'[c] = "used" /\ chunk'[wChunk] = "used"
    BY <1>1, <1>2, <1>3, <1>4 DEF ChainInv, Owned
  <2>2. ASSUME NEW i \in read..sent'
        PROVE  chunk'[ChunkOf(where'[i])] # "free"
               /\ (Live(i)' => chunk'[ChunkOf(where'[i])] = "used")
    <3>1. CASE i \in read..sent
      <4>1. where'[i] = where[i] /\ chunk'[ChunkOf(where[i])] = chunk[ChunkOf(where[i])]
        BY <1>1, <1>3, <1>4, <3>1, Fresh DEF Addr, ChunkOf
      <4>2. QED
        BY <1>7, <3>1, <4>1 DEF ChainInv, Owned
    <3>2. CASE i = sent + 1 \/ i = sent + 2
      BY <1>4, <2>1, <3>2 DEF ChunkOf
    <3>3. QED
      BY <1>6, <3>1, <3>2
  <2>3. QED
    BY <1>2, <2>1, <2>2 DEF Owned
<1>11. SwitchesLeave'
  <2>1. ASSUME NEW i \in read..sent', Live(i)', IsSwitch(i)'
        PROVE  /\ i < sent'
               /\ msg'[where'[i]].old = ChunkOf(where'[i])
               /\ msg'[where'[i]].old # wChunk'
               /\ \A j \in (i + 1)..sent' : ChunkOf(where'[j]) # msg'[where'[i]].old
    <3>1. i # sent + 2
      BY <1>2, <1>4, <1>5, <2>1 DEF IsSwitch
    <3>2. CASE i = sent + 1
      <4>1. msg'[where'[i]].old = wChunk /\ ChunkOf(where'[i]) = wChunk /\ i < sent'
        BY <1>2, <1>3, <1>4, <1>5, <3>2 DEF ChunkOf
      <4>2. \A j \in (i + 1)..sent' : j = sent + 2
        BY <1>2, <1>3, <3>2
      <4>3. QED
        BY <1>2, <1>4, <4>1, <4>2 DEF ChunkOf
    <3>3. CASE i \in read..sent
      <4>1. /\ i < sent /\ msg[where[i]].old = ChunkOf(where[i]) /\ msg[where[i]].old # wChunk
            /\ \A j \in (i + 1)..sent : ChunkOf(where[j]) # msg[where[i]].old
        BY <1>7, <2>1, <3>3 DEF ChainInv, SwitchesLeave
      <4>2. msg'[where'[i]].old = msg[where[i]].old /\ msg[where[i]].old # c
        BY <1>4, <3>3, <4>1
      <4>3. ASSUME NEW j \in (i + 1)..sent' PROVE ChunkOf(where'[j]) # msg[where[i]].old
        <5>1. (j \in (i + 1)..sent /\ j \in read..sent) \/ j = sent + 1 \/ j = sent + 2
          BY <1>2, <1>3, <3>3
        <5>2. QED
          BY <1>4, <4>1, <4>2, <5>1 DEF ChunkOf
      <4>4. i < sent'
        BY <1>2, <1>3, <4>1
      <4>5. QED
        BY <1>2, <1>4, <3>3, <4>1, <4>2, <4>3, <4>4
    <3>4. QED
      BY <1>6, <3>1, <3>2, <3>3
  <2>2. QED
    BY <1>2, <2>1 DEF SwitchesLeave
<1>12. QED
  BY <1>8, <1>9, <1>10, <1>11 DEF ChainInv

LEMMA ImmediateSwitchChunkChain ==
  ASSUME CountInv, ChainInv, NEW n \in DataSlots, ImmediateSwitchChunk(n)
  PROVE  ChainInv'
<1>1. PICK c \in Chunks :
        /\ EnterChunk(c)
        /\ chunk' = Recycled([chunk EXCEPT ![c] = "used"], wChunk)
        /\ rLast' = <<c, 0>>
  BY DEF ImmediateSwitchChunk
<1>2. /\ UNCHANGED <<cPc, pPc>> /\ pPc # "gone" /\ cPc # "exec"
      /\ wChunk' = c /\ wOffset' = DummySlots /\ wLast' = <<c, 0>>
      /\ sent' = sent + 2 /\ read' = sent + 2 /\ sent \in Nat
  BY <1>1 DEF ImmediateSwitchChunk, EnterChunk, threadVars, CountInv, TypeOK, ModesExclusive
<1>3. /\ where'[sent + 2] = <<c, 0>> /\ link'[<<c, 0>>] = <<c, DummySlots>>
      /\ msg'[<<c, 0>>].id = sent + 2 /\ c # wChunk
  BY <1>1, <1>2, EnterChunkPlaces DEF Plain
<1>4. chunk'[c] = "used"
  BY <1>1, <1>3 DEF Recycled, CountInv, TypeOK
<1>5. \A i \in read'..sent' : i = sent + 2
  BY <1>2
<1>6. 0 < DummySlots /\ read'..(sent' - 1) = {}
  BY <1>2, SlotAssumption
<1>7. Chain'
  BY <1>1, <1>2, <1>3, <1>5, <1>6 DEF Chain, ChunkOf
<1>8. Disjoint' /\ Owned'
  BY <1>2, <1>3, <1>4, <1>5, <1>6 DEF Disjoint, Owned, ChunkOf
<1>9. SwitchesLeave'
  BY <1>2, <1>5 DEF SwitchesLeave, Live
<1>10. QED
  BY <1>7, <1>8, <1>9 DEF ChainInv

-----------------------------------------------------------------------------
(* Chunks are freed, left and given back.                                  *)

(* The stash never holds a chunk of the chain when it is freed.            *)
LEMMA FreeChain ==
  ASSUME CountInv, ChainInv,
         chunk' = Freed(chunk), UNCHANGED <<wChunk, wOffset, wLast, rLast, link, msg,
                                            where, sent, read, pPc>>,
         pPc # "gone", cPc' # "exec",
         cPc = "exec" \/ chunk[ChunkOf(where[read])] = "used"
  PROVE  ChainInv'
<1>1. /\ chunk[wChunk] = "used" /\ read \in Nat /\ sent \in Nat
      /\ chunk \in [Chunks -> {"free", "used", "stashed"}] /\ wChunk \in Chunks
  BY DEF ChainInv, Owned, CountInv, TypeOK
<1>2. \A i \in read..sent : chunk[ChunkOf(where[i])] = "used"
  <2>1. CASE cPc = "exec"
    BY <2>1 DEF ChainInv, Owned, Live
  <2>2. CASE chunk[ChunkOf(where[read])] = "used"
    <3>1. \A i \in read..sent : i = read \/ Live(i)
      BY <1>1 DEF Live
    <3>2. QED
      BY <2>2, <3>1 DEF ChainInv, Owned
  <2>3. QED
    BY <2>1, <2>2
<1>3. \A c \in Chunks : chunk[c] = "used" => chunk'[c] = "used"
  BY DEF Freed
<1>4. \A i \in read..sent : ChunkOf(where[i]) \in Chunks
  BY Fresh DEF Addr, ChunkOf
<1>5. \A i : Live(i)' => Live(i)
  BY DEF Live
<1>6. Chain' /\ Disjoint'
  BY DEF ChainInv, Chain, Disjoint, ChunkOf
<1>7. Owned'
  BY <1>1, <1>2, <1>3, <1>4 DEF Owned, ChunkOf
<1>8. SwitchesLeave'
  BY <1>5 DEF ChainInv, SwitchesLeave, IsSwitch, ChunkOf
<1>9. QED
  BY <1>6, <1>7, <1>8 DEF ChainInv

(* readMessage has a message to go to.                                     *)
LEMMA ReadHasNext ==
  ASSUME CountInv, HasNewMessage
  PROVE  read < sent /\ read \in Nat /\ sent \in Nat
<1>1. /\ read \in Nat /\ sent \in Nat /\ published \in Nat /\ rNew \in Nat /\ rNew > 0
      /\ read + rNew <= published /\ published <= sent
  BY DEF CountInv, TypeOK, Counted, HasNewMessage
<1>2. QED
  BY <1>1

LEMMA ReadChain ==
  ASSUME CountInv, ChainInv, Read
  PROVE  ChainInv'
<1>1. /\ rLast' = link[rLast] /\ read' = read + 1 /\ cPc' = "exec"
      /\ UNCHANGED <<wChunk, wOffset, wLast, link, msg, chunk, where, sent, pPc>>
  BY DEF Read, producerSide, writerVars, memoryVars
<1>2. read < sent /\ read \in Nat /\ sent \in Nat
  BY ReadHasNext DEF Read
<1>3. rLast' = where[read + 1]
  BY <1>1, <1>2 DEF ChainInv, Chain
<1>4. /\ \A i \in read'..sent : i \in read..sent /\ Live(i)
      /\ \A i \in read'..(sent - 1) : i \in read..(sent - 1)
  BY <1>1, <1>2 DEF Live
<1>5. Chain'
  BY <1>1, <1>3, <1>4 DEF ChainInv, Chain, ChunkOf
<1>6. Disjoint'
  BY <1>1, <1>4 DEF ChainInv, Disjoint, ChunkOf
<1>7. Owned'
  BY <1>1, <1>4 DEF ChainInv, Owned, ChunkOf
<1>8. SwitchesLeave'
  BY <1>1, <1>4 DEF ChainInv, SwitchesLeave, IsSwitch, ChunkOf
<1>9. QED
  BY <1>5, <1>6, <1>7, <1>8 DEF ChainInv

(* The destructor of the switch message stashes the chunk that the chain   *)
(* has left.                                                               *)
LEMMA ExecSwitchChain ==
  ASSUME CountInv, ChainInv, ExecSwitch
  PROVE  ChainInv'
<1> DEFINE old == msg[rLast].old
<1>1. /\ chunk' = [chunk EXCEPT ![old] = "stashed"] /\ cPc = "exec" /\ cPc' # "exec"
      /\ msg[rLast].kind = "Switch"
      /\ UNCHANGED <<wChunk, wOffset, wLast, rLast, link, msg, where, sent, read, pPc>>
  BY DEF ExecSwitch, Recycled, producerSide, writerVars
<1>2. read \in read..sent /\ Live(read) /\ IsSwitch(read) /\ rLast = where[read]
  BY <1>1 DEF CountInv, TypeOK, Counted, Live, IsSwitch, ChainInv, Chain
<1>3. /\ old # wChunk
      /\ \A j \in (read + 1)..sent : ChunkOf(where[j]) # old
  BY <1>2 DEF ChainInv, SwitchesLeave
<1>4. /\ chunk \in [Chunks -> {"free", "used", "stashed"}] /\ wChunk \in Chunks
      /\ read \in Nat /\ sent \in Nat
  BY DEF CountInv, TypeOK
<1>5. \A i \in read..sent : ChunkOf(where[i]) \in Chunks
  BY Fresh DEF Addr, ChunkOf
<1>6. \A i \in read..sent : Live(i)' => Live(i) /\ i \in (read + 1)..sent
  BY <1>1, <1>4 DEF Live
<1>7. Chain' /\ Disjoint'
  BY <1>1 DEF ChainInv, Chain, Disjoint, ChunkOf
<1>8. Owned'
  <2>1. \A i \in read..sent : chunk'[ChunkOf(where[i])] # "free"
    BY <1>1, <1>4, <1>5 DEF ChainInv, Owned
  <2>2. \A i \in read..sent : Live(i)' => chunk'[ChunkOf(where[i])] = "used"
    BY <1>1, <1>3, <1>4, <1>5, <1>6 DEF ChainInv, Owned
  <2>3. pPc # "gone" => chunk'[wChunk] = "used"
    BY <1>1, <1>3, <1>4 DEF ChainInv, Owned
  <2>4. QED
    BY <1>1, <2>1, <2>2, <2>3 DEF Owned, ChunkOf
<1>9. SwitchesLeave'
  BY <1>1, <1>6 DEF ChainInv, SwitchesLeave, IsSwitch, ChunkOf
<1>10. QED
  BY <1>7, <1>8, <1>9 DEF ChainInv

LEMMA DestroyChain ==
  ASSUME CountInv, ChainInv, Destroy
  PROVE  ChainInv'
<1>1. /\ chunk' = [chunk EXCEPT ![wChunk] = "stashed"] /\ pPc' = "gone"
      /\ UNCHANGED <<wChunk, wOffset, wLast, rLast, link, msg, where, sent, read, cPc>>
      /\ read = sent /\ cPc # "exec"
  BY DEF Destroy, Recycled, CountInv, TypeOK, ModesExclusive, writerVars, readerVars,
         historyVars
<1>2. /\ chunk \in [Chunks -> {"free", "used", "stashed"}] /\ wChunk \in Chunks
      /\ read \in Nat /\ sent \in Nat
  BY DEF CountInv, TypeOK
<1>3. \A i \in read..sent : ChunkOf(where[i]) \in Chunks
  BY Fresh DEF Addr, ChunkOf
<1>4. \A i : ~Live(i)'
  BY <1>1, <1>2 DEF Live
<1>5. Chain' /\ Disjoint'
  BY <1>1 DEF ChainInv, Chain, Disjoint, ChunkOf
<1>6. \A i \in read..sent : chunk'[ChunkOf(where[i])] # "free"
  BY <1>1, <1>2, <1>3 DEF ChainInv, Owned
<1>7. Owned' /\ SwitchesLeave'
  BY <1>1, <1>4, <1>6 DEF Owned, SwitchesLeave, ChunkOf
<1>8. QED
  BY <1>5, <1>7 DEF ChainInv

-----------------------------------------------------------------------------
(* The chain in every reachable state.                                     *)

LEMMA ChainInvInit == Init => ChainInv
<1> SUFFICES ASSUME Init PROVE ChainInv
  OBVIOUS
<1>1. /\ read = 1 /\ sent = 1 /\ where[1] = <<wChunk, 0>> /\ <<wChunk, 0>> \in Addr
      /\ 0 < DummySlots /\ cPc = "none"
  BY SlotAssumption, AddrPair DEF Init
<1>2. Chain
  BY <1>1 DEF Init, Chain, Plain, ChunkOf
<1>3. Disjoint /\ Owned /\ SwitchesLeave
  BY <1>1 DEF Init, Disjoint, Owned, SwitchesLeave, Live, ChunkOf
<1>4. QED
  BY <1>2, <1>3 DEF ChainInv

LEMMA ChainInvStep ==
  ASSUME CountInv, ChainInv, DetachedUsed, [Next]_vars
  PROVE  ChainInv'
<1> USE DEF chainVars
<1>1. ASSUME NEW r \in Requests, Call(r) PROVE ChainInv'
  BY <1>1, ChainStutter DEF Call, writerVars, readerVars, memoryVars, historyVars
<1>2. ASSUME Push PROVE ChainInv'
  BY <1>2, ChainStutter DEF Push, readerVars, memoryVars
<1>3. ASSUME Notify PROVE ChainInv'
  BY <1>3, ChainStutter DEF Notify, writerVars, readerVars, memoryVars, historyVars
<1>4. ASSUME WaitReturn PROVE ChainInv'
  BY <1>4, ChainStutter DEF WaitReturn, writerVars, readerVars, memoryVars, historyVars
<1>5. ASSUME Join PROVE ChainInv'
  BY <1>5, ChainStutter DEF Join, writerVars, readerVars, memoryVars, historyVars
<1>6. ASSUME SetImmediateMode PROVE ChainInv'
  BY <1>6, ChainStutter DEF SetImmediateMode, writerVars, readerVars, memoryVars, historyVars
<1>7. ASSUME RunConsumerThread PROVE ChainInv'
  BY <1>7, ChainStutter DEF RunConsumerThread, writerVars, readerVars, memoryVars, historyVars
<1>8. ASSUME ImmediateMessage PROVE ChainInv'
  BY <1>8, ChainStutter DEF ImmediateMessage, writerVars, readerVars, memoryVars, historyVars, threadVars
<1>9. ASSUME Lock PROVE ChainInv'
  BY <1>9, ChainStutter DEF Lock, producerSide, writerVars, readerVars, memoryVars
<1>10. ASSUME PullLocked PROVE ChainInv'
  BY <1>10, ChainStutter DEF PullLocked, producerSide, writerVars, readerVars, memoryVars
<1>11. ASSUME Sleep PROVE ChainInv'
  BY <1>11, ChainStutter DEF Sleep, producerSide, writerVars, readerVars, memoryVars
<1>12. ASSUME SpuriousWakeup PROVE ChainInv'
  BY <1>12, ChainStutter DEF SpuriousWakeup, producerSide, writerVars, readerVars, memoryVars
<1>13. ASSUME PullAwake PROVE ChainInv'
  BY <1>13, ChainStutter DEF PullAwake, producerSide, writerVars, readerVars, memoryVars
<1>14. ASSUME ExecPlain PROVE ChainInv'
  BY <1>14, ChainStutter DEF ExecPlain, producerSide, writerVars, readerVars, memoryVars
<1>15. ASSUME ExecWait PROVE ChainInv'
  BY <1>15, ChainStutter DEF ExecWait, producerSide, writerVars, readerVars, memoryVars
<1>16. ASSUME ExecFinish PROVE ChainInv'
  BY <1>16, ChainStutter DEF ExecFinish, producerSide, writerVars, readerVars, memoryVars
<1>17. ASSUME ExecTerminate PROVE ChainInv'
  BY <1>17, ChainStutter DEF ExecTerminate, producerSide, writerVars, readerVars, memoryVars
<1>18. ASSUME FlushEnd PROVE ChainInv'
  BY <1>18, ChainStutter DEF FlushEnd, producerSide, writerVars, readerVars, memoryVars
<1>19. ASSUME SwitchChunk PROVE ChainInv'
  BY <1>19, SwitchChunkChain
<1>20. ASSUME PlaceMessage PROVE ChainInv'
  BY <1>20, PlaceMessageChain
<1>21. ASSUME PlaceData PROVE ChainInv'
  <2>1. pReq.slots \in Nat
    BY <1>21, AllocRoom DEF PlaceData
  <2>2. QED
    BY <1>21, <2>1, PlaceDataChain DEF PlaceData, readerVars
<1>22. ASSUME NEW n \in DataSlots, ImmediateData(n) PROVE ChainInv'
  <2>1. n \in Nat
    BY SlotAssumption
  <2>2. QED
    BY <1>22, <2>1, PlaceDataChain DEF ImmediateData, readerVars, threadVars
<1>23. ASSUME NEW n \in DataSlots, ImmediateSwitchChunk(n) PROVE ChainInv'
  BY <1>23, ImmediateSwitchChunkChain
<1>24. ASSUME ImmediateFree PROVE ChainInv'
  <2>1. pPc # "gone" /\ cPc # "exec" /\ chunk[ChunkOf(where[read])] = "used"
    BY <1>24 DEF ImmediateFree, CountInv, ModesExclusive, DetachedUsed
  <2>2. QED
    BY <1>24, <2>1, FreeChain DEF ImmediateFree, writerVars, readerVars, historyVars, threadVars
<1>25. ASSUME ExecFree PROVE ChainInv'
  <2>1. pPc # "gone" /\ cPc = "exec" /\ cPc' # "exec"
    BY <1>25 DEF ExecFree, CountInv, ModesExclusive
  <2>2. QED
    BY <1>25, <2>1, FreeChain DEF ExecFree, producerSide, writerVars, readerVars
<1>26. ASSUME Read PROVE ChainInv'
  BY <1>26, ReadChain
<1>27. ASSUME ExecSwitch PROVE ChainInv'
  BY <1>27, ExecSwitchChain
<1>28. ASSUME Destroy PROVE ChainInv'
  BY <1>28, DestroyChain
<1>29. CASE UNCHANGED vars
  BY <1>29, ChainStutter DEF vars, writerVars, readerVars, memoryVars, historyVars, threadVars
<1>30. ASSUME NEW n \in DataSlots, ImmediateSwitchFails(n) PROVE ChainInv'
  BY <1>30, ChainStutter DEF ImmediateSwitchFails, writerVars, readerVars, memoryVars, historyVars
<1>31. QED
  BY <1>30, <1>1, <1>2, <1>3, <1>4, <1>5, <1>6, <1>7, <1>8, <1>9, <1>10, <1>11, <1>12, <1>13, <1>14, <1>15, <1>16, <1>17, <1>18, <1>19, <1>20, <1>21, <1>22, <1>23, <1>24, <1>25, <1>26, <1>27, <1>28, <1>29
     DEF Next, ProducerCall, ProducerStep, ConsumerStep

-----------------------------------------------------------------------------
(* 3. The channel: by the invariant, the walk along the links finds the    *)
(* ranks between the counters, and each step changes the counters as a     *)
(* step of the channel does, or not at all.                                *)

(* The ranks behind a up to b.                                             *)
Ranks(a, b) == [k \in 1..(b - a) |-> a + k]

LEMMA RanksSeq ==
  ASSUME NEW a \in Nat, NEW b \in Nat, a <= b
  PROVE  /\ Ranks(a, b) \in Seq(Nat) /\ Len(Ranks(a, b)) = b - a
         /\ \A k \in 1..(b - a) : Ranks(a, b)[k] = a + k
<1>1. b - a \in Nat
  OBVIOUS
<1>2. \A k \in 1..(b - a) : a + k \in Nat
  OBVIOUS
<1>3. QED
  BY <1>1, <1>2 DEF Ranks

LEMMA RanksEmpty ==
  ASSUME NEW a \in Nat
  PROVE  Ranks(a, a) = << >>
BY DEF Ranks

LEMMA RanksConcat ==
  ASSUME NEW a \in Nat, NEW b \in Nat, NEW c \in Nat, a <= b, b <= c
  PROVE  Ranks(a, b) \o Ranks(b, c) = Ranks(a, c)
<1> DEFINE s == Ranks(a, b)
           t == Ranks(b, c)
           u == Ranks(a, c)
<1>1. /\ s \in Seq(Nat) /\ Len(s) = b - a /\ \A k \in 1..(b - a) : s[k] = a + k
      /\ t \in Seq(Nat) /\ Len(t) = c - b /\ \A k \in 1..(c - b) : t[k] = b + k
      /\ u \in Seq(Nat) /\ Len(u) = c - a /\ \A k \in 1..(c - a) : u[k] = a + k
  <2>1. a <= c
    OBVIOUS
  <2>2. QED
    BY <2>1, RanksSeq
<1> HIDE DEF s, t, u
<1>2. /\ s \o t \in Seq(Nat)
      /\ Len(s \o t) = Len(s) + Len(t)
      /\ \A i \in 1..(Len(s) + Len(t)) :
           (s \o t)[i] = IF i <= Len(s) THEN s[i] ELSE t[i - Len(s)]
  BY <1>1, ConcatProperties
<1>3. Len(s) + Len(t) = c - a
  BY <1>1
<1>4. ASSUME NEW k \in 1..(c - a)
      PROVE  (s \o t)[k] = u[k]
  <2>1. CASE k <= b - a
    BY <1>1, <1>2, <1>3, <2>1
  <2>2. CASE k > b - a
    <3>1. (s \o t)[k] = t[k - (b - a)]
      <4>1. Len(s) = b - a
        BY <1>1
      <4>2. k \in 1..(Len(s) + Len(t)) /\ ~(k <= Len(s))
        BY <1>3, <2>2, <4>1
      <4>3. QED
        BY <1>2, <4>1, <4>2
    <3>2. k - (b - a) \in 1..(c - b)
      BY <2>2
    <3>3. t[k - (b - a)] = b + (k - (b - a)) /\ u[k] = a + k
      BY <1>1, <3>2
    <3>4. QED
      BY <3>1, <3>2, <3>3
  <2>3. k <= b - a \/ k > b - a
    OBVIOUS
  <2>4. QED
    BY <2>1, <2>2, <2>3
<1>5. s \o t = u
  BY <1>1, <1>2, <1>3, <1>4, SeqEqual
<1>6. QED
  BY <1>5 DEF s, t, u

LEMMA RanksHead ==
  ASSUME NEW a \in Nat, NEW b \in Nat, a < b
  PROVE  /\ Ranks(a, b) # << >> /\ Head(Ranks(a, b)) = a + 1
         /\ Tail(Ranks(a, b)) = Ranks(a + 1, b)
<1> DEFINE s == Ranks(a, b)
           t == Ranks(a + 1, b)
<1>1. /\ s \in Seq(Nat) /\ Len(s) = b - a /\ \A k \in 1..(b - a) : s[k] = a + k
      /\ t \in Seq(Nat) /\ Len(t) = b - (a + 1) /\ \A k \in 1..(b - (a + 1)) : t[k] = a + 1 + k
  <2>1. a + 1 \in Nat /\ a + 1 <= b /\ a <= b
    OBVIOUS
  <2>2. QED
    BY <2>1, RanksSeq
<1> HIDE DEF s, t
<1>2. s # << >> /\ s[1] = a + 1
  BY <1>1
<1>3. Head(s) = s[1]
  BY <1>1, <1>2
<1>4. /\ Tail(s) \in Seq(Nat) /\ Len(Tail(s)) = Len(s) - 1
      /\ \A k \in 1..Len(Tail(s)) : Tail(s)[k] = s[k + 1]
  BY <1>1, <1>2, HeadTailProperties
<1>5. \A k \in 1..(b - (a + 1)) : s[k + 1] = t[k]
  BY <1>1
<1>6. Tail(s) = t
  <2>1. Len(Tail(s)) = b - (a + 1)
    BY <1>1, <1>4
  <2>2. QED
    BY <1>1, <1>4, <1>5, <2>1, SeqEqual
<1>7. QED
  BY <1>2, <1>3, <1>6 DEF s, t
-----------------------------------------------------------------------------
(* What the walk along the links finds.                                    *)

(* The k-th hop finds the message k ranks behind the reader's last one.    *)
LEMMA HopFinds ==
  ASSUME CountInv, ChainInv, NEW k \in 1..(sent - read)
  PROVE  msg[Hop(k)].id = read + k
<1>1. read \in Nat /\ sent \in Nat /\ read <= sent
  BY DEF CountInv, TypeOK, Counted
<1>2. /\ read + k - 1 \in read..(sent - 1) /\ read + k \in read..sent
      /\ (read + k - 1) + 1 = read + k /\ (k = 1 => read + k - 1 = read)
  BY <1>1
<1>3. Hop(k) = link[where[read + k - 1]]
  BY <1>2 DEF Hop, ChainInv, Chain
<1>4. link[where[read + k - 1]] = where[read + k]
  BY <1>2 DEF ChainInv, Chain
<1>5. msg[where[read + k]].id = read + k
  BY <1>2 DEF ChainInv, Chain
<1>6. QED
  BY <1>3, <1>4, <1>5

(* The channel's state, in terms of the three counts.                      *)
LEMMA ChannelState ==
  ASSUME CountInv, ChainInv
  PROVE  /\ read \in Nat /\ published \in Nat /\ sent \in Nat
         /\ read <= published /\ published <= sent
         /\ Walk(0, Unread) = Ranks(read, published)
         /\ Walk(Unread, wPending) = Ranks(published, sent)
         /\ msg[rLast].id = read
<1>1. /\ read \in Nat /\ published \in Nat /\ sent \in Nat
      /\ read <= published /\ published <= sent
      /\ wPending = sent - published
  BY DEF CountInv, TypeOK, Counted
<1>2. Unread = published - read
  BY Distance DEF Unread, CountInv, TypeOK, Counted
<1>3. Walk(0, Unread) = Ranks(read, published)
  <2>1. \A k \in 1..(published - read) : 0 + k \in 1..(sent - read) /\ 0 + k = k
    BY <1>1
  <2>2. \A k \in 1..(published - read) : msg[Hop(0 + k)].id = read + k
    BY <2>1, HopFinds
  <2>3. QED
    BY <1>2, <2>2 DEF Walk, Ranks
<1>4. Walk(Unread, wPending) = Ranks(published, sent)
  <2>1. \A k \in 1..(sent - published) :
          /\ published - read + k \in 1..(sent - read)
          /\ read + (published - read + k) = published + k
    BY <1>1
  <2>2. \A k \in 1..(sent - published) : msg[Hop(published - read + k)].id = published + k
    BY <2>1, HopFinds
  <2>3. QED
    BY <1>1, <1>2, <2>2 DEF Walk, Ranks
<1>5. msg[rLast].id = read
  <2>1. read \in read..sent
    BY <1>1
  <2>2. QED
    BY <2>1 DEF ChainInv, Chain
<1>6. QED
  BY <1>1, <1>3, <1>4, <1>5

-----------------------------------------------------------------------------
(* What a step does to the three counts.                                   *)

LEMMA CountsStep ==
  ASSUME CountInv, ChainInv, [Next]_vars
  PROVE  \/ /\ sent' \in {sent + 1, sent + 2} /\ UNCHANGED <<read, published>>
         \/ published' = sent /\ UNCHANGED <<read, sent>>
         \/ read < published /\ read' = read + 1 /\ UNCHANGED <<published, sent>>
         \/ /\ read = sent /\ published = sent
            /\ sent' = sent + 2 /\ published' = sent + 2 /\ read' = sent + 2
         \/ UNCHANGED <<read, published, sent>>
<1>1. ASSUME NEW r \in Requests, Call(r) PROVE UNCHANGED <<read, published, sent>>
  BY <1>1 DEF Call, historyVars
<1>2. ASSUME SwitchChunk PROVE sent' = sent + 2 /\ UNCHANGED <<read, published>>
  BY <1>2 DEF SwitchChunk, EnterChunk
<1>3. ASSUME PlaceMessage PROVE sent' = sent + 1 /\ UNCHANGED <<read, published>>
  BY <1>3 DEF PlaceMessage
<1>4. ASSUME Push PROVE published' = sent /\ UNCHANGED <<read, sent>>
  BY <1>4 DEF Push
<1>5. ASSUME PlaceData \/ Notify \/ WaitReturn \/ Join \/ SetImmediateMode
             \/ RunConsumerThread \/ Destroy \/ ImmediateMessage \/ ImmediateFree
      PROVE  UNCHANGED <<read, published, sent>>
  BY <1>5 DEF PlaceData, Notify, WaitReturn, Join, SetImmediateMode, RunConsumerThread,
     Destroy, ImmediateMessage, ImmediateFree, historyVars
<1>6. ASSUME NEW n \in DataSlots, ImmediateData(n) PROVE UNCHANGED <<read, published, sent>>
  BY <1>6 DEF ImmediateData
<1>7. ASSUME NEW n \in DataSlots, ImmediateSwitchChunk(n)
      PROVE  /\ read = sent /\ published = sent
             /\ sent' = sent + 2 /\ published' = sent + 2 /\ read' = sent + 2
  <2>1. /\ read = sent /\ sent' = sent + 2 /\ published' = sent + 2 /\ read' = read + 2
    BY <1>7 DEF ImmediateSwitchChunk, EnterChunk
  <2>2. read = sent /\ published = sent
    BY <2>1 DEF CountInv, Counted, TypeOK
  <2>3. QED
    BY <2>1, <2>2
<1>8. ASSUME Read
      PROVE  read < published /\ read' = read + 1 /\ UNCHANGED <<published, sent>>
  <2>1. rNew > 0 /\ read' = read + 1 /\ UNCHANGED <<published, sent>>
    BY <1>8 DEF Read, HasNewMessage, producerSide
  <2>2. QED
    BY <2>1 DEF CountInv, Counted, TypeOK
<1>9. ASSUME \/ Lock \/ PullLocked \/ Sleep \/ PullAwake \/ SpuriousWakeup
             \/ ExecPlain \/ ExecSwitch \/ ExecFree \/ ExecWait \/ ExecFinish
             \/ ExecTerminate \/ FlushEnd
      PROVE  UNCHANGED <<read, published, sent>>
  BY <1>9 DEF Lock, PullLocked, Sleep, PullAwake, SpuriousWakeup, ExecPlain, ExecSwitch,
     ExecFree, ExecWait, ExecFinish, ExecTerminate, FlushEnd, producerSide
<1>10. ASSUME UNCHANGED vars PROVE UNCHANGED <<read, published, sent>>
  BY <1>10 DEF vars, historyVars
<1>11. ASSUME NEW n \in DataSlots, ImmediateSwitchFails(n) PROVE UNCHANGED <<read, published, sent>>
  BY <1>11 DEF ImmediateSwitchFails, historyVars
<1>12. QED
  BY <1>11, <1>1, <1>2, <1>3, <1>4, <1>5, <1>6, <1>7, <1>8, <1>9, <1>10
     DEF Next, ProducerCall, ProducerStep, ConsumerStep

-----------------------------------------------------------------------------
(* The channel as the counts see it.                                       *)
Counts ==
  /\ read \in Nat /\ published \in Nat /\ sent \in Nat
  /\ read <= published /\ published <= sent
  /\ Walk(0, Unread) = Ranks(read, published)
  /\ Walk(Unread, wPending) = Ranks(published, sent)
  /\ msg[rLast].id = read

LEMMA CountsInv == CountInv /\ ChainInv => Counts
BY ChannelState DEF Counts

(* Items put are pending behind those already pending.                     *)
LEMMA PutStep ==
  ASSUME Counts, Counts', NEW n \in {1, 2}, sent' = sent + n, UNCHANGED <<read, published>>
  PROVE  Channel!Put(n)
<1>1. Ranks(sent, sent + n) = [k \in 1..n |-> sent + k]
  BY DEF Ranks, Counts
<1>2. Ranks(published, sent) \o Ranks(sent, sent + n) = Ranks(published, sent + n)
  <2>1. /\ published \in Nat /\ sent \in Nat /\ sent + n \in Nat
        /\ published <= sent /\ sent <= sent + n
    BY DEF Counts
  <2>2. QED
    BY <2>1, RanksConcat
<1>3. QED
  BY <1>1, <1>2 DEF Channel!Put, Channel!Batch, Counts

LEMMA PublishStep ==
  ASSUME Counts, Counts', published' = sent, UNCHANGED <<read, sent>>
  PROVE  Channel!Publish
<1>1. Ranks(read, published) \o Ranks(published, sent) = Ranks(read, sent)
  BY RanksConcat DEF Counts
<1>2. Ranks(sent, sent) = << >>
  BY RanksEmpty DEF Counts
<1>3. QED
  BY <1>1, <1>2 DEF Channel!Publish, Counts

LEMMA TakeStep ==
  ASSUME Counts, Counts', read < published, read' = read + 1, UNCHANGED <<published, sent>>
  PROVE  Channel!Take
<1>1. /\ Ranks(read, published) # << >> /\ Head(Ranks(read, published)) = read + 1
      /\ Tail(Ranks(read, published)) = Ranks(read + 1, published)
  BY RanksHead DEF Counts
<1>2. QED
  BY <1>1 DEF Channel!Take, Counts

LEMMA ThroughStep ==
  ASSUME Counts, Counts', read = sent, published = sent,
         sent' = sent + 2, published' = sent + 2, read' = sent + 2
  PROVE  Channel!Through
<1>1. Ranks(sent, sent) = << >> /\ Ranks(sent + 2, sent + 2) = << >>
  BY RanksEmpty DEF Counts
<1>2. QED
  BY <1>1 DEF Channel!Through, Counts

-----------------------------------------------------------------------------
(* What the chain keeps alive and what it leaves: no argument block of an  *)
(* unread message is freed, every chunk is given back, and a producer that *)
(* waits comes back to a drained queue.                                    *)

LEMMA KickStep ==
  ASSUME CountInv, KickInv, [Next]_vars
  PROVE  KickInv'
<1>1. ASSUME UNCHANGED <<pReq, wData>>,
             pPc' \in {"alloc", "push", "notify", "wait", "join"} =>
               pPc \in {"alloc", "push", "notify", "wait", "join"}
      PROVE  KickInv'
  BY <1>1 DEF KickInv
<1>2. CASE pPc' \in {"idle", "gone", "aborted"}
  BY <1>2 DEF KickInv
<1>3. ASSUME NEW r \in Requests, Call(r) PROVE KickInv'
  BY <1>3 DEF Call, KickInv, historyVars
<1>4. ASSUME SwitchChunk PROVE KickInv'
  BY <1>1, <1>4 DEF SwitchChunk, threadVars
<1>5. ASSUME PlaceMessage PROVE KickInv'
  BY <1>5 DEF PlaceMessage, KickInv, KickKinds
<1>6. ASSUME PlaceData \/ Join \/ SetImmediateMode \/ RunConsumerThread \/ Destroy
      PROVE  pPc' \in {"idle", "gone", "aborted"}
  BY <1>6 DEF PlaceData, Join, SetImmediateMode, RunConsumerThread, Destroy
<1>7. ASSUME Push \/ Notify \/ WaitReturn PROVE KickInv'
  BY <1>1, <1>7 DEF Push, Notify, WaitReturn, historyVars
<1>8. ASSUME NEW n \in DataSlots, ImmediateSwitchChunk(n) \/ ImmediateSwitchFails(n) \/ ImmediateData(n)
      PROVE  pPc' \in {"idle", "gone", "aborted"}
  BY <1>8 DEF ImmediateSwitchChunk, ImmediateSwitchFails, ImmediateData, threadVars
<1>9. ASSUME ImmediateMessage \/ ImmediateFree PROVE pPc' \in {"idle", "gone", "aborted"}
  BY <1>9 DEF ImmediateMessage, ImmediateFree, threadVars
<1>10. ASSUME ConsumerStep \/ SpuriousWakeup PROVE UNCHANGED <<pPc, pReq, wData>>
  BY <1>10 DEF ConsumerStep, SpuriousWakeup, Lock, PullLocked, Sleep, PullAwake, Read,
     ExecPlain, ExecSwitch, ExecFree, ExecWait, ExecFinish, ExecTerminate, FlushEnd,
     producerSide
<1>11. ASSUME UNCHANGED vars PROVE UNCHANGED <<pPc, pReq, wData>>
  BY <1>11 DEF vars, threadVars, historyVars
<1>12. QED
  BY <1>1, <1>2, <1>3, <1>4, <1>5, <1>6, <1>7, <1>8, <1>9, <1>10, <1>11
     DEF Next, ProducerCall, ProducerStep

(* A chunk stays safe while the chain grows, shrinks or stands still and   *)
(* the chunk itself keeps its owner: a message placed now comes after.     *)
LEMMA SafeKept ==
  ASSUME CountInv, NEW c \in Chunks, NEW i \in Nat, i <= sent + 1, SafeBefore(c, i),
         \A k \in read..sent : where'[k] = where[k] /\ msg'[where[k]] = msg[where[k]],
         \A k \in read..sent : Live(k)' => Live(k),
         chunk'[c] = chunk[c], read' \in Nat, sent' \in Nat, read' >= read
  PROVE  SafeBefore(c, i)'
<1>1. read \in Nat /\ sent \in Nat /\ (CountInv => read <= sent)
  BY DEF CountInv, TypeOK, Counted
<1>2. chunk'[c] # "free"
  BY DEF SafeBefore
<1>3. ASSUME NEW j \in read'..sent', Live(j)', j < i, msg'[where'[j]].kind = "Free"
      PROVE  /\ chunk'[c] = "used"
             /\ \A s \in read'..sent' :
                  Live(s)' /\ IsSwitch(s)' /\ msg'[where'[s]].old = c => j < s
  <2>1. j \in read..sent
    BY <1>1, <1>3
  <2>2. Live(j) /\ msg[where[j]].kind = "Free"
    BY <1>3, <2>1
  <2>3. /\ chunk[c] = "used"
        /\ \A s \in read..sent : Live(s) /\ IsSwitch(s) /\ msg[where[s]].old = c => j < s
    BY <1>3, <2>1, <2>2 DEF SafeBefore
  <2>4. ASSUME NEW s \in read'..sent', Live(s)', IsSwitch(s)', msg'[where'[s]].old = c
        PROVE  j < s
    <3>1. CASE s \in read..sent
      BY <2>3, <2>4, <3>1 DEF IsSwitch
    <3>2. CASE s > sent
      BY <1>1, <2>1, <3>2
    <3>3. QED
      BY <1>1, <2>4, <3>1, <3>2
  <2>5. QED
    BY <2>3, <2>4
<1>4. QED
  BY <1>2, <1>3 DEF SafeBefore

(* The chunk the writer is in is safe for whatever comes next.             *)
LEMMA WriterSafe ==
  ASSUME CountInv, ChainInv, pPc # "gone"
  PROVE  SafeBefore(wChunk, sent + 1)
<1>1. chunk[wChunk] = "used"
  BY DEF ChainInv, Owned
<1>2. \A s \in read..sent : Live(s) /\ IsSwitch(s) => msg[where[s]].old # wChunk
  BY DEF ChainInv, SwitchesLeave
<1>3. QED
  BY <1>1, <1>2 DEF SafeBefore

(* A chunk of an argument block is a chunk.                                *)
LEMMA DataChunks ==
  ASSUME CountInv, ChainInv
  PROVE  wData \subseteq Chunks /\ \A i \in read..sent : msg[where[i]].data \subseteq Chunks
<1>1. ASSUME NEW i \in read..sent PROVE msg[where[i]].data \subseteq Chunks
  <2>1. msg[where[i]] \in Message
    BY Fresh DEF CountInv, TypeOK
  <2>2. QED
    BY <2>1 DEF Message
<1>2. QED
  BY <1>1 DEF CountInv, TypeOK
-----------------------------------------------------------------------------
(* Argument blocks.                                                        *)

(* A step that places no message, or messages without argument blocks that *)
(* are no Free messages, and frees nothing.                                *)
LEMMA BlocksKept ==
  ASSUME CountInv, ChainInv, BlocksSafe,
         \A k \in read..sent : where'[k] = where[k] /\ msg'[where[k]] = msg[where[k]],
         \A k \in read..sent : Live(k)' => Live(k),
         \A c \in Chunks : chunk[c] # "free" => chunk'[c] = chunk[c],
         read' \in Nat, sent' \in Nat, read' >= read, sent' >= sent,
         wData' \subseteq wData,
         \A k \in (sent + 1)..sent' : /\ msg'[where'[k]].kind # "Free"
                                      /\ msg'[where'[k]].data = {}
  PROVE  BlocksSafe'
<1>1. read \in Nat /\ sent \in Nat /\ read <= sent
  BY DEF CountInv, TypeOK, Counted
<1>2. ASSUME NEW c \in wData' PROVE SafeBefore(c, sent + 1)'
  <2>1. c \in Chunks /\ SafeBefore(c, sent + 1)
    BY <1>2, DataChunks DEF BlocksSafe
  <2>2. chunk'[c] = chunk[c] /\ sent + 1 \in Nat
    BY <1>1, <2>1 DEF SafeBefore
  <2>3. (chunk[c] # "free")' /\ (\A j \in read..sent : Live(j) /\ j < sent + 1 /\ msg[where[j]].kind = "Free" =>
                                   /\ chunk[c] = "used"
                                   /\ \A s \in read..sent : Live(s) /\ IsSwitch(s) /\ msg[where[s]].old = c => j < s)
    BY <2>1, <2>2 DEF SafeBefore
  <2>4. ASSUME NEW j \in read'..sent', Live(j)', msg'[where'[j]].kind = "Free"
        PROVE  /\ chunk'[c] = "used"
               /\ \A s \in read'..sent' :
                    Live(s)' /\ IsSwitch(s)' /\ msg'[where'[s]].old = c => j < s
    <3>1. j \in read..sent
      BY <1>1, <2>4
    <3>2. Live(j) /\ msg[where[j]].kind = "Free" /\ j < sent + 1
      BY <1>1, <2>4, <3>1
    <3>3. /\ chunk[c] = "used"
          /\ \A s \in read..sent : Live(s) /\ IsSwitch(s) /\ msg[where[s]].old = c => j < s
      BY <2>3, <3>1, <3>2
    <3>4. ASSUME NEW s \in read'..sent', Live(s)', IsSwitch(s)', msg'[where'[s]].old = c
          PROVE  j < s
      <4>1. CASE s \in read..sent
        BY <3>3, <3>4, <4>1 DEF IsSwitch
      <4>2. CASE s > sent
        BY <1>1, <3>1, <4>2
      <4>3. QED
        BY <1>1, <3>4, <4>1, <4>2
    <3>5. QED
      BY <2>2, <3>3, <3>4
  <2>5. QED
    BY <2>3, <2>4 DEF SafeBefore
<1>3. ASSUME NEW i \in read'..sent', Live(i)', NEW c \in msg'[where'[i]].data
      PROVE  SafeBefore(c, i)'
  <2>1. i \in read..sent
    BY <1>1, <1>3
  <2>2. Live(i) /\ c \in msg[where[i]].data /\ i \in Nat /\ i <= sent + 1
    BY <1>1, <1>3, <2>1
  <2>3. c \in Chunks /\ SafeBefore(c, i)
    BY <2>1, <2>2, DataChunks DEF BlocksSafe
  <2>4. chunk'[c] = chunk[c]
    BY <2>3 DEF SafeBefore
  <2>5. QED
    BY <2>2, <2>3, <2>4, SafeKept
<1>4. QED
  BY <1>2, <1>3 DEF BlocksSafe
LEMMA PlaceMessageBlocks ==
  ASSUME CountInv, ChainInv, DataInv, PlaceMessage
  PROVE  BlocksSafe'
<1> DEFINE m == Plain(sent + 1, pReq.kind, IF pReq.kind = "User" THEN wData ELSE {})
<1>1. /\ sent' = sent + 1 /\ UNCHANGED <<read, chunk, cPc>>
      /\ wData' = wData \ (IF pReq.kind = "User" THEN wData ELSE {})
      /\ pPc = "alloc" /\ sent \in Nat /\ read \in Nat /\ read <= sent
  BY DEF PlaceMessage, CountInv, TypeOK, Counted
<1>2. /\ \A k \in read..sent : where'[k] = where[k] /\ msg'[where[k]] = msg[where[k]]
      /\ msg'[where'[sent + 1]] = m
  BY PlaceMessagePlaces
<1>3. \A k \in read..sent : Live(k)' => Live(k)
  BY <1>1 DEF Live
<1>4. /\ m.kind = pReq.kind /\ m.kind # "Switch"
      /\ m.data = IF pReq.kind = "User" THEN wData ELSE {}
      /\ pReq.kind = "Free" => wData = {}
  BY <1>1 DEF Plain, DataInv, KickInv, KickKinds, PlaceMessage, CountInv, TypeOK, Requests
<1> HIDE DEF m
<1>5. ASSUME NEW c \in wData, NEW n \in Nat, n = sent + 1
      PROVE  SafeBefore(c, n)'
  <2>1. c \in Chunks /\ SafeBefore(c, n)
    BY <1>5, DataChunks DEF DataInv, BlocksSafe
  <2>2. n <= sent + 1 /\ read' >= read /\ read' \in Nat /\ sent' \in Nat
    BY <1>1, <1>5
  <2>3. chunk'[c] = chunk[c]
    BY <1>1
  <2>4. QED
    BY <1>2, <1>3, <2>1, <2>2, <2>3, SafeKept
<1>6. ASSUME NEW c \in wData' PROVE SafeBefore(c, sent + 1)'
  <2>0. PICK n \in Nat : n = sent + 1
    BY <1>1
  <2>1. c \in wData /\ pReq.kind # "Free"
    BY <1>1, <1>4, <1>6
  <2>2. SafeBefore(c, n)'
    BY <1>5, <2>0, <2>1
  <2>3. ASSUME NEW j \in read'..sent', Live(j)', msg'[where'[j]].kind = "Free"
        PROVE  j < sent + 1
    <3>1. j # sent + 1
      BY <1>2, <1>4, <2>1, <2>3
    <3>2. QED
      BY <1>1, <3>1
  <2>4. QED
    BY <2>0, <2>2, <2>3 DEF SafeBefore
<1>7. ASSUME NEW i \in read'..sent', Live(i)', NEW c \in msg'[where'[i]].data
      PROVE  SafeBefore(c, i)'
  <2>1. CASE i = sent + 1
    <3>1. c \in wData /\ i \in Nat
      BY <1>1, <1>2, <1>4, <1>7, <2>1
    <3>2. QED
      BY <1>5, <2>1, <3>1
  <2>2. CASE i \in read..sent
    <3>1. Live(i) /\ c \in msg[where[i]].data /\ i \in Nat /\ i <= sent + 1
      BY <1>1, <1>2, <1>3, <1>7, <2>2
    <3>2. c \in Chunks /\ SafeBefore(c, i)
      BY <2>2, <3>1, DataChunks DEF DataInv, BlocksSafe
    <3>3. chunk'[c] = chunk[c] /\ read' >= read /\ read' \in Nat /\ sent' \in Nat
      BY <1>1
    <3>4. QED
      BY <1>2, <1>3, <3>1, <3>2, <3>3, SafeKept
  <2>3. QED
    BY <1>1, <2>1, <2>2
<1>8. QED
  BY <1>6, <1>7 DEF BlocksSafe

LEMMA PlaceDataBlocks ==
  ASSUME CountInv, ChainInv, DataInv, wData' = wData \cup {wChunk}, pPc # "gone",
         UNCHANGED <<msg, chunk, where, sent, read, cPc>>
  PROVE  BlocksSafe'
<1>1. /\ read \in Nat /\ sent \in Nat /\ wChunk \in Chunks /\ sent + 1 \in Nat
      /\ sent + 1 <= sent + 1 /\ read' >= read /\ read' \in Nat /\ sent' \in Nat
  BY DEF CountInv, TypeOK
<1>2. /\ \A k \in read..sent : where'[k] = where[k] /\ msg'[where[k]] = msg[where[k]]
      /\ \A k \in read..sent : Live(k)' => Live(k)
      /\ \A c \in Chunks : chunk'[c] = chunk[c]
  BY DEF Live
<1>3. ASSUME NEW c \in wData' PROVE SafeBefore(c, sent + 1)'
  <2>1. c \in Chunks /\ SafeBefore(c, sent + 1)
    BY <1>1, <1>3, DataChunks, WriterSafe DEF DataInv, BlocksSafe
  <2>2. QED
    BY <1>1, <1>2, <2>1, SafeKept
<1>4. ASSUME NEW i \in read..sent, Live(i)', NEW c \in msg[where[i]].data
      PROVE  SafeBefore(c, i)'
  <2>1. Live(i) /\ c \in Chunks /\ SafeBefore(c, i) /\ i \in Nat /\ i <= sent + 1
    BY <1>1, <1>2, <1>4, DataChunks DEF DataInv, BlocksSafe
  <2>2. QED
    BY <1>1, <1>2, <2>1, SafeKept
<1>5. QED
  BY <1>3, <1>4 DEF BlocksSafe

(* The message that leaves a chunk stashes it, and no Free message is left *)
(* in front of the messages whose blocks it holds.                         *)
LEMMA ExecSwitchBlocks ==
  ASSUME CountInv, ChainInv, DataInv, ExecSwitch
  PROVE  BlocksSafe'
<1> DEFINE old == msg[rLast].old
<1>1. /\ chunk' = [chunk EXCEPT ![old] = "stashed"] /\ cPc = "exec" /\ cPc' # "exec"
      /\ msg[rLast].kind = "Switch" /\ UNCHANGED <<msg, where, sent, read, wData>>
  BY DEF ExecSwitch, Recycled, producerSide
<1>2. /\ read \in read..sent /\ Live(read) /\ IsSwitch(read) /\ rLast = where[read]
      /\ read \in Nat /\ sent \in Nat /\ chunk \in [Chunks -> {"free", "used", "stashed"}]
  BY <1>1 DEF CountInv, TypeOK, Counted, Live, IsSwitch, ChainInv, Chain
<1>3. \A i \in read..sent : Live(i)' => Live(i) /\ i > read
  BY <1>1, <1>2 DEF Live
<1>4. ASSUME NEW c \in Chunks, NEW i \in Nat, i <= sent + 1, SafeBefore(c, i)
      PROVE  SafeBefore(c, i)'
  <2>1. CASE c # old
    <3>1. chunk'[c] = chunk[c]
      BY <1>1, <1>2, <2>1
    <3>2. /\ \A k \in read..sent : where'[k] = where[k] /\ msg'[where[k]] = msg[where[k]]
          /\ read' \in Nat /\ sent' \in Nat /\ read' >= read
      BY <1>1, <1>2
    <3>3. QED
      BY <1>3, <1>4, <3>1, <3>2, SafeKept
  <2>2. CASE c = old
    <3>1. chunk'[c] = "stashed"
      BY <1>1, <1>2, <2>2
    <3>2. ASSUME NEW j \in read..sent, Live(j)', j < i, msg[where[j]].kind = "Free"
          PROVE  FALSE
      <4>1. Live(j) /\ j > read
        BY <1>3, <3>2
      <4>2. j < read
        BY <1>2, <1>4, <2>2, <3>2, <4>1 DEF SafeBefore
      <4>3. QED
        BY <1>2, <4>1, <4>2
    <3>3. QED
      BY <1>1, <3>1, <3>2 DEF SafeBefore
  <2>3. QED
    BY <2>1, <2>2
<1>5. ASSUME NEW c \in wData, NEW n \in Nat, n = sent + 1
      PROVE  SafeBefore(c, n)'
  <2>1. c \in Chunks /\ SafeBefore(c, n) /\ n <= sent + 1 /\ n > read
    BY <1>2, <1>5, DataChunks DEF DataInv, BlocksSafe
  <2>2. QED
    BY <1>4, <2>1
<1>6. ASSUME NEW i \in read..sent, Live(i)', NEW c \in msg[where[i]].data
      PROVE  SafeBefore(c, i)'
  <2>1. Live(i) /\ c \in Chunks /\ SafeBefore(c, i) /\ i \in Nat /\ i <= sent + 1
    BY <1>2, <1>3, <1>6, DataChunks DEF DataInv, BlocksSafe
  <2>2. QED
    BY <1>4, <2>1
<1>7. QED
  <2>1. sent + 1 \in Nat /\ sent' = sent
    BY <1>1, <1>2
  <2>2. QED
    BY <1>1, <1>5, <1>6, <2>1 DEF BlocksSafe

(* A Free message finds the blocks of the messages behind it in use.       *)
LEMMA ExecFreeBlocks ==
  ASSUME CountInv, ChainInv, DataInv, ExecFree
  PROVE  BlocksSafe'
<1>1. /\ chunk' = Freed(chunk) /\ cPc = "exec" /\ cPc' # "exec"
      /\ msg[rLast].kind = "Free" /\ UNCHANGED <<msg, where, sent, read, wData>>
  BY DEF ExecFree, producerSide
<1>2. /\ read \in read..sent /\ Live(read) /\ rLast = where[read]
      /\ read \in Nat /\ sent \in Nat
      /\ \A k \in read..sent : where'[k] = where[k] /\ msg'[where[k]] = msg[where[k]]
      /\ read' \in Nat /\ sent' \in Nat /\ read' >= read
  BY <1>1 DEF CountInv, TypeOK, Counted, Live, ChainInv, Chain
<1>3. \A i \in read..sent : Live(i)' => Live(i) /\ i > read
  BY <1>1, <1>2 DEF Live
<1>4. ASSUME NEW c \in Chunks, NEW i \in Nat, i <= sent + 1, i > read, SafeBefore(c, i)
      PROVE  SafeBefore(c, i)'
  <2>1. chunk[c] = "used"
    BY <1>1, <1>2, <1>4 DEF SafeBefore
  <2>2. chunk'[c] = chunk[c]
    BY <1>1, <2>1 DEF Freed
  <2>3. QED
    BY <1>2, <1>3, <1>4, <2>2, SafeKept
<1>5. ASSUME NEW c \in wData, NEW n \in Nat, n = sent + 1
      PROVE  SafeBefore(c, n)'
  <2>1. c \in Chunks /\ SafeBefore(c, n) /\ n <= sent + 1 /\ n > read
    BY <1>2, <1>5, DataChunks DEF DataInv, BlocksSafe
  <2>2. QED
    BY <1>4, <2>1
<1>6. ASSUME NEW i \in read..sent, Live(i)', NEW c \in msg[where[i]].data
      PROVE  SafeBefore(c, i)'
  <2>1. Live(i) /\ c \in Chunks /\ SafeBefore(c, i) /\ i \in Nat /\ i <= sent + 1 /\ i > read
    BY <1>2, <1>3, <1>6, DataChunks DEF DataInv, BlocksSafe
  <2>2. QED
    BY <1>4, <2>1
<1>7. QED
  <2>1. sent + 1 \in Nat /\ sent' = sent
    BY <1>1, <1>2
  <2>2. QED
    BY <1>1, <1>5, <1>6, <2>1 DEF BlocksSafe
(* With no message left to execute nothing frees a block.                  *)
LEMMA QuietBlocks ==
  ASSUME \A j \in read'..sent' : ~Live(j)', \A c \in wData' : chunk'[c] # "free"
  PROVE  BlocksSafe'
BY DEF BlocksSafe, SafeBefore

(* A step that changes neither the chain nor the blocks.                   *)
LEMMA BlocksStutter ==
  ASSUME CountInv, ChainInv, DataInv, UNCHANGED <<msg, where, sent, read, chunk>>,
         wData' \subseteq wData, cPc' = "exec" => cPc = "exec"
  PROVE  BlocksSafe'
<1>1. read \in Nat /\ sent \in Nat
  BY DEF CountInv, TypeOK
<1>2. \A k \in read..sent : Live(k)' => Live(k)
  BY DEF Live
<1>3. \A k \in (sent + 1)..sent' : FALSE
  BY <1>1
<1>4. BlocksSafe
  BY DEF DataInv
<1>5. QED
  BY <1>1, <1>2, <1>3, <1>4, BlocksKept

LEMMA SwitchChunkBlocks ==
  ASSUME CountInv, ChainInv, DataInv, SwitchChunk
  PROVE  BlocksSafe'
<1>1. PICK c \in Chunks : EnterChunk(c) /\ chunk' = [chunk EXCEPT ![c] = "used"]
  BY DEF SwitchChunk
<1>2. /\ UNCHANGED <<read, cPc, wData>> /\ pPc # "gone" /\ chunk[c] = "free"
      /\ sent' = sent + 2 /\ sent \in Nat /\ read \in Nat
      /\ chunk \in [Chunks -> {"free", "used", "stashed"}]
  BY <1>1 DEF SwitchChunk, EnterChunk, threadVars, CountInv, TypeOK
<1>3. /\ \A i \in read..sent : where'[i] = where[i] /\ msg'[where[i]] = msg[where[i]]
      /\ msg'[where'[sent + 1]] = SwitchMessage(sent + 1, wChunk, c)
      /\ msg'[where'[sent + 2]] = Plain(sent + 2, "Dummy", {})
  BY <1>1, <1>2, EnterChunkPlaces
<1>4. \A k \in read..sent : Live(k)' => Live(k)
  BY <1>2 DEF Live
<1>5. \A d \in Chunks : chunk[d] # "free" => chunk'[d] = chunk[d]
  BY <1>1, <1>2
<1>6. \A k \in (sent + 1)..sent' : k = sent + 1 \/ k = sent + 2
  BY <1>2
<1>7. \A k \in (sent + 1)..sent' : /\ msg'[where'[k]].kind # "Free"
                                   /\ msg'[where'[k]].data = {}
  BY <1>3, <1>6 DEF SwitchMessage, Plain
<1>8. BlocksSafe /\ read' \in Nat /\ sent' \in Nat /\ read' >= read /\ sent' >= sent
  BY <1>2 DEF DataInv
<1>9. QED
  BY <1>2, <1>3, <1>4, <1>5, <1>7, <1>8, BlocksKept

LEMMA ImmediateSwitchChunkBlocks ==
  ASSUME CountInv, ChainInv, DataInv, NEW n \in DataSlots, ImmediateSwitchChunk(n)
  PROVE  BlocksSafe'
<1>1. PICK c \in Chunks :
        /\ EnterChunk(c)
        /\ chunk' = Recycled([chunk EXCEPT ![c] = "used"], wChunk)
  BY DEF ImmediateSwitchChunk
<1>2. /\ UNCHANGED <<cPc, wData>> /\ cPc # "exec" /\ read = sent
      /\ sent' = sent + 2 /\ read' = read + 2 /\ sent \in Nat
      /\ chunk \in [Chunks -> {"free", "used", "stashed"}] /\ wChunk \in Chunks
  BY <1>1 DEF ImmediateSwitchChunk, EnterChunk, threadVars, CountInv, TypeOK, ModesExclusive
<1>3. \A j \in read'..sent' : ~Live(j)'
  BY <1>2 DEF Live
<1>4. \A d \in wData : d \in Chunks /\ chunk[d] # "free"
  BY DataChunks DEF DataInv, BlocksSafe, SafeBefore
<1>5. \A d \in wData' : chunk'[d] # "free"
  BY <1>1, <1>2, <1>4 DEF Recycled
<1>6. QED
  BY <1>3, <1>5, QuietBlocks

(* Detached, nothing unread has its blocks in the stash that is freed.     *)
LEMMA ImmediateFreeBlocks ==
  ASSUME CountInv, ChainInv, DataInv, DetachedUsed, ImmediateFree
  PROVE  BlocksSafe'
<1>1. /\ UNCHANGED <<msg, where, sent, read, cPc>> /\ wData' = {} /\ chunk' = Freed(chunk)
      /\ ~attached /\ pPc # "gone" /\ cPc # "exec" /\ read \in Nat /\ sent \in Nat
  BY DEF ImmediateFree, historyVars, threadVars, CountInv, TypeOK, ModesExclusive
<1>2. \A c \in Chunks : chunk[c] = "used" => chunk'[c] = "used"
  BY <1>1 DEF Freed
<1>3. ASSUME NEW i \in read..sent, Live(i), NEW c \in msg[where[i]].data
      PROVE  chunk'[c] = "used"
  <2>1. i \in (read + 1)..sent
    BY <1>1, <1>3 DEF Live
  <2>2. c \in Chunks
    BY DataChunks
  <2>3. QED
    BY <1>1, <1>2, <2>1, <2>2 DEF DetachedUsed
<1>4. ASSUME NEW i \in read..sent, Live(i), NEW c \in msg[where[i]].data
      PROVE  SafeBefore(c, i)'
  <2>1. chunk'[c] = "used" /\ SafeBefore(c, i)
    BY <1>3, <1>4 DEF DataInv, BlocksSafe
  <2>2. \A j : Live(j)' <=> Live(j)
    BY <1>1 DEF Live
  <2>3. QED
    BY <1>1, <2>1, <2>2 DEF SafeBefore, IsSwitch
<1>5. \A i \in read..sent : Live(i)' => Live(i)
  BY <1>1 DEF Live
<1>6. QED
  BY <1>1, <1>4, <1>5 DEF BlocksSafe

LEMMA ReadBlocks ==
  ASSUME CountInv, ChainInv, DataInv, Read
  PROVE  BlocksSafe'
<1>1. read' = read + 1 /\ UNCHANGED <<msg, chunk, where, sent, wData>>
  BY DEF Read, producerSide, memoryVars
<1>2. read < sent /\ read \in Nat /\ sent \in Nat
  BY ReadHasNext DEF Read
<1>3. ASSUME NEW c \in Chunks, NEW i \in Nat, i <= sent + 1, SafeBefore(c, i)
      PROVE  SafeBefore(c, i)'
  <2>1. \A j \in read'..sent' : Live(j)' => j \in read..sent /\ Live(j)
    BY <1>1, <1>2 DEF Live
  <2>2. QED
    BY <1>1, <1>3, <2>1 DEF SafeBefore, IsSwitch
<1>4. ASSUME NEW c \in wData, NEW n \in Nat, n = sent + 1 PROVE SafeBefore(c, n)'
  <2>1. c \in Chunks /\ SafeBefore(c, n) /\ n <= sent + 1
    BY <1>2, <1>4, DataChunks DEF DataInv, BlocksSafe
  <2>2. QED
    BY <1>3, <2>1
<1>5. ASSUME NEW i \in read'..sent', Live(i)', NEW c \in msg'[where'[i]].data
      PROVE  SafeBefore(c, i)'
  <2>1. i \in read..sent /\ Live(i) /\ i \in Nat /\ i <= sent + 1
    BY <1>1, <1>2, <1>5 DEF Live
  <2>2. c \in Chunks /\ SafeBefore(c, i)
    BY <1>1, <1>5, <2>1, DataChunks DEF DataInv, BlocksSafe
  <2>3. QED
    BY <1>3, <2>1, <2>2
<1>6. QED
  <2>1. sent + 1 \in Nat /\ sent' = sent
    BY <1>1, <1>2
  <2>2. QED
    BY <1>1, <1>4, <1>5, <2>1 DEF BlocksSafe
-----------------------------------------------------------------------------
(* The blocks in every reachable state.                                    *)

LEMMA DataInvInit == Init => DataInv
<1> SUFFICES ASSUME Init PROVE DataInv
  OBVIOUS
<1>1. KickInv
  BY DEF Init, KickInv
<1>2. /\ read = 1 /\ sent = 1 /\ cPc # "exec" /\ wData = {}
  BY DEF Init
<1>3. BlocksSafe
  BY <1>2 DEF BlocksSafe, Live
<1>4. QED
  BY <1>1, <1>3 DEF DataInv

LEMMA DataInvStep ==
  ASSUME CountInv, ChainInv, DataInv, DetachedUsed, [Next]_vars
  PROVE  DataInv'
<1> SUFFICES BlocksSafe'
  BY KickStep DEF DataInv
<1>1. ASSUME NEW r \in Requests, Call(r) PROVE BlocksSafe'
  BY <1>1, BlocksStutter DEF Call, memoryVars, historyVars
<1>2. ASSUME Push \/ Notify \/ WaitReturn \/ Join PROVE BlocksSafe'
  <2>1. /\ UNCHANGED <<msg, where, sent, read, chunk, wData>>
        /\ cPc' = "exec" => cPc = "exec"
    BY <1>2 DEF Push, Notify, WaitReturn, Join, memoryVars, historyVars
  <2>2. QED
    BY <2>1, BlocksStutter
<1>3. ASSUME SetImmediateMode \/ RunConsumerThread PROVE BlocksSafe'
  <2>1. /\ UNCHANGED <<msg, where, sent, read, chunk, wData>>
        /\ cPc' = "exec" => cPc = "exec"
    BY <1>3 DEF SetImmediateMode, RunConsumerThread, memoryVars, historyVars
  <2>2. QED
    BY <2>1, BlocksStutter
<1>4. ASSUME ImmediateMessage PROVE BlocksSafe'
  BY <1>4, BlocksStutter DEF ImmediateMessage, memoryVars, threadVars
<1>5. ASSUME ConsumerStep \/ SpuriousWakeup, ~ExecSwitch, ~ExecFree, ~Read
      PROVE  BlocksSafe'
  <2>1. /\ UNCHANGED <<msg, where, sent, read, chunk, wData>>
        /\ cPc' = "exec" => cPc = "exec"
    BY <1>5 DEF ConsumerStep, SpuriousWakeup, Lock, PullLocked, Sleep, PullAwake,
       ExecPlain, ExecWait, ExecFinish, ExecTerminate, FlushEnd, producerSide, memoryVars
  <2>2. QED
    BY <2>1, BlocksStutter
<1>6. ASSUME SwitchChunk PROVE BlocksSafe'
  BY <1>6, SwitchChunkBlocks
<1>7. ASSUME PlaceMessage PROVE BlocksSafe'
  BY <1>7, PlaceMessageBlocks
<1>8. ASSUME PlaceData PROVE BlocksSafe'
  <2>1. pPc # "gone" /\ wData' = wData \cup {wChunk}
        /\ UNCHANGED <<msg, chunk, where, sent, read, cPc>>
    BY <1>8 DEF PlaceData
  <2>2. QED
    BY <2>1, PlaceDataBlocks
<1>9. ASSUME NEW n \in DataSlots, ImmediateData(n) PROVE BlocksSafe'
  <2>1. pPc # "gone" /\ wData' = wData \cup {wChunk}
        /\ UNCHANGED <<msg, chunk, where, sent, read, cPc>>
    BY <1>9 DEF ImmediateData, threadVars
  <2>2. QED
    BY <2>1, PlaceDataBlocks
<1>10. ASSUME NEW n \in DataSlots, ImmediateSwitchChunk(n) PROVE BlocksSafe'
  BY <1>10, ImmediateSwitchChunkBlocks
<1>11. ASSUME Destroy PROVE BlocksSafe'
  <2>1. wData' = {} /\ UNCHANGED <<read, sent, cPc>> /\ cPc # "exec" /\ read = sent
        /\ read \in Nat
    BY <1>11 DEF Destroy, historyVars, CountInv, TypeOK, ModesExclusive
  <2>2. \A j \in read'..sent' : ~Live(j)'
    BY <2>1 DEF Live
  <2>3. QED
    BY <2>1, <2>2, QuietBlocks
<1>12. ASSUME ExecSwitch PROVE BlocksSafe'
  BY <1>12, ExecSwitchBlocks
<1>13. ASSUME ExecFree PROVE BlocksSafe'
  BY <1>13, ExecFreeBlocks
<1>14. ASSUME Read PROVE BlocksSafe'
  BY <1>14, ReadBlocks
<1>15. CASE UNCHANGED vars
  BY <1>15, BlocksStutter DEF vars, memoryVars, historyVars, threadVars
<1>16. ASSUME ImmediateFree PROVE BlocksSafe'
  BY <1>16, ImmediateFreeBlocks
<1>17. ASSUME NEW n \in DataSlots, ImmediateSwitchFails(n) PROVE BlocksSafe'
  BY <1>17, BlocksStutter DEF ImmediateSwitchFails, memoryVars, historyVars
<1>18. QED
  BY <1>16, <1>17, <1>1, <1>2, <1>3, <1>4, <1>5, <1>6, <1>7, <1>8, <1>9, <1>10, <1>11, <1>12, <1>13,
     <1>14, <1>15 DEF Next, ProducerCall, ProducerStep, ConsumerStep

-----------------------------------------------------------------------------
(* The account of chunks.                                                  *)

(* An unexecuted switch message gives chunk c back.                        *)
Leaving(c) == \E i \in read..sent : Live(i) /\ IsSwitch(i) /\ msg[where[i]].old = c

Account(c) == chunk[c] = "used" <=> (c = wChunk /\ pPc # "gone") \/ Leaving(c)

LEMMA AccountParts == AccountInv <=> \A c \in Chunks : Account(c)
BY DEF AccountInv, Account, Leaving

(* No switch message is placed or executed, and no chunk changes hands.    *)
LEMMA AccountKept ==
  ASSUME CountInv, AccountInv,
         \A i \in read..sent : where'[i] = where[i] /\ msg'[where[i]] = msg[where[i]],
         \A i \in read..sent : IsSwitch(i) => (Live(i)' <=> Live(i)),
         \A i \in (sent + 1)..sent' : ~IsSwitch(i)',
         \A c \in Chunks : chunk'[c] = "used" <=> chunk[c] = "used",
         read' \in Nat, sent' \in Nat, read' >= read, sent' >= sent,
         wChunk' = wChunk, pPc' = "gone" <=> pPc = "gone"
  PROVE  AccountInv'
<1>1. read \in Nat /\ sent \in Nat
  BY DEF CountInv, TypeOK
<1>2. ASSUME NEW c PROVE Leaving(c)' <=> Leaving(c)
  <2>1. ASSUME Leaving(c) PROVE Leaving(c)'
    <3>1. PICK i \in read..sent : Live(i) /\ IsSwitch(i) /\ msg[where[i]].old = c
      BY <2>1 DEF Leaving
    <3>2. Live(i)' /\ IsSwitch(i)' /\ msg'[where'[i]].old = c
      BY <3>1 DEF IsSwitch
    <3>3. i \in read'..sent'
      BY <3>2 DEF Live
    <3>4. QED
      BY <3>2, <3>3 DEF Leaving
  <2>2. ASSUME Leaving(c)' PROVE Leaving(c)
    <3>1. PICK i \in read'..sent' : Live(i)' /\ IsSwitch(i)' /\ msg'[where'[i]].old = c
      BY <2>2 DEF Leaving
    <3>2. i \in read..sent
      BY <1>1, <3>1
    <3>3. IsSwitch(i) /\ msg[where[i]].old = c
      BY <3>1, <3>2 DEF IsSwitch
    <3>4. QED
      BY <3>1, <3>2, <3>3 DEF Leaving
  <2>3. QED
    BY <2>1, <2>2
<1>3. QED
  BY <1>2, AccountParts DEF AccountInv, Account, Leaving

(* The same for a step that leaves the chain as it is.                     *)
LEMMA AccountStutter ==
  ASSUME CountInv, AccountInv, UNCHANGED <<msg, where, sent, read, wChunk>>,
         \A c \in Chunks : chunk'[c] = "used" <=> chunk[c] = "used",
         \/ cPc' = "exec" <=> cPc = "exec"
         \/ cPc = "exec" /\ cPc' # "exec" /\ ~IsSwitch(read),
         pPc' = "gone" <=> pPc = "gone"
  PROVE  AccountInv'
<1>1. read \in Nat /\ sent \in Nat
  BY DEF CountInv, TypeOK
<1>2. \A i \in read..sent : IsSwitch(i) => (Live(i)' <=> Live(i))
  BY <1>1 DEF Live
<1>3. \A i \in (sent + 1)..sent' : ~IsSwitch(i)'
  BY <1>1
<1>4. QED
  BY <1>1, <1>2, <1>3, AccountKept

(* The chunk the writer leaves is the switch message's to give back.       *)
LEMMA SwitchChunkAccount ==
  ASSUME CountInv, ChainInv, AccountInv, SwitchChunk
  PROVE  AccountInv'
<1>1. PICK c \in Chunks : EnterChunk(c) /\ chunk' = [chunk EXCEPT ![c] = "used"]
  BY DEF SwitchChunk
<1>2. /\ UNCHANGED <<read, cPc, pPc>> /\ pPc # "gone" /\ wChunk' = c
      /\ sent' = sent + 2 /\ sent \in Nat /\ read \in Nat /\ read <= sent
      /\ chunk \in [Chunks -> {"free", "used", "stashed"}] /\ wChunk \in Chunks
  BY <1>1 DEF SwitchChunk, EnterChunk, threadVars, CountInv, TypeOK, Counted
<1>3. /\ \A i \in read..sent : where'[i] = where[i] /\ msg'[where[i]] = msg[where[i]]
      /\ msg'[where'[sent + 1]] = SwitchMessage(sent + 1, wChunk, c)
      /\ msg'[where'[sent + 2]] = Plain(sent + 2, "Dummy", {})
      /\ c # wChunk
  BY <1>1, <1>2, EnterChunkPlaces
<1>4. /\ \A i : i = sent + 1 => IsSwitch(i)' /\ msg'[where'[i]].old = wChunk
      /\ \A i : i = sent + 2 => ~IsSwitch(i)'
  BY <1>3 DEF IsSwitch, SwitchMessage, Plain
<1>5. \A i \in read'..sent' : i \in read..sent \/ i = sent + 1 \/ i = sent + 2
  BY <1>2
<1>6. \A i \in read..sent : /\ i \in read'..sent'
                            /\ Live(i)' <=> Live(i)
                            /\ IsSwitch(i)' <=> IsSwitch(i)
  BY <1>2, <1>3 DEF Live, IsSwitch
<1>7. \A i : i = sent + 1 => i \in read'..sent' /\ Live(i)'
  BY <1>2 DEF Live
<1>8. ASSUME NEW d \in Chunks PROVE Leaving(d)' <=> Leaving(d) \/ d = wChunk
  <2>1. ASSUME Leaving(d)' PROVE Leaving(d) \/ d = wChunk
    <3>1. PICK i \in read'..sent' : Live(i)' /\ IsSwitch(i)' /\ msg'[where'[i]].old = d
      BY <2>1 DEF Leaving
    <3>2. CASE i \in read..sent
      BY <1>3, <1>6, <3>1, <3>2 DEF Leaving
    <3>3. CASE i = sent + 1
      BY <1>4, <3>1, <3>3
    <3>4. QED
      BY <1>4, <1>5, <3>1, <3>2, <3>3
  <2>2. ASSUME Leaving(d) PROVE Leaving(d)'
    <3>1. PICK i \in read..sent : Live(i) /\ IsSwitch(i) /\ msg[where[i]].old = d
      BY <2>2 DEF Leaving
    <3>2. QED
      BY <1>3, <1>6, <3>1 DEF Leaving
  <2>3. ASSUME d = wChunk PROVE Leaving(d)'
    <3>1. PICK i : i = sent + 1
      OBVIOUS
    <3>2. QED
      BY <1>4, <1>7, <2>3, <3>1 DEF Leaving
  <2>4. QED
    BY <2>1, <2>2, <2>3
<1>9. ASSUME NEW d \in Chunks PROVE Account(d)'
  <2>1. Account(d) /\ chunk[c] = "free" /\ chunk[wChunk] = "used"
    BY <1>1, <1>2, AccountParts DEF EnterChunk, ChainInv, Owned
  <2>2. chunk'[d] = "used" <=> d = c \/ chunk[d] = "used"
    BY <1>1, <1>2
  <2>3. QED
    BY <1>2, <1>8, <2>1, <2>2 DEF Account
<1>10. QED
  BY <1>9, AccountParts DEF AccountInv, Account, Leaving

LEMMA PlaceMessageAccount ==
  ASSUME CountInv, ChainInv, AccountInv, PlaceMessage
  PROVE  AccountInv'
<1>1. /\ UNCHANGED <<read, cPc, wChunk, chunk>> /\ pPc = "alloc" /\ pPc' # "gone"
      /\ sent' = sent + 1 /\ sent \in Nat /\ read \in Nat
  BY DEF PlaceMessage, CountInv, TypeOK
<1>2. /\ \A i \in read..sent : where'[i] = where[i] /\ msg'[where[i]] = msg[where[i]]
      /\ msg'[where'[sent + 1]].kind = pReq.kind
  BY PlaceMessagePlaces DEF Plain
<1>3. pReq.kind # "Switch"
  BY DEF CountInv, TypeOK, Requests, KickKinds
<1>4. \A i \in (sent + 1)..sent' : ~IsSwitch(i)'
  BY <1>1, <1>2, <1>3 DEF IsSwitch
<1>5. \A i \in read..sent : Live(i)' <=> Live(i)
  BY <1>1 DEF Live
<1>6. QED
  BY <1>1, <1>2, <1>4, <1>5, AccountKept

(* With nothing left to execute, the writer's chunk is the only one.       *)
LEMMA DrainedAccount ==
  ASSUME CountInv, read = sent, cPc # "exec"
  PROVE  \A c : ~Leaving(c)
BY DEF CountInv, TypeOK, Leaving, Live

LEMMA ImmediateSwitchChunkAccount ==
  ASSUME CountInv, ChainInv, AccountInv, NEW n \in DataSlots, ImmediateSwitchChunk(n)
  PROVE  AccountInv'
<1>1. PICK c \in Chunks :
        /\ EnterChunk(c)
        /\ chunk' = Recycled([chunk EXCEPT ![c] = "used"], wChunk)
  BY DEF ImmediateSwitchChunk
<1>2. /\ UNCHANGED <<cPc, pPc>> /\ cPc # "exec" /\ pPc = "idle" /\ read = sent
      /\ sent' = sent + 2 /\ read' = read + 2 /\ sent \in Nat /\ wChunk' = c
      /\ chunk \in [Chunks -> {"free", "used", "stashed"}] /\ wChunk \in Chunks
  BY <1>1 DEF ImmediateSwitchChunk, EnterChunk, threadVars, CountInv, TypeOK, ModesExclusive
<1>3. c # wChunk
  BY <1>1, <1>2, EnterChunkPlaces
<1>4. \A d : ~Leaving(d) /\ ~Leaving(d)'
  BY <1>2, DrainedAccount DEF Leaving, Live
<1>5. \A d \in Chunks : chunk[d] = "used" <=> d = wChunk
  BY <1>2, <1>4, AccountParts DEF Account
<1>6. \A d \in Chunks : chunk'[d] = "used" <=> d = c
  BY <1>1, <1>2, <1>3, <1>5 DEF Recycled
<1>7. QED
  BY <1>2, <1>4, <1>6 DEF AccountInv, Leaving

LEMMA DestroyAccount ==
  ASSUME CountInv, AccountInv, Destroy
  PROVE  AccountInv'
<1>1. /\ chunk' = [chunk EXCEPT ![wChunk] = "stashed"] /\ pPc = "idle" /\ pPc' = "gone"
      /\ UNCHANGED <<wChunk, msg, where, sent, read, cPc>>
      /\ read = sent /\ cPc # "exec"
  BY DEF Destroy, Recycled, CountInv, TypeOK, ModesExclusive, writerVars, historyVars
<1>2. chunk \in [Chunks -> {"free", "used", "stashed"}]
  BY DEF CountInv, TypeOK
<1>3. \A d : ~Leaving(d) /\ ~Leaving(d)'
  BY <1>1, DrainedAccount DEF Leaving, Live, IsSwitch
<1>4. \A d \in Chunks : chunk[d] = "used" <=> d = wChunk
  BY <1>1, <1>3, AccountParts DEF Account
<1>5. QED
  BY <1>1, <1>2, <1>3, <1>4 DEF AccountInv, Leaving

(* A message that begins to execute was live before.                       *)
LEMMA ReadAccount ==
  ASSUME CountInv, ChainInv, AccountInv, Read
  PROVE  AccountInv'
<1>1. /\ read' = read + 1 /\ cPc = "check" /\ cPc' = "exec"
      /\ UNCHANGED <<wChunk, msg, chunk, where, sent, pPc>>
  BY DEF Read, producerSide, writerVars, memoryVars
<1>2. read < sent /\ read \in Nat /\ sent \in Nat
  BY ReadHasNext DEF Read
<1>3. \A i \in read..sent : Live(i)' <=> Live(i)
  BY <1>1, <1>2 DEF Live
<1>4. \A i \in (sent + 1)..sent' : ~IsSwitch(i)'
  BY <1>1, <1>2
<1>5. read' \in Nat /\ sent' \in Nat /\ read' >= read /\ sent' >= sent
  BY <1>1, <1>2
<1>6. QED
  BY <1>1, <1>3, <1>4, <1>5, AccountKept

(* The switch message gives back the chunk that no other accounts for.     *)
LEMMA ExecSwitchAccount ==
  ASSUME CountInv, ChainInv, AccountInv, ExecSwitch
  PROVE  AccountInv'
<1> DEFINE old == msg[rLast].old
<1>1. /\ chunk' = [chunk EXCEPT ![old] = "stashed"] /\ cPc = "exec" /\ cPc' = "check"
      /\ msg[rLast].kind = "Switch"
      /\ UNCHANGED <<wChunk, msg, where, sent, read, pPc>>
  BY DEF ExecSwitch, Recycled, producerSide, writerVars
<1>2. /\ read \in read..sent /\ Live(read) /\ IsSwitch(read) /\ rLast = where[read]
      /\ read \in Nat /\ sent \in Nat /\ chunk \in [Chunks -> {"free", "used", "stashed"}]
  BY <1>1 DEF CountInv, TypeOK, Counted, Live, IsSwitch, ChainInv, Chain
<1>3. old # wChunk /\ \A j \in (read + 1)..sent : ChunkOf(where[j]) # old
  BY <1>2 DEF ChainInv, SwitchesLeave
<1>4. \A i \in read..sent : Live(i)' <=> Live(i) /\ i # read
  BY <1>1, <1>2 DEF Live
<1>5. \A i \in (read + 1)..sent : Live(i) /\ IsSwitch(i) => msg[where[i]].old # old
  BY <1>2, <1>3 DEF ChainInv, SwitchesLeave
<1>6. ASSUME NEW c PROVE Leaving(c)' <=> Leaving(c) /\ c # old
  <2>1. ASSUME Leaving(c)' PROVE Leaving(c) /\ c # old
    <3>1. PICK i \in read..sent : Live(i)' /\ IsSwitch(i) /\ msg[where[i]].old = c
      BY <1>1, <2>1 DEF Leaving, IsSwitch
    <3>2. Live(i) /\ i \in (read + 1)..sent
      BY <1>2, <1>4, <3>1
    <3>3. QED
      BY <1>5, <3>1, <3>2 DEF Leaving
  <2>2. ASSUME Leaving(c), c # old PROVE Leaving(c)'
    <3>1. PICK i \in read..sent : Live(i) /\ IsSwitch(i) /\ msg[where[i]].old = c
      BY <2>2 DEF Leaving
    <3>2. i # read
      BY <1>2, <2>2, <3>1
    <3>3. QED
      BY <1>1, <1>4, <3>1, <3>2 DEF Leaving, IsSwitch
  <2>3. QED
    BY <2>1, <2>2
<1>7. ASSUME NEW c \in Chunks PROVE Account(c)'
  <2>1. Account(c)
    BY AccountParts
  <2>2. chunk'[c] = "used" <=> chunk[c] = "used" /\ c # old
    BY <1>1, <1>2
  <2>3. QED
    BY <1>1, <1>3, <1>6, <2>1, <2>2 DEF Account
<1>8. QED
  BY <1>7 DEF AccountInv, Account, Leaving

(* Freeing the stash touches no chunk in use.                              *)
LEMMA FreedKeepsUsed ==
  ASSUME chunk' = Freed(chunk)
  PROVE  \A c \in Chunks : chunk'[c] = "used" <=> chunk[c] = "used"
BY DEF Freed

LEMMA AccountStep ==
  ASSUME CountInv, ChainInv, AccountInv, [Next]_vars
  PROVE  AccountInv'
<1>1. ASSUME NEW r \in Requests, Call(r) PROVE AccountInv'
  BY <1>1, AccountStutter DEF Call, writerVars, memoryVars, historyVars
<1>2. ASSUME Push \/ WaitReturn \/ Join PROVE AccountInv'
  <2>1. /\ UNCHANGED <<msg, where, sent, read, wChunk, chunk>>
        /\ pPc # "gone" /\ pPc' # "gone" /\ (cPc' = "exec" <=> cPc = "exec")
    BY <1>2 DEF Push, WaitReturn, Join, writerVars, memoryVars, historyVars
  <2>2. QED
    BY <2>1, AccountStutter
<1>3. ASSUME Notify PROVE AccountInv'
  BY <1>3, AccountStutter DEF Notify, writerVars, memoryVars, historyVars
<1>4. ASSUME SetImmediateMode \/ RunConsumerThread PROVE AccountInv'
  <2>1. /\ UNCHANGED <<msg, where, sent, read, wChunk, chunk>>
        /\ pPc # "gone" /\ pPc' # "gone" /\ (cPc' = "exec" <=> cPc = "exec")
    BY <1>4 DEF SetImmediateMode, RunConsumerThread, writerVars, memoryVars, historyVars,
       CountInv, ModesExclusive
  <2>2. QED
    BY <2>1, AccountStutter
<1>5. ASSUME ImmediateMessage PROVE AccountInv'
  BY <1>5, AccountStutter DEF ImmediateMessage, writerVars, memoryVars, threadVars
<1>6. ASSUME PlaceData PROVE AccountInv'
  BY <1>6, AccountStutter DEF PlaceData
<1>7. ASSUME NEW n \in DataSlots, ImmediateData(n) PROVE AccountInv'
  BY <1>7, AccountStutter DEF ImmediateData, threadVars
<1>8. ASSUME ImmediateFree PROVE AccountInv'
  BY <1>8, AccountStutter, FreedKeepsUsed DEF ImmediateFree, writerVars, threadVars, historyVars
<1>9. ASSUME Lock \/ PullLocked \/ Sleep \/ PullAwake \/ SpuriousWakeup \/ FlushEnd
      PROVE  AccountInv'
  <2>1. /\ UNCHANGED <<msg, where, sent, read, wChunk, chunk, pPc>>
        /\ cPc # "exec" /\ cPc' # "exec"
    BY <1>9 DEF Lock, PullLocked, Sleep, PullAwake, SpuriousWakeup, FlushEnd,
       producerSide, writerVars, memoryVars
  <2>2. QED
    BY <2>1, AccountStutter
<1>10. ASSUME ExecPlain \/ ExecFree \/ ExecWait \/ ExecFinish \/ ExecTerminate
       PROVE  AccountInv'
  <2>1. /\ UNCHANGED <<msg, where, sent, read, wChunk, pPc>>
        /\ cPc = "exec" /\ cPc' # "exec" /\ msg[rLast].kind # "Switch"
    BY <1>10 DEF ExecPlain, ExecFree, ExecWait, ExecFinish, ExecTerminate,
       producerSide, writerVars, memoryVars
  <2>2. \A c \in Chunks : chunk'[c] = "used" <=> chunk[c] = "used"
    BY <1>10, FreedKeepsUsed DEF ExecPlain, ExecFree, ExecWait, ExecFinish, ExecTerminate,
       memoryVars
  <2>3. ~IsSwitch(read)
    BY <2>1 DEF IsSwitch, ChainInv, Chain
  <2>4. QED
    BY <2>1, <2>2, <2>3, AccountStutter
<1>11. CASE UNCHANGED vars
  BY <1>11, AccountStutter DEF vars, writerVars, memoryVars, historyVars, threadVars
<1>12. ASSUME NEW n \in DataSlots, ImmediateSwitchFails(n) PROVE AccountInv'
  BY <1>12, AccountStutter DEF ImmediateSwitchFails, writerVars, memoryVars, historyVars
<1>13. QED
  BY <1>12, <1>1, <1>2, <1>3, <1>4, <1>5, <1>6, <1>7, <1>8, <1>9, <1>10, <1>11,
     SwitchChunkAccount, PlaceMessageAccount, ImmediateSwitchChunkAccount,
     DestroyAccount, ReadAccount, ExecSwitchAccount
     DEF Next, ProducerCall, ProducerStep, ConsumerStep

LEMMA AccountInit == Init => AccountInv
<1> SUFFICES ASSUME Init PROVE AccountInv
  OBVIOUS
<1>1. \A c : ~Leaving(c)
  <2>1. read = 1 /\ sent = 1 /\ cPc = "none"
    BY DEF Init
  <2>2. QED
    BY <2>1 DEF Leaving, Live
<1>2. \A c \in Chunks : chunk[c] = "used" <=> c = wChunk
  BY DEF Init
<1>3. pPc # "gone"
  BY DEF Init
<1>4. QED
  BY <1>1, <1>2, <1>3 DEF AccountInv, Leaving

-----------------------------------------------------------------------------
(* The handshake.                                                          *)

(* Whose message is being executed, and what a blocking one leaves.        *)
LEMMA Executing ==
  ASSUME CountInv, ChainInv, BlockedLast, cPc = "exec", msg[rLast].kind \in Blocking
  PROVE  read = sent /\ pPc \in {"push", "notify", "wait"} /\ pReq.kind = msg[rLast].kind
<1>1. read \in read..sent /\ Live(read) /\ rLast = where[read]
  BY DEF CountInv, TypeOK, Counted, Live, ChainInv, Chain
<1>2. QED
  BY <1>1 DEF BlockedLast

(* No message is placed, and the producer does not give up waiting.        *)
LEMMA BlockedKept ==
  ASSUME CountInv, BlockedLast, UNCHANGED <<msg, where, sent, pReq>>,
         read' \in Nat, read' >= read,
         \A i \in read..sent : Live(i)' => Live(i),
         pPc \in {"push", "notify", "wait"} /\ pReq.kind \in Blocking =>
           pPc' \in {"push", "notify", "wait"} \/ \A i \in read..sent : ~Live(i)'
  PROVE  BlockedLast'
<1>1. ASSUME NEW i \in read'..sent', Live(i)', msg'[where'[i]].kind \in Blocking
      PROVE  i = sent' /\ pPc' \in {"push", "notify", "wait"} /\ pReq'.kind = msg'[where'[i]].kind
  <2>1. i \in read..sent /\ Live(i)
    BY <1>1 DEF CountInv, TypeOK
  <2>2. i = sent /\ pPc \in {"push", "notify", "wait"} /\ pReq.kind = msg[where[i]].kind
    BY <1>1, <2>1 DEF BlockedLast
  <2>3. QED
    BY <1>1, <2>1, <2>2
<1>2. QED
  BY <1>1 DEF BlockedLast

(* No blocking message is there when the producer is somewhere else.       *)
LEMMA BlockedNone ==
  ASSUME BlockedLast, pPc \notin {"push", "notify", "wait"}
  PROVE  \A i \in read..sent : Live(i) => msg[where[i]].kind \notin Blocking
BY DEF BlockedLast

LEMMA PlaceMessageBlocked ==
  ASSUME CountInv, ChainInv, BlockedLast, PlaceMessage
  PROVE  BlockedLast'
<1>1. /\ UNCHANGED <<read, cPc, pReq>> /\ pPc = "alloc"
      /\ pPc' = IF pReq.kind = "User" THEN "idle" ELSE "push"
      /\ sent' = sent + 1 /\ sent \in Nat /\ read \in Nat
  BY DEF PlaceMessage, CountInv, TypeOK
<1>2. /\ \A i \in read..sent : where'[i] = where[i] /\ msg'[where[i]] = msg[where[i]]
      /\ msg'[where'[sent + 1]].kind = pReq.kind
  BY PlaceMessagePlaces DEF Plain
<1>3. ASSUME NEW i \in read'..sent', Live(i)', msg'[where'[i]].kind \in Blocking
      PROVE  i = sent' /\ pPc' \in {"push", "notify", "wait"} /\ pReq'.kind = msg'[where'[i]].kind
  <2>1. i \in read..sent \/ i = sent + 1
    BY <1>1
  <2>2. i \notin read..sent
    BY <1>1, <1>2, <1>3, BlockedNone DEF Live
  <2>3. QED
    BY <1>1, <1>2, <1>3, <2>1, <2>2 DEF Blocking
<1>4. QED
  BY <1>3 DEF BlockedLast

LEMMA SwitchChunkBlocked ==
  ASSUME CountInv, ChainInv, BlockedLast, SwitchChunk
  PROVE  BlockedLast'
<1>1. PICK c \in Chunks : EnterChunk(c)
  BY DEF SwitchChunk
<1>2. /\ UNCHANGED <<read, cPc>> /\ pPc = "alloc"
      /\ sent' = sent + 2 /\ sent \in Nat /\ read \in Nat
  BY <1>1 DEF SwitchChunk, EnterChunk, threadVars, CountInv, TypeOK
<1>3. /\ \A i \in read..sent : where'[i] = where[i] /\ msg'[where[i]] = msg[where[i]]
      /\ msg'[where'[sent + 1]] = SwitchMessage(sent + 1, wChunk, c)
      /\ msg'[where'[sent + 2]] = Plain(sent + 2, "Dummy", {})
  BY <1>1, <1>2, EnterChunkPlaces
<1>4. ASSUME NEW i \in read'..sent', Live(i)' PROVE msg'[where'[i]].kind \notin Blocking
  <2>1. i \in read..sent \/ i = sent + 1 \/ i = sent + 2
    BY <1>2
  <2>2. CASE i \in read..sent
    BY <1>2, <1>3, <1>4, <2>2, BlockedNone DEF Live
  <2>3. QED
    BY <1>3, <2>1, <2>2 DEF SwitchMessage, Plain, Blocking
<1>5. QED
  BY <1>4 DEF BlockedLast

LEMMA BlockedStep ==
  ASSUME CountInv, ChainInv, BlockInv, [Next]_vars
  PROVE  BlockedLast'
<1>0. /\ BlockedLast /\ read \in Nat /\ sent \in Nat
  BY DEF BlockInv, CountInv, TypeOK
<1>1. ASSUME pPc \notin {"push", "notify", "wait"}, UNCHANGED <<msg, where, sent, read>>,
             \A i : Live(i)' => Live(i)
      PROVE  BlockedLast'
  BY <1>0, <1>1, BlockedNone DEF BlockedLast
<1>2. ASSUME NEW r \in Requests, Call(r) PROVE BlockedLast'
  BY <1>1, <1>2 DEF Call, memoryVars, historyVars, Live
<1>3. ASSUME Push \/ Notify PROVE BlockedLast'
  <2>1. /\ UNCHANGED <<msg, where, sent, read, pReq>> /\ (cPc' = "exec" => cPc = "exec")
        /\ pReq.kind \in Blocking => pPc' \in {"push", "notify", "wait"}
    BY <1>3 DEF Push, Notify, Blocking, memoryVars, historyVars
  <2>2. \A i \in read..sent : Live(i)' => Live(i)
    BY <2>1 DEF Live
  <2>3. QED
    BY <1>0, <2>1, <2>2, BlockedKept
<1>4. ASSUME WaitReturn PROVE BlockedLast'
  <2>1. /\ UNCHANGED <<msg, where, sent, read, pReq, cPc>> /\ pPc = "wait" /\ event
    BY <1>4 DEF WaitReturn, memoryVars, historyVars
  <2>2. pReq.kind \in Blocking /\ read = sent /\ cPc # "exec"
    BY <2>1 DEF BlockInv, Ending, SignalledDone
  <2>3. \A i \in read..sent : ~Live(i)'
    BY <1>0, <2>1, <2>2 DEF Live
  <2>4. QED
    BY <1>0, <2>1, <2>3, BlockedKept
<1>5. ASSUME Join \/ SetImmediateMode \/ RunConsumerThread \/ Destroy PROVE BlockedLast'
  <2>1. /\ UNCHANGED <<msg, where, sent, read>> /\ pPc \in {"idle", "join"}
        /\ cPc' = "exec" => cPc = "exec"
    BY <1>5 DEF Join, SetImmediateMode, RunConsumerThread, Destroy, memoryVars, historyVars
  <2>2. QED
    BY <1>1, <2>1 DEF Live
<1>6. ASSUME ImmediateMessage \/ ImmediateFree \/ PlaceData PROVE BlockedLast'
  <2>1. /\ UNCHANGED <<msg, where, sent, read, cPc>> /\ pPc \in {"idle", "alloc"}
    BY <1>6 DEF ImmediateMessage, ImmediateFree, PlaceData, memoryVars, historyVars, threadVars
  <2>2. QED
    BY <1>1, <2>1 DEF Live
<1>7. ASSUME NEW n \in DataSlots, ImmediateData(n) PROVE BlockedLast'
  BY <1>1, <1>7 DEF ImmediateData, threadVars, Live
<1>8. ASSUME NEW n \in DataSlots, ImmediateSwitchChunk(n) PROVE BlockedLast'
  <2>1. /\ read = sent /\ cPc # "exec" /\ UNCHANGED cPc /\ read' = read + 2 /\ sent' = sent + 2
    BY <1>8 DEF ImmediateSwitchChunk, EnterChunk, threadVars, CountInv, TypeOK, ModesExclusive
  <2>2. \A i \in read'..sent' : ~Live(i)'
    BY <1>0, <2>1 DEF Live
  <2>3. QED
    BY <2>2 DEF BlockedLast
<1>9. ASSUME Read PROVE BlockedLast'
  <2>1. UNCHANGED <<msg, where, sent, pPc, pReq>> /\ read' = read + 1 /\ cPc # "exec"
    BY <1>9 DEF Read, producerSide, memoryVars
  <2>2. \A i \in read..sent : Live(i)' => Live(i)
    BY <1>0, <2>1 DEF Live
  <2>3. QED
    BY <1>0, <2>1, <2>2, BlockedKept
<1>10. ASSUME \/ Lock \/ PullLocked \/ Sleep \/ PullAwake \/ SpuriousWakeup
              \/ ExecPlain \/ ExecSwitch \/ ExecFree \/ ExecWait \/ ExecFinish
              \/ ExecTerminate \/ FlushEnd
       PROVE  BlockedLast'
  <2>1. UNCHANGED <<msg, where, sent, read, pPc, pReq>> /\ cPc' # "exec"
    BY <1>10 DEF Lock, PullLocked, Sleep, PullAwake, SpuriousWakeup, ExecPlain, ExecSwitch,
       ExecFree, ExecWait, ExecFinish, ExecTerminate, FlushEnd, producerSide, memoryVars
  <2>2. \A i \in read..sent : Live(i)' => Live(i)
    BY <2>1 DEF Live
  <2>3. QED
    BY <1>0, <2>1, <2>2, BlockedKept
<1>11. CASE UNCHANGED vars
  BY <1>11 DEF vars, memoryVars, historyVars, threadVars, BlockInv, BlockedLast, Live
<1>12. ASSUME NEW n \in DataSlots, ImmediateSwitchFails(n) PROVE BlockedLast'
  BY <1>1, <1>12 DEF ImmediateSwitchFails, memoryVars, historyVars, Live
<1>13. QED
  BY <1>0, <1>12, <1>2, <1>3, <1>4, <1>5, <1>6, <1>7, <1>8, <1>9, <1>10, <1>11,
     SwitchChunkBlocked, PlaceMessageBlocked
     DEF Next, ProducerCall, ProducerStep, ConsumerStep

(* The steps of the consumer that execute nothing blocking.                *)
LEMMA SignalledKept ==
  ASSUME SignalledDone, UNCHANGED <<pPc, pReq, event, sent>>,
         cPc = "exec" \/ (read' = read /\ cPc' # "exec"),
         rTerminate => rTerminate'
  PROVE  SignalledDone'
BY DEF SignalledDone

LEMMA SignalledStep ==
  ASSUME CountInv, ChainInv, BlockInv, [Next]_vars
  PROVE  SignalledDone'
<1>0. SignalledDone /\ read \in Nat /\ sent \in Nat
  BY DEF BlockInv, CountInv, TypeOK
<1>1. CASE pPc' \notin {"alloc", "push", "notify", "wait"}
  BY <1>1 DEF SignalledDone
<1>2. ASSUME NEW r \in Requests, Call(r) PROVE SignalledDone'
  BY <1>2 DEF Call, FreshEvent, SignalledDone, Blocking
<1>3. ASSUME SwitchChunk PROVE SignalledDone'
  BY <1>0, <1>3 DEF SwitchChunk, threadVars, SignalledDone
<1>4. ASSUME PlaceMessage PROVE SignalledDone'
  BY <1>0, <1>4 DEF PlaceMessage, SignalledDone
<1>5. ASSUME Push PROVE SignalledDone'
  BY <1>0, <1>5 DEF Push, SignalledDone, readerVars
<1>6. ASSUME Notify PROVE SignalledDone'
  BY <1>0, <1>6 DEF Notify, SignalledDone, readerVars, historyVars
<1>7. ASSUME \/ WaitReturn \/ Join \/ PlaceData \/ SetImmediateMode \/ RunConsumerThread
             \/ Destroy \/ ImmediateMessage \/ ImmediateFree
             \/ \E n \in DataSlots : ImmediateSwitchChunk(n) \/ ImmediateSwitchFails(n)
                                      \/ ImmediateData(n)
      PROVE  pPc' \notin {"alloc", "push", "notify", "wait"}
  BY <1>7 DEF WaitReturn, Join, PlaceData, SetImmediateMode, RunConsumerThread, Destroy,
     ImmediateMessage, ImmediateFree, ImmediateSwitchChunk, ImmediateSwitchFails,
     ImmediateData, threadVars
<1>8. ASSUME \/ Lock \/ PullLocked \/ Sleep \/ PullAwake \/ SpuriousWakeup \/ FlushEnd
             \/ ExecPlain \/ ExecSwitch \/ ExecFree \/ ExecFinish
      PROVE  SignalledDone'
  <2>1. /\ UNCHANGED <<pPc, pReq, event, sent>> /\ (rTerminate => rTerminate')
        /\ cPc = "exec" \/ (read' = read /\ cPc' # "exec")
    BY <1>8 DEF Lock, PullLocked, Sleep, PullAwake, SpuriousWakeup, FlushEnd,
       ExecPlain, ExecSwitch, ExecFree, ExecFinish, producerSide, readerVars
  <2>2. QED
    BY <1>0, <2>1, SignalledKept
<1>9. ASSUME Read PROVE SignalledDone'
  <2>1. /\ UNCHANGED <<pPc, pReq, event, sent>> /\ read < sent
    BY <1>9, ReadHasNext DEF Read, producerSide
  <2>2. QED
    BY <1>0, <2>1 DEF SignalledDone
<1>10. ASSUME ExecWait PROVE SignalledDone'
  <2>1. cPc = "exec" /\ msg[rLast].kind = "Wait" /\ UNCHANGED <<pPc, pReq, sent, read>>
        /\ cPc' = "check"
    BY <1>10 DEF ExecWait, producerSide
  <2>2. read = sent /\ pPc \in {"push", "notify", "wait"} /\ pReq.kind = "Wait"
    BY <2>1, Executing DEF BlockInv, Blocking
  <2>3. QED
    BY <2>1, <2>2 DEF SignalledDone
<1>11. ASSUME ExecTerminate PROVE SignalledDone'
  <2>1. cPc = "exec" /\ msg[rLast].kind = "Terminate" /\ UNCHANGED <<pPc, pReq, sent, read>>
        /\ cPc' = "flushed" /\ rTerminate'
    BY <1>11 DEF ExecTerminate, producerSide
  <2>2. read = sent /\ pPc \in {"push", "notify", "wait"}
    BY <2>1, Executing DEF BlockInv, Blocking
  <2>3. QED
    BY <2>1, <2>2 DEF SignalledDone
<1>12. CASE UNCHANGED vars
  BY <1>0, <1>12 DEF vars, threadVars, readerVars, historyVars, SignalledDone
<1>13. QED
  BY <1>1, <1>2, <1>3, <1>4, <1>5, <1>6, <1>7, <1>8, <1>9, <1>10, <1>11, <1>12
     DEF Next, ProducerCall, ProducerStep, ConsumerStep

LEMMA EndingStep ==
  ASSUME CountInv, ChainInv, BlockInv, [Next]_vars
  PROVE  Ending'
<1>0. Ending /\ SignalledDone /\ read \in Nat /\ sent \in Nat
  BY DEF BlockInv, CountInv, TypeOK
<1>1. ASSUME UNCHANGED <<pPc, pReq, rTerminate, cPc, read, sent>> PROVE Ending'
  BY <1>0, <1>1 DEF Ending
<1>2. ASSUME NEW r \in Requests, Call(r) PROVE Ending'
  BY <1>0, <1>2 DEF Call, Ending, Blocking, readerVars, CountInv, ModesExclusive
<1>3. ASSUME SwitchChunk \/ PlaceMessage PROVE Ending'
  <2>1. /\ pPc = "alloc" /\ UNCHANGED <<pReq, rTerminate, cPc>>
        /\ pPc' \in {"alloc", "push", "idle"}
    BY <1>3 DEF SwitchChunk, PlaceMessage, threadVars, readerVars
  <2>2. QED
    BY <1>0, <2>1 DEF Ending
<1>4. ASSUME Push \/ Notify PROVE Ending'
  <2>1. /\ UNCHANGED <<pReq, rTerminate, read, sent>> /\ pPc \in {"push", "notify"}
        /\ cPc' = cPc \/ (cPc = "asleep" /\ cPc' = "woken")
        /\ \/ pPc' = "notify"
           \/ pPc' = IF pReq.kind \in {"Wait", "Terminate"} THEN "wait" ELSE "idle"
    BY <1>4 DEF Push, Notify, readerVars, historyVars
  <2>2. QED
    BY <1>0, <2>1 DEF Ending, Blocking
<1>5. ASSUME WaitReturn PROVE Ending'
  <2>1. /\ UNCHANGED <<pReq, rTerminate, cPc, read, sent>> /\ pPc = "wait" /\ event
        /\ pPc' = IF pReq.kind = "Terminate" THEN "join" ELSE "idle"
    BY <1>5 DEF WaitReturn, readerVars, historyVars
  <2>2. /\ pReq.kind \in Blocking /\ cPc # "none"
        /\ pReq.kind = "Terminate" => rTerminate
    BY <1>0, <2>1 DEF Ending, SignalledDone
  <2>3. QED
    BY <1>0, <2>1, <2>2 DEF Ending, Blocking
<1>6. ASSUME Join PROVE Ending'
  BY <1>0, <1>6 DEF Join, Ending, readerVars
<1>7. ASSUME \/ PlaceData \/ SetImmediateMode \/ Destroy \/ ImmediateMessage \/ ImmediateFree
             \/ \E n \in DataSlots : ImmediateSwitchChunk(n) \/ ImmediateSwitchFails(n)
                                      \/ ImmediateData(n)
      PROVE  Ending'
  <2>1. /\ pPc \in {"idle", "alloc"} /\ pPc' \in {"idle", "gone", "aborted"}
        /\ UNCHANGED <<pReq, rTerminate, cPc>>
    BY <1>7 DEF PlaceData, SetImmediateMode, Destroy, ImmediateMessage, ImmediateFree,
       ImmediateSwitchChunk, ImmediateSwitchFails,
     ImmediateData, readerVars, threadVars
  <2>2. QED
    BY <1>0, <2>1 DEF Ending
<1>8. ASSUME RunConsumerThread PROVE Ending'
  BY <1>0, <1>8 DEF RunConsumerThread, Ending
<1>9. ASSUME \/ Lock \/ PullLocked \/ Sleep \/ PullAwake \/ SpuriousWakeup
             \/ ExecPlain \/ ExecSwitch \/ ExecFree \/ ExecWait \/ ExecFinish
      PROVE  Ending'
  <2>1. /\ UNCHANGED <<pPc, pReq, rTerminate>>
        /\ cPc \notin {"none", "flushed", "exited"} /\ cPc' \notin {"none", "exited"}
    BY <1>9 DEF Lock, PullLocked, Sleep, PullAwake, SpuriousWakeup, ExecPlain, ExecSwitch,
       ExecFree, ExecWait, ExecFinish, producerSide, readerVars
  <2>2. QED
    BY <1>0, <2>1 DEF Ending
<1>10. ASSUME Read PROVE Ending'
  BY <1>0, <1>10 DEF Read, Ending, producerSide
<1>11. ASSUME ExecTerminate PROVE Ending'
  <2>1. /\ cPc = "exec" /\ msg[rLast].kind = "Terminate" /\ cPc' = "flushed" /\ rTerminate'
        /\ UNCHANGED <<pPc, pReq, sent, read>>
    BY <1>11 DEF ExecTerminate, producerSide
  <2>2. read = sent /\ pPc \in {"push", "notify", "wait"} /\ pReq.kind = "Terminate"
    BY <2>1, Executing DEF BlockInv, Blocking
  <2>3. QED
    BY <1>0, <2>1, <2>2 DEF Ending, Blocking
<1>12. ASSUME FlushEnd PROVE Ending'
  BY <1>0, <1>12 DEF FlushEnd, Ending, producerSide
<1>13. CASE UNCHANGED vars
  BY <1>1, <1>13 DEF vars, threadVars, readerVars, historyVars
<1>14. QED
  BY <1>2, <1>3, <1>4, <1>5, <1>6, <1>7, <1>8, <1>9, <1>10, <1>11, <1>12, <1>13
     DEF Next, ProducerCall, ProducerStep, ConsumerStep

LEMMA BlockInit == Init => BlockInv
BY DEF Init, BlockInv, BlockedLast, SignalledDone, Ending, Live, Blocking

-----------------------------------------------------------------------------
(* The wake-up.                                                            *)

(* The consumer holds the mutex exactly from its test to its sleep.        *)
LEMMA MutexStep ==
  ASSUME CountInv, WakeInv, [Next]_vars
  PROVE  MutexHeld'
<1>0. MutexHeld /\ ModesExclusive
  BY DEF WakeInv, CountInv
<1>1. ASSUME UNCHANGED <<mutex, cPc, rFlushed>> PROVE MutexHeld'
  BY <1>0, <1>1 DEF MutexHeld
<1>2. ASSUME NEW r \in Requests, Call(r) PROVE MutexHeld'
  BY <1>1, <1>2 DEF Call, readerVars
<1>3. ASSUME \/ SwitchChunk \/ PlaceMessage \/ PlaceData \/ Push \/ WaitReturn
             \/ SetImmediateMode \/ Destroy \/ ImmediateMessage \/ ImmediateFree
             \/ \E n \in DataSlots : ImmediateSwitchChunk(n) \/ ImmediateSwitchFails(n)
                                      \/ ImmediateData(n)
      PROVE  UNCHANGED <<mutex, cPc, rFlushed>>
  BY <1>3 DEF SwitchChunk, PlaceMessage, PlaceData, Push, WaitReturn, SetImmediateMode,
     Destroy, ImmediateMessage, ImmediateFree, ImmediateSwitchChunk, ImmediateSwitchFails,
     ImmediateData,
     threadVars, readerVars
<1>4. ASSUME Notify PROVE MutexHeld'
  BY <1>0, <1>4 DEF Notify, MutexHeld, readerVars
<1>5. ASSUME Join PROVE MutexHeld'
  BY <1>0, <1>5 DEF Join, MutexHeld, readerVars
<1>6. ASSUME RunConsumerThread PROVE MutexHeld'
  BY <1>0, <1>6 DEF RunConsumerThread, MutexHeld, ModesExclusive
<1>7. ASSUME Lock PROVE MutexHeld'
  BY <1>0, <1>7 DEF Lock, MutexHeld, readerVars
<1>8. ASSUME PullLocked PROVE MutexHeld'
  <2>1. cPc = "locked" /\ UNCHANGED rFlushed
        /\ ((cPc' = "check" /\ mutex' = "none") \/ (cPc' = "drowsy" /\ mutex' = mutex))
    BY <1>8 DEF PullLocked
  <2>2. QED
    BY <1>0, <2>1 DEF MutexHeld
<1>9. ASSUME Sleep PROVE MutexHeld'
  BY <1>0, <1>9 DEF Sleep, MutexHeld, readerVars
<1>10. ASSUME SpuriousWakeup PROVE MutexHeld'
  BY <1>0, <1>10 DEF SpuriousWakeup, MutexHeld, readerVars
<1>11. ASSUME PullAwake PROVE MutexHeld'
  BY <1>0, <1>11 DEF PullAwake, MutexHeld
<1>12. ASSUME Read \/ ExecPlain \/ ExecSwitch \/ ExecFree \/ ExecWait PROVE MutexHeld'
  <2>1. cPc \in {"check", "exec"} /\ cPc' \in {"check", "exec"} /\ UNCHANGED <<mutex, rFlushed>>
    BY <1>12 DEF Read, ExecPlain, ExecSwitch, ExecFree, ExecWait, readerVars
  <2>2. QED
    BY <1>0, <2>1 DEF MutexHeld
<1>13. ASSUME ExecFinish \/ ExecTerminate PROVE MutexHeld'
  BY <1>0, <1>13 DEF ExecFinish, ExecTerminate, MutexHeld
<1>14. ASSUME FlushEnd PROVE MutexHeld'
  BY <1>0, <1>14 DEF FlushEnd, MutexHeld
<1>15. CASE UNCHANGED vars
  BY <1>1, <1>15 DEF vars, threadVars, readerVars
<1>16. QED
  BY <1>1, <1>2, <1>3, <1>4, <1>5, <1>6, <1>7, <1>8, <1>9, <1>10, <1>11, <1>12, <1>13,
     <1>14, <1>15 DEF Next, ProducerCall, ProducerStep, ConsumerStep

(* The consumer that goes to sleep holds the mutex and has just pulled     *)
(* everything published; what is published from then on is notified under  *)
(* the mutex, so after the consumer has begun to sleep.                    *)
LEMMA MissedStep ==
  ASSUME CountInv, WakeInv, [Next]_vars
  PROVE  NothingMissed'
<1>0. NothingMissed /\ MutexHeld /\ ModesExclusive
  BY DEF WakeInv, CountInv
<1>1. ASSUME UNCHANGED <<cPc, rNew, read, published>>, pPc # "notify",
             pPc' \notin {"notify", "wait"}
      PROVE  NothingMissed'
  BY <1>0, <1>1 DEF NothingMissed, Sleeping
<1>2. ASSUME NEW r \in Requests, Call(r) PROVE NothingMissed'
  <2>1. pPc' \in {"push", "alloc"}
    BY <1>2 DEF Call
  <2>2. QED
    BY <1>1, <1>2, <2>1 DEF Call, readerVars, historyVars
<1>3. ASSUME \/ SwitchChunk \/ PlaceMessage \/ PlaceData \/ SetImmediateMode
             \/ Destroy \/ ImmediateMessage \/ ImmediateFree
             \/ \E n \in DataSlots : ImmediateSwitchFails(n) \/ ImmediateData(n)
      PROVE  NothingMissed'
  <2>1. /\ UNCHANGED <<cPc, rNew, read, published>> /\ pPc \in {"idle", "alloc"}
        /\ pPc' \in {"idle", "alloc", "push", "gone", "aborted"}
    BY <1>3 DEF SwitchChunk, PlaceMessage, PlaceData, SetImmediateMode,
       Destroy, ImmediateMessage, ImmediateFree, ImmediateSwitchFails, ImmediateData,
       threadVars, readerVars, historyVars
  <2>2. QED
    BY <1>1, <2>1
<1>4. ASSUME Push PROVE NothingMissed'
  BY <1>0, <1>4 DEF Push, NothingMissed, Sleeping, readerVars
<1>5. ASSUME Notify PROVE NothingMissed'
  <2>1. /\ pPc = "notify" /\ mutex = "none" /\ UNCHANGED <<published, sent>>
        /\ cPc' = IF cPc = "asleep" THEN "woken" ELSE cPc
    BY <1>5 DEF Notify, historyVars
  <2>2. ~Sleeping'
    BY <1>0, <2>1 DEF MutexHeld, Sleeping
  <2>3. published' = sent'
    BY <1>0, <2>1 DEF NothingMissed
  <2>4. QED
    BY <2>2, <2>3 DEF NothingMissed
<1>6. ASSUME WaitReturn PROVE NothingMissed'
  <2>1. /\ UNCHANGED <<cPc, rNew, read, published>> /\ pPc = "wait"
        /\ pPc' \in {"join", "idle"}
    BY <1>6 DEF WaitReturn, readerVars, historyVars
  <2>2. QED
    BY <1>1, <2>1
<1>7. ASSUME \/ Join \/ RunConsumerThread
             \/ \E n \in DataSlots : ImmediateSwitchChunk(n)
      PROVE  NothingMissed'
  <2>1. /\ pPc' = "idle"
        /\ \/ cPc' \in {"none", "check"}
           \/ cPc' = cPc /\ immediate
    BY <1>7 DEF Join, RunConsumerThread, ImmediateSwitchChunk, threadVars
  <2>2. ~Sleeping'
    BY <1>0, <2>1 DEF Sleeping, ModesExclusive
  <2>3. QED
    BY <2>1, <2>2 DEF NothingMissed
<1>8. ASSUME PullLocked PROVE NothingMissed'
  <2>1. /\ cPc = "locked" /\ UNCHANGED <<pPc, sent, published, read, wPending, written, rFlushed>>
        /\ Pull /\ (cPc' = "check" \/ (cPc' = "drowsy" /\ ~(rNew' > 0 /\ ~rFlushed)))
    BY <1>8 DEF PullLocked, producerSide, writerVars, HasNewMessage
  <2>2. ~rFlushed
    BY <1>0, <2>1 DEF MutexHeld
  <2>3. rNew' = published - read /\ read \in Nat /\ published \in Nat /\ read <= published
    BY <2>1, PullCounts DEF CountInv, TypeOK, Counted
  <2>4. cPc' = "drowsy" => rNew' = 0 /\ read = published
    BY <2>1, <2>2, <2>3
  <2>5. Sleeping' => cPc' = "drowsy"
    BY <2>1 DEF Sleeping
  <2>6. Sleeping' => rNew' = 0 /\ ~(read' < published')
    BY <2>1, <2>3, <2>4, <2>5
  <2>7. pPc' \in {"notify", "wait"} => published' = sent'
    BY <1>0, <2>1 DEF NothingMissed
  <2>8. QED
    BY <2>6, <2>7 DEF NothingMissed
<1>9. ASSUME Sleep PROVE NothingMissed'
  BY <1>0, <1>9 DEF Sleep, NothingMissed, Sleeping, producerSide, readerVars
<1>10. ASSUME \/ Lock \/ SpuriousWakeup \/ PullAwake \/ Read \/ ExecPlain \/ ExecSwitch
              \/ ExecFree \/ ExecWait \/ ExecFinish \/ ExecTerminate \/ FlushEnd
       PROVE  NothingMissed'
  <2>1. /\ UNCHANGED <<pPc, sent, published>> /\ cPc' \notin {"drowsy", "asleep"}
    BY <1>10 DEF Lock, SpuriousWakeup, PullAwake, Read, ExecPlain, ExecSwitch, ExecFree,
       ExecWait, ExecFinish, ExecTerminate, FlushEnd, producerSide
  <2>2. QED
    BY <1>0, <2>1 DEF NothingMissed, Sleeping
<1>11. CASE UNCHANGED vars
  BY <1>0, <1>11 DEF vars, threadVars, readerVars, historyVars, NothingMissed, Sleeping
<1>12. QED
  BY <1>2, <1>3, <1>4, <1>5, <1>6, <1>7, <1>8, <1>9, <1>10, <1>11
     DEF Next, ProducerCall, ProducerStep, ConsumerStep

(* The message the producer waits for is the last one, and stays unread or *)
(* in execution until its event is signalled.                              *)
LEMMA AwaitedStep ==
  ASSUME CountInv, ChainInv, WakeInv, [Next]_vars
  PROVE  AwaitedLive'
<1>0. AwaitedLive /\ read \in Nat /\ sent \in Nat /\ read <= sent
  BY DEF WakeInv, CountInv, TypeOK, Counted
<1>1. CASE pPc' \notin {"push", "notify", "wait"}
  BY <1>1 DEF AwaitedLive
<1>2. ASSUME NEW r \in Requests, Call(r) PROVE AwaitedLive'
  <2>1. pReq' = r /\ pPc' = IF r.kind = "Kick" THEN "push" ELSE "alloc"
    BY <1>2 DEF Call
  <2>2. ~(pPc' \in {"push", "notify", "wait"} /\ pReq'.kind \in Blocking)
    BY <2>1 DEF Blocking
  <2>3. QED
    BY <2>2 DEF AwaitedLive
<1>3. ASSUME \/ SwitchChunk \/ PlaceData \/ WaitReturn \/ Join \/ SetImmediateMode
             \/ RunConsumerThread \/ Destroy \/ ImmediateMessage \/ ImmediateFree
             \/ \E n \in DataSlots : ImmediateSwitchChunk(n) \/ ImmediateSwitchFails(n)
                                      \/ ImmediateData(n)
      PROVE  pPc' \notin {"push", "notify", "wait"}
  BY <1>3 DEF SwitchChunk, PlaceData, WaitReturn, Join, SetImmediateMode, RunConsumerThread,
     Destroy, ImmediateMessage, ImmediateFree, ImmediateSwitchChunk, ImmediateSwitchFails,
     ImmediateData, threadVars
<1>4. ASSUME PlaceMessage PROVE AwaitedLive'
  <2>1. UNCHANGED <<read, pReq>> /\ sent' = sent + 1
    BY <1>4 DEF PlaceMessage
  <2>2. msg'[where'[sent + 1]].kind = pReq.kind
    BY <1>4, PlaceMessagePlaces DEF Plain
  <2>3. Live(sent)'
    BY <1>0, <2>1 DEF Live
  <2>4. msg'[where'[sent']].kind = pReq'.kind
    BY <2>1, <2>2
  <2>5. QED
    BY <2>3, <2>4 DEF AwaitedLive
<1>5. ASSUME UNCHANGED <<msg, where, sent, pReq, event>>, pPc \in {"push", "notify", "wait"},
             Live(sent) => Live(sent)'
      PROVE  AwaitedLive'
  BY <1>0, <1>5 DEF AwaitedLive
<1>6. ASSUME Push \/ Notify PROVE AwaitedLive'
  <2>1. /\ UNCHANGED <<msg, where, sent, pReq, event, read>> /\ pPc \in {"push", "notify"}
        /\ cPc = "exec" => cPc' = "exec"
    BY <1>6 DEF Push, Notify, memoryVars, historyVars, readerVars
  <2>2. QED
    BY <1>5, <2>1 DEF Live
<1>7. ASSUME \/ Lock \/ PullLocked \/ Sleep \/ PullAwake \/ SpuriousWakeup \/ FlushEnd
      PROVE  AwaitedLive'
  <2>1. /\ UNCHANGED <<msg, where, sent, pReq, event, read, pPc>> /\ cPc # "exec"
    BY <1>7 DEF Lock, PullLocked, Sleep, PullAwake, SpuriousWakeup, FlushEnd,
       producerSide, memoryVars
  <2>2. QED
    BY <1>1, <1>5, <2>1 DEF Live
<1>8. ASSUME Read PROVE AwaitedLive'
  <2>1. /\ UNCHANGED <<msg, where, sent, pReq, event, pPc>> /\ read' = read + 1
        /\ cPc' = "exec" /\ read < sent
    BY <1>8, ReadHasNext DEF Read, producerSide, memoryVars
  <2>2. Live(sent)'
    BY <1>0, <2>1 DEF Live
  <2>3. QED
    BY <1>1, <1>5, <2>1, <2>2
<1>9. ASSUME ExecPlain \/ ExecSwitch \/ ExecFree \/ ExecFinish PROVE AwaitedLive'
  <2>1. /\ UNCHANGED <<msg, where, sent, pReq, event, pPc, read>>
        /\ cPc = "exec" /\ msg[rLast].kind \notin Blocking
    BY <1>9 DEF ExecPlain, ExecSwitch, ExecFree, ExecFinish, Blocking, producerSide, memoryVars
  <2>2. rLast = where[read]
    BY DEF ChainInv, Chain
  <2>3. CASE read = sent
    BY <1>0, <2>1, <2>2, <2>3 DEF AwaitedLive
  <2>4. CASE read < sent
    <3>1. Live(sent)'
      BY <1>0, <2>1, <2>4 DEF Live
    <3>2. QED
      BY <1>1, <1>5, <2>1, <3>1
  <2>5. QED
    BY <1>0, <2>3, <2>4
<1>10. ASSUME ExecWait \/ ExecTerminate PROVE AwaitedLive'
  BY <1>10 DEF ExecWait, ExecTerminate, AwaitedLive
<1>11. CASE UNCHANGED vars
  <2>1. UNCHANGED <<msg, where, sent, pReq, event, pPc, read, cPc>>
    BY <1>11 DEF vars, memoryVars, threadVars, historyVars
  <2>2. QED
    BY <1>1, <1>5, <2>1 DEF Live
<1>12. QED
  BY <1>1, <1>2, <1>3, <1>4, <1>6, <1>7, <1>8, <1>9, <1>10, <1>11
     DEF Next, ProducerCall, ProducerStep, ConsumerStep

LEMMA WakeInit == Init => WakeInv
BY DEF Init, WakeInv, MutexHeld, NothingMissed, AwaitedLive, Sleeping

-----------------------------------------------------------------------------
(* Detached, what is unread stays out of the stash.                        *)

LEMMA DetachedStutter ==
  ASSUME DetachedUsed, UNCHANGED <<msg, where, sent, read, chunk, attached>>,
         wData' \subseteq wData, pPc = "gone" => pPc' = "gone",
         ~immediate' => ~immediate \/ wData' = {}
  PROVE  DetachedUsed'
BY DEF DetachedUsed, ChunkOf

LEMMA DetachedSwitchChunk ==
  ASSUME CountInv, ChainInv, DetachedUsed, SwitchChunk
  PROVE  DetachedUsed'
<1>1. PICK c \in Chunks : EnterChunk(c) /\ chunk' = [chunk EXCEPT ![c] = "used"]
  BY DEF SwitchChunk
<1>2. /\ UNCHANGED <<read, wData, pPc, immediate, attached>> /\ chunk[c] = "free"
      /\ pPc # "gone"
      /\ sent' = sent + 2 /\ sent \in Nat /\ read \in Nat /\ read \in read..sent
      /\ chunk \in [Chunks -> {"free", "used", "stashed"}]
  BY <1>1 DEF SwitchChunk, EnterChunk, threadVars, CountInv, TypeOK, Counted
<1>3. /\ \A i \in read..sent : where'[i] = where[i] /\ msg'[where[i]] = msg[where[i]]
      /\ msg'[where'[sent + 1]] = SwitchMessage(sent + 1, wChunk, c)
      /\ msg'[where'[sent + 2]] = Plain(sent + 2, "Dummy", {})
  BY <1>1, <1>2, EnterChunkPlaces
<1>4. \A d \in Chunks : chunk[d] = "used" => chunk'[d] = "used"
  BY <1>1, <1>2
<1>5. /\ ChunkOf(where[read]) \in Chunks /\ wData \subseteq Chunks
      /\ \A i \in read..sent : msg[where[i]].data \subseteq Chunks
  BY <1>2, Fresh, DataChunks DEF Addr, ChunkOf
<1>6. SUFFICES ASSUME ~attached, pPc # "gone" PROVE DetachedUsed'
  BY <1>2 DEF DetachedUsed
<1>7. chunk'[ChunkOf(where'[read])] = "used"
  BY <1>2, <1>3, <1>4, <1>5, <1>6 DEF DetachedUsed
<1>8. ASSUME NEW i \in (read + 1)..(sent + 2), NEW d \in msg'[where'[i]].data
      PROVE  chunk'[d] = "used"
  <2>1. i \in (read + 1)..sent \/ i = sent + 1 \/ i = sent + 2
    BY <1>2
  <2>2. i \notin {sent + 1, sent + 2}
    BY <1>3, <1>8 DEF SwitchMessage, Plain
  <2>3. i \in (read + 1)..sent /\ i \in read..sent
    BY <1>2, <2>1, <2>2
  <2>4. d \in msg[where[i]].data
    BY <1>3, <1>8, <2>3
  <2>5. QED
    BY <1>4, <1>5, <1>6, <2>3, <2>4 DEF DetachedUsed
<1>9. ~immediate => \A d \in wData : chunk'[d] = "used"
  BY <1>4, <1>5, <1>6 DEF DetachedUsed
<1>10. QED
  BY <1>2, <1>7, <1>8, <1>9 DEF DetachedUsed, ChunkOf

LEMMA DetachedPlaceMessage ==
  ASSUME CountInv, ChainInv, DetachedUsed, PlaceMessage
  PROVE  DetachedUsed'
<1> DEFINE data == IF pReq.kind = "User" THEN wData ELSE {}
<1>1. /\ UNCHANGED <<read, chunk, immediate, attached>> /\ sent' = sent + 1
      /\ pPc = "alloc" /\ wData' \subseteq wData
      /\ read \in Nat /\ sent \in Nat /\ read \in read..sent
  BY DEF PlaceMessage, CountInv, TypeOK, Counted
<1>2. /\ \A i \in read..sent : where'[i] = where[i] /\ msg'[where[i]] = msg[where[i]]
      /\ msg'[where'[sent + 1]].data \subseteq wData
  BY PlaceMessagePlaces DEF Plain
<1>3. ~immediate
  BY <1>1 DEF CountInv, ModesExclusive
<1>4. SUFFICES ASSUME ~attached PROVE DetachedUsed'
  BY <1>1 DEF DetachedUsed
<1>5. chunk'[ChunkOf(where'[read])] = "used" /\ \A c \in wData : chunk'[c] = "used"
  BY <1>1, <1>2, <1>3, <1>4 DEF DetachedUsed
<1>6. ASSUME NEW i \in (read + 1)..(sent + 1), NEW d \in msg'[where'[i]].data
      PROVE  chunk'[d] = "used"
  <2>1. CASE i = sent + 1
    BY <1>2, <1>5, <1>6, <2>1
  <2>2. CASE i # sent + 1
    <3>1. i \in (read + 1)..sent /\ i \in read..sent
      BY <1>1, <2>2
    <3>2. d \in msg[where[i]].data
      BY <1>2, <1>6, <3>1
    <3>3. QED
      BY <1>1, <1>4, <3>1, <3>2 DEF DetachedUsed
  <2>3. QED
    BY <2>1, <2>2
<1>7. QED
  BY <1>1, <1>5, <1>6 DEF DetachedUsed, ChunkOf

LEMMA DetachedImmediateFree ==
  ASSUME CountInv, ChainInv, DetachedUsed, ImmediateFree
  PROVE  DetachedUsed'
<1>1. /\ UNCHANGED <<msg, where, sent, read>> /\ wData' = {} /\ chunk' = Freed(chunk)
      /\ ~attached /\ pPc # "gone" /\ read \in Nat /\ sent \in Nat /\ read \in read..sent
  BY DEF ImmediateFree, historyVars, threadVars, CountInv, TypeOK, ModesExclusive, Counted
<1>2. \A c \in Chunks : chunk[c] = "used" => chunk'[c] = "used"
  BY <1>1 DEF Freed
<1>3. ChunkOf(where[read]) \in Chunks /\ \A i \in read..sent : msg[where[i]].data \subseteq Chunks
  BY <1>1, Fresh, DataChunks DEF Addr, ChunkOf
<1>4. \A i \in (read + 1)..sent : i \in read..sent
  BY <1>1
<1>5. \A i \in (read + 1)..sent : \A c \in msg[where[i]].data : chunk'[c] = "used"
  BY <1>1, <1>2, <1>3, <1>4 DEF DetachedUsed
<1>6. chunk'[ChunkOf(where[read])] = "used"
  BY <1>1, <1>2, <1>3 DEF DetachedUsed
<1>7. QED
  BY <1>1, <1>5, <1>6 DEF DetachedUsed, ChunkOf

LEMMA DetachedStep ==
  ASSUME CountInv, ChainInv, DataInv, BlockInv, DetachedUsed, [Next]_vars
  PROVE  DetachedUsed'
<1>1. CASE attached' \/ pPc' = "gone"
  BY <1>1 DEF DetachedUsed
<1>2. ASSUME NEW r \in Requests, Call(r) PROVE DetachedUsed'
  BY <1>2, DetachedStutter DEF Call, memoryVars, historyVars
<1>3. ASSUME Push \/ Notify \/ WaitReturn \/ Join PROVE DetachedUsed'
  <2>1. UNCHANGED <<msg, where, sent, read, chunk, wData, immediate, attached>> /\ pPc # "gone"
    BY <1>3 DEF Push, Notify, WaitReturn, Join, memoryVars, historyVars
  <2>2. QED
    BY <2>1, DetachedStutter
<1>4. ASSUME SetImmediateMode PROVE DetachedUsed'
  BY <1>4, DetachedStutter DEF SetImmediateMode, memoryVars, historyVars
<1>5. ASSUME ImmediateMessage PROVE DetachedUsed'
  BY <1>5, DetachedStutter DEF ImmediateMessage, memoryVars, threadVars
<1>6. ASSUME NEW n \in DataSlots, ImmediateSwitchFails(n) PROVE DetachedUsed'
  BY <1>6, DetachedStutter DEF ImmediateSwitchFails, memoryVars, historyVars
<1>7. ASSUME SwitchChunk PROVE DetachedUsed'
  BY <1>7, DetachedSwitchChunk
<1>8. ASSUME PlaceMessage PROVE DetachedUsed'
  BY <1>8, DetachedPlaceMessage
<1>9. ASSUME PlaceData PROVE DetachedUsed'
  <2>1. /\ UNCHANGED <<msg, where, sent, read, chunk, immediate, attached>>
        /\ wData' = wData \cup {wChunk} /\ pPc # "gone"
    BY <1>9 DEF PlaceData
  <2>2. chunk[wChunk] = "used"
    BY <2>1 DEF ChainInv, Owned
  <2>3. QED
    BY <2>1, <2>2 DEF DetachedUsed, ChunkOf
<1>10. ASSUME NEW n \in DataSlots, ImmediateData(n) PROVE DetachedUsed'
  <2>1. /\ UNCHANGED <<msg, where, sent, read, chunk, immediate, attached>>
        /\ immediate /\ pPc # "gone"
    BY <1>10 DEF ImmediateData, threadVars
  <2>2. QED
    BY <2>1 DEF DetachedUsed, ChunkOf
<1>11. ASSUME NEW n \in DataSlots, ImmediateSwitchChunk(n) PROVE DetachedUsed'
  <2>1. PICK c \in Chunks :
          /\ EnterChunk(c)
          /\ chunk' = Recycled([chunk EXCEPT ![c] = "used"], wChunk)
    BY <1>11 DEF ImmediateSwitchChunk
  <2>2. /\ immediate' /\ sent' = sent + 2 /\ read' = sent + 2 /\ sent \in Nat
        /\ pPc # "gone" /\ chunk \in [Chunks -> {"free", "used", "stashed"}]
    BY <1>11, <2>1 DEF ImmediateSwitchChunk, EnterChunk, threadVars, CountInv, TypeOK
  <2>3. where'[sent + 2] = <<c, 0>> /\ c # wChunk
    BY <2>1, <2>2, EnterChunkPlaces
  <2>4. chunk'[c] = "used" /\ (read' + 1)..sent' = {}
    BY <2>1, <2>2, <2>3 DEF Recycled
  <2>5. QED
    BY <2>2, <2>3, <2>4 DEF DetachedUsed, ChunkOf
<1>12. ASSUME ImmediateFree PROVE DetachedUsed'
  BY <1>12, DetachedImmediateFree
<1>13. ASSUME ConsumerStep \/ SpuriousWakeup, ~FlushEnd PROVE attached'
  <2>1. attached' = attached /\ cPc \notin {"none", "exited"}
    BY <1>13 DEF ConsumerStep, SpuriousWakeup, Lock, PullLocked, Sleep, PullAwake, Read,
       ExecPlain, ExecSwitch, ExecFree, ExecWait, ExecFinish, ExecTerminate
  <2>2. QED
    BY <2>1 DEF CountInv, ModesExclusive
<1>14. ASSUME FlushEnd PROVE DetachedUsed'
  <2>1. /\ cPc = "flushed" /\ UNCHANGED <<msg, where, sent, read, chunk, wData, pPc>>
        /\ attached' = attached \/ rTerminate
    BY <1>14 DEF FlushEnd, producerSide, memoryVars
  <2>2. attached /\ read \in Nat /\ sent \in Nat
    BY <2>1 DEF CountInv, ModesExclusive, TypeOK
  <2>3. CASE ~rTerminate
    BY <1>1, <2>1, <2>2, <2>3
  <2>4. CASE rTerminate
    <3>1. read = sent /\ pPc \in {"push", "notify", "wait", "join"} /\ pReq.kind = "Terminate"
      BY <2>1, <2>4 DEF BlockInv, Ending
    <3>2. wData = {} /\ chunk[ChunkOf(where[read])] = "used" /\ (read + 1)..sent = {}
      BY <2>2, <3>1 DEF DataInv, KickInv, KickKinds, ChainInv, Chain, Owned
    <3>3. QED
      BY <2>1, <3>2 DEF DetachedUsed, ChunkOf
  <2>5. QED
    BY <2>3, <2>4
<1>15. ASSUME RunConsumerThread \/ Destroy PROVE attached' \/ pPc' = "gone"
  BY <1>15 DEF RunConsumerThread, Destroy
<1>16. CASE UNCHANGED vars
  BY <1>16, DetachedStutter DEF vars, memoryVars, historyVars, threadVars
<1>17. QED
  BY <1>1, <1>2, <1>3, <1>4, <1>5, <1>6, <1>7, <1>8, <1>9, <1>10, <1>11, <1>12, <1>13,
     <1>14, <1>15, <1>16 DEF Next, ProducerCall, ProducerStep

LEMMA DetachedInit == Init => DetachedUsed
<1> SUFFICES ASSUME Init PROVE DetachedUsed
  OBVIOUS
<1>1. read = 1 /\ sent = 1 /\ immediate /\ where[1] = <<wChunk, 0>> /\ chunk[wChunk] = "used"
  BY DEF Init
<1>2. QED
  BY <1>1 DEF DetachedUsed, ChunkOf

-----------------------------------------------------------------------------
(* Every reachable state.                                                  *)

MemoryInv == CountInv /\ ChainInv /\ DataInv /\ BlockInv /\ DetachedUsed

(* The chain, the argument blocks and the handshake stand together: what a *)
(* thread leaves when it ends keeps the memory of the detached queue.      *)
THEOREM MemoryCorrect == Spec => []MemoryInv
<1>1. Init => MemoryInv
  BY CountInvInit, ChainInvInit, DataInvInit, BlockInit, DetachedInit DEF MemoryInv
<1>2. MemoryInv /\ [Next]_vars => MemoryInv'
  <2> SUFFICES ASSUME CountInv, ChainInv, DataInv, BlockInv, DetachedUsed, [Next]_vars
               PROVE  MemoryInv'
    BY DEF MemoryInv
  <2>1. BlockInv'
    BY BlockedStep, SignalledStep, EndingStep DEF BlockInv
  <2>2. QED
    BY <2>1, CountInvStep, ChainInvStep, DataInvStep, DetachedStep DEF MemoryInv
<1>3. QED
  BY <1>1, <1>2, PTL DEF Spec

(* The consumer takes every message exactly once and in the order of       *)
(* placement, through every switch of chunks and every argument block.     *)
THEOREM FifoCorrect == Spec => []Fifo
<1>1. MemoryInv => Fifo
  <2> SUFFICES ASSUME CountInv, ChainInv PROVE Fifo
    BY DEF MemoryInv
  <2>1. read \in read..sent
    BY DEF CountInv, TypeOK, Counted
  <2>2. QED
    BY <2>1 DEF ChainInv, Chain, Fifo
<1>2. QED
  BY <1>1, MemoryCorrect, PTL

(* The producer's unlocked write to its last message's _next never meets   *)
(* the consumer's read of that field.                                      *)
THEOREM NoLinkRaceCorrect == Spec => []NoLinkRace
<1>1. MemoryInv => NoLinkRace
  <2> SUFFICES ASSUME CountInv, ChainInv, HasNewMessage PROVE rLast # wLast
    BY DEF NoLinkRace, MemoryInv
  <2>1. read < sent /\ read \in Nat /\ sent \in Nat
    BY ReadHasNext
  <2>2. read \in read..sent /\ sent \in read..sent /\ read # sent
    BY <2>1
  <2>3. QED
    BY <2>2 DEF ChainInv, Chain, Disjoint
<1>2. QED
  BY <1>1, MemoryCorrect, PTL

(* No chunk that the allocator may hand out holds the message whose _next  *)
(* the consumer reads, an unread message or an argument block that is      *)
(* still to be read: FreeChunksInFreeQueue never frees memory in use.      *)
THEOREM MemoryLiveCorrect == Spec => []MemoryLive
<1>1. MemoryInv => MemoryLive
  <2> SUFFICES ASSUME CountInv, ChainInv, DataInv PROVE MemoryLive
    BY DEF MemoryInv
  <2>1. read \in Nat /\ sent \in Nat /\ read \in read..sent /\ rLast = where[read]
    BY DEF CountInv, TypeOK, Counted, ChainInv, Chain
  <2>2. chunk[ChunkOf(rLast)] # "free"
    BY <2>1 DEF ChainInv, Owned
  <2>3. ASSUME NEW i \in (read + 1)..sent
        PROVE  /\ chunk[ChunkOf(where[i])] = "used"
               /\ \A c \in msg[where[i]].data : chunk[c] # "free"
    <3>1. i \in read..sent /\ Live(i)
      BY <2>1 DEF Live
    <3>2. QED
      BY <3>1 DEF ChainInv, Owned, DataInv, BlocksSafe, SafeBefore
  <2>4. ASSUME cPc = "exec" PROVE \A c \in msg[rLast].data : chunk[c] # "free"
    <3>1. Live(read)
      BY <2>1, <2>4 DEF Live
    <3>2. QED
      BY <2>1, <3>1 DEF DataInv, BlocksSafe, SafeBefore
  <2>5. \A c \in wData : chunk[c] # "free"
    BY DEF DataInv, BlocksSafe, SafeBefore
  <2>6. QED
    BY <2>2, <2>3, <2>4, <2>5 DEF MemoryLive
<1>2. QED
  BY <1>1, MemoryCorrect, PTL

(* Every chunk a message was placed in is given back: a drained queue      *)
(* holds the writer's chunk alone, a destroyed one none.                   *)
THEOREM NoChunkLostCorrect == Spec => []NoChunkLost
<1>1. Init => AccountInv
  BY AccountInit
<1>2. MemoryInv /\ AccountInv /\ [Next]_vars => AccountInv'
  BY AccountStep DEF MemoryInv
<1>3. MemoryInv /\ AccountInv => NoChunkLost
  <2> SUFFICES ASSUME CountInv, AccountInv, read = sent, cPc # "exec"
               PROVE  {c \in Chunks : chunk[c] = "used"} =
                        IF pPc = "gone" THEN {} ELSE {wChunk}
    BY DEF NoChunkLost, MemoryInv
  <2>1. \A c \in Chunks : chunk[c] = "used" <=> c = wChunk /\ pPc # "gone"
    BY AccountParts, DrainedAccount DEF Account
  <2>2. wChunk \in Chunks
    BY DEF CountInv, TypeOK
  <2>3. QED
    BY <2>1, <2>2
<1>4. QED
  BY <1>1, <1>2, <1>3, MemoryCorrect, PTL DEF Spec

(* The linked chunks implement the channel: each step of the queue is a    *)
(* step of the channel or none, whatever the sizes, the counters' width    *)
(* and the chunks.                                                         *)
THEOREM ChannelCorrect == Spec => ImplementsChannel
<1>1. Init => Channel!Init
  <2> SUFFICES ASSUME Init PROVE Channel!Init
    OBVIOUS
  <2>1. Counts /\ read = 1 /\ published = 1 /\ sent = 1
    BY CountInvInit, ChainInvInit, CountsInv DEF Init
  <2>2. Ranks(1, 1) = << >>
    BY RanksEmpty
  <2>3. QED
    BY <2>1, <2>2 DEF Channel!Init, Counts
<1>2. MemoryInv => Counts
  BY CountsInv DEF MemoryInv
<1>3. Counts /\ Counts' /\ MemoryInv /\ [Next]_vars => [Channel!Next]_Channel!channel
  <2> SUFFICES ASSUME Counts, Counts', CountInv, ChainInv, [Next]_vars
               PROVE  [Channel!Next]_Channel!channel
    BY DEF MemoryInv
  <2>1. CASE sent' \in {sent + 1, sent + 2} /\ UNCHANGED <<read, published>>
    BY <2>1, PutStep DEF Channel!Next
  <2>2. CASE published' = sent /\ UNCHANGED <<read, sent>>
    BY <2>2, PublishStep DEF Channel!Next
  <2>3. CASE read < published /\ read' = read + 1 /\ UNCHANGED <<published, sent>>
    BY <2>3, TakeStep DEF Channel!Next
  <2>4. CASE /\ read = sent /\ published = sent
             /\ sent' = sent + 2 /\ published' = sent + 2 /\ read' = sent + 2
    BY <2>4, ThroughStep DEF Channel!Next
  <2>5. CASE UNCHANGED <<read, published, sent>>
    BY <2>5 DEF Channel!channel, Counts
  <2>6. QED
    BY <2>1, <2>2, <2>3, <2>4, <2>5, CountsStep
<1>4. QED
  BY <1>1, <1>2, <1>3, MemoryCorrect, PTL DEF Spec, ImplementsChannel, Channel!Spec

(* kickAndWait and terminateConsumerThread come back only when every       *)
(* message was executed, and a finished thread leaves none.                *)
THEOREM WaitDrainsCorrect == Spec => []WaitDrains
<1>1. MemoryInv => WaitDrains
  <2> SUFFICES ASSUME CountInv, BlockInv PROVE WaitDrains
    BY DEF MemoryInv
  <2>1. pPc = "wait" /\ event => read = sent
    BY DEF BlockInv, Ending, SignalledDone
  <2>2. pPc = "join" \/ cPc = "exited" => read = sent
    BY DEF BlockInv, Ending, Blocking
  <2>3. read = sent => rNew = 0
    BY DEF CountInv, TypeOK, Counted
  <2>4. QED
    BY <2>1, <2>2, <2>3 DEF WaitDrains
<1>2. QED
  BY <1>1, MemoryCorrect, PTL

(* Mutex, sleep and awaited message fit together in every reachable state. *)
THEOREM WakeCorrect == Spec => []WakeInv
<1>1. Init => WakeInv
  BY WakeInit
<1>2. MemoryInv /\ WakeInv /\ [Next]_vars => WakeInv'
  BY MutexStep, MissedStep, AwaitedStep DEF WakeInv, MemoryInv
<1>3. QED
  BY <1>1, <1>2, MemoryCorrect, PTL DEF Spec

(* Neither thread sleeps for what the other has already done: the safety   *)
(* part of "no wake-up is lost", by the mutex that kick takes before it    *)
(* notifies and that readMessage holds from its test to its sleep.         *)
THEOREM NobodyWaitsInVainCorrect == Spec => []NobodyWaitsInVain
<1>1. MemoryInv /\ WakeInv => NobodyWaitsInVain
  <2> SUFFICES ASSUME CountInv, BlockInv, WakeInv PROVE NobodyWaitsInVain
    BY DEF MemoryInv
  <2>0. /\ NothingMissed /\ AwaitedLive /\ Ending /\ ModesExclusive
        /\ read \in Nat /\ sent \in Nat
    BY DEF CountInv, TypeOK, BlockInv, WakeInv
  <2>1. Sleeping /\ read < published => pPc = "notify"
    BY <2>0 DEF NothingMissed
  <2>2. ASSUME pPc = "wait", ~event
        PROVE  /\ cPc \notin {"none", "drowsy", "asleep", "exited"}
               /\ read < published \/ cPc = "exec"
    <3>1. published = sent /\ pReq.kind \in Blocking
      BY <2>0, <2>2 DEF NothingMissed, Ending
    <3>2. Live(sent)
      BY <2>0, <2>2, <3>1 DEF AwaitedLive
    <3>3. read < published \/ cPc = "exec"
      BY <2>0, <3>1, <3>2 DEF Live
    <3>4. cPc \notin {"drowsy", "asleep"}
      BY <2>1, <2>2, <3>3 DEF Sleeping
    <3>5. cPc # "none"
      BY <2>0, <2>2, <3>1 DEF Ending
    <3>6. cPc # "exited"
      <4>1. SUFFICES ASSUME cPc = "exited" PROVE FALSE
        OBVIOUS
      <4>2. read = sent
        BY <2>0, <4>1 DEF Ending
      <4>3. QED
        BY <2>0, <3>1, <3>3, <4>1, <4>2
    <3>7. QED
      BY <3>3, <3>4, <3>5, <3>6
  <2>3. pPc = "join" => cPc \in {"flushed", "exited"}
    BY <2>0 DEF Ending, Blocking
  <2>4. QED
    BY <2>1, <2>2, <2>3 DEF NobodyWaitsInVain
<1>2. QED
  BY <1>1, MemoryCorrect, WakeCorrect, PTL
=============================================================================
