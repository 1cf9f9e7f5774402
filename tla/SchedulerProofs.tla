-------------------------- MODULE SchedulerProofs ---------------------------
(***************************************************************************)
(* The timers of Scheduler, for any targets, keys, timings and number of   *)
(* timers: how long they live, that the walk of update stays on its way    *)
(* whatever call-backs do, and that a frame updates each timer once.       *)
(***************************************************************************)
EXTENDS Scheduler, FiniteSetTheorems, SequenceTheorems, WellFoundedInduction, TLAPS

-----------------------------------------------------------------------------
(* The invariant.                                                          *)

Running == {"delayed", "while", "callback", "after"}
Visiting == Running \cup {"timer", "leave"}

(* The timers of a target, and whether one belongs to any.                 *)
Of(g) == ToSet(timers[g])
Listed(t) == \E g \in Targets : t \in Of(g)

TypeInv ==
  /\ order \in Seq(Targets) /\ IsInjective(order) /\ pos \in 1..Len(order) + 1
  /\ timers \in [Targets -> Seq(Ids)] /\ isPaused \in [Targets -> BOOLEAN]
  /\ refs \in [Ids -> 0..1]
  /\ pc \in Visiting \cup {"idle", "target"}
  /\ dt \in Steps \cup {0} /\ interval \in Nat
  /\ currentTarget \in Targets \cup {NoTarget} /\ targetSalvaged \in BOOLEAN
  /\ timerIndex \in 0..Cardinality(Ids) + 1
  /\ currentTimer \in Ids \cup {None} /\ timerSalvaged \in BOOLEAN
  /\ updated \subseteq Ids /\ due \subseteq Ids
  /\ skipped \subseteq Targets /\ again \subseteq Targets

Timer == [key : Keys, times : Nat, elapsed : Nat \cup {-1},
          interval : Nat, repeat : Nat \cup {Forever}, delay : Nat]

(* A timer is in one list, and there once.                                 *)
ListsApart ==
  /\ \A g \in Targets : IsInjective(timers[g])
  /\ \A g, h \in Targets : \A t \in Of(g) \cap Of(h) : g = h

RefsInv ==
  \A t \in Ids :
    refs[t] = IF Listed(t) \/ (t = currentTimer /\ timerSalvaged) THEN 1 ELSE 0

(* What update holds.                                                      *)
CurrentInv ==
  /\ pc \in Running <=> currentTimer # None
  /\ pc \in Visiting <=> currentTarget # NoTarget
  /\ currentTimer # None =>
       IF timerSalvaged THEN ~Listed(currentTimer) ELSE currentTimer \in Of(currentTarget)
  /\ timerSalvaged => currentTimer # None
  /\ targetSalvaged => currentTarget # NoTarget
  /\ pc \in Running => timerIndex <= Cardinality(Ids)
  /\ pc = "timer" => timerIndex > 0

(* What has been visited in this frame, and what has not.                  *)
HistoryInv ==
  /\ pc = "idle" => updated = {} /\ due = {} /\ skipped = {} /\ again = {}
  /\ \A t \in updated \cup due : Listed(t)
  /\ \A g \in Targets : isPaused[g] => Of(g) \cap due = {}

Done(t) == t \in due => t \in updated
Behind == Before(order, pos)
Ahead == Beyond(order, IF pc = "target" THEN pos - 1 ELSE pos)
Reached == IF pc = "timer" THEN timerIndex - 1 ELSE timerIndex

WalkInv ==
  pc # "idle" =>
    /\ \A g \in Behind \ skipped : \A t \in Of(g) : Done(t)
    /\ \A g \in Ahead \ again : Of(g) \cap updated = {}

PlaceInv ==
  /\ pc \in Running \cup {"timer"} =>
       \A i \in 1..Len(timers[currentTarget]) :
         LET t == timers[currentTarget][i]
         IN  IF i <= Reached THEN Done(t) ELSE t \notin updated \/ currentTarget \in again
  /\ pc = "leave" => \A t \in Of(currentTarget) : Done(t)

Core ==
  /\ TypeInv /\ ListsApart /\ RefsInv /\ CurrentInv /\ IteratorValid
  /\ HistoryInv /\ WalkInv /\ PlaceInv

(* What the fields of the timers say.                                      *)
KeysApart ==
  \A g \in Targets : \A t, u \in Of(g) : timer[t].key = timer[u].key => t = u

TimingInv ==
  /\ pc = "delayed" => timer[currentTimer].elapsed >= timer[currentTimer].delay
  /\ pc = "while" => timer[currentTimer].elapsed >= 0
  /\ pc = "callback" => timer[currentTimer].elapsed >= interval

FieldsInv == timer \in [Ids -> Timer] /\ KeysApart /\ TimingInv /\ RepeatKept

IInv == Core /\ FieldsInv

-----------------------------------------------------------------------------
(* Sequences, and least elements.                                          *)

LEMMA InToSet ==
  ASSUME NEW S, NEW s \in Seq(S)
  PROVE  /\ ToSet(s) \subseteq S
         /\ \A t : t \in ToSet(s) <=> \E i \in 1..Len(s) : s[i] = t
         /\ ToSet(s) = {} <=> s = <<>>
<1>1. DOMAIN s = 1..Len(s) /\ \A i \in 1..Len(s) : s[i] \in S
  OBVIOUS
<1>2. Len(s) \in Nat /\ (Len(s) = 0 <=> s = <<>>)
  BY EmptySeq
<1>3. s # <<>> => 1 \in 1..Len(s)
  BY <1>2
<1>4. \A t : t \in ToSet(s) <=> \E i \in 1..Len(s) : s[i] = t
  BY <1>1 DEF ToSet
<1>5. ToSet(s) \subseteq S
  BY <1>1, <1>4
<1>6. s = <<>> => ToSet(s) = {}
  BY <1>2, <1>4
<1>7. QED
  BY <1>3, <1>4, <1>5, <1>6

LEMMA InjectiveSeq ==
  ASSUME NEW S, NEW s \in Seq(S)
  PROVE  IsInjective(s) <=> \A i, j \in 1..Len(s) : s[i] = s[j] => i = j
<1>1. DOMAIN s = 1..Len(s)
  OBVIOUS
<1>2. QED
  BY <1>1 DEF IsInjective

LEMMA RemoveAtElements ==
  ASSUME NEW S, NEW s \in Seq(S), NEW i \in 1..Len(s)
  PROVE  /\ RemoveAt(s, i) \in Seq(S) /\ Len(RemoveAt(s, i)) = Len(s) - 1
         /\ \A j \in 1..Len(s) - 1 :
              RemoveAt(s, i)[j] = IF j < i THEN s[j] ELSE s[j + 1]
<1> DEFINE front == SubSeq(s, 1, i - 1)
           back == SubSeq(s, i + 1, Len(s))
<1>1. i \in Nat /\ Len(s) \in Nat /\ 1 <= i /\ i <= Len(s)
  OBVIOUS
<1>2. /\ front \in Seq(S) /\ Len(front) = i - 1
      /\ \A j \in 1..i - 1 : front[j] = s[j]
  BY <1>1, SubSeqProperties
<1>3. /\ back \in Seq(S) /\ Len(back) = Len(s) - i
      /\ \A j \in 1..Len(s) - i : back[j] = s[j + i]
  BY <1>1, SubSeqProperties
<1>4. RemoveAt(s, i) = front \o back
  BY DEF RemoveAt
<1> HIDE DEF front, back
<1>5. /\ front \o back \in Seq(S) /\ Len(front \o back) = Len(front) + Len(back)
      /\ \A j \in 1..Len(front) + Len(back) :
           (front \o back)[j] = IF j <= Len(front) THEN front[j] ELSE back[j - Len(front)]
  BY <1>2, <1>3, ConcatProperties
<1>6. ASSUME NEW j \in 1..Len(s) - 1
      PROVE  (front \o back)[j] = IF j < i THEN s[j] ELSE s[j + 1]
  <2>1. CASE j < i
    BY <1>1, <1>2, <1>3, <1>5, <2>1
  <2>2. CASE ~(j < i)
    <3>1. j - (i - 1) \in 1..Len(s) - i /\ (j - (i - 1)) + i = j + 1
      BY <1>1, <2>2
    <3>2. (front \o back)[j] = back[j - (i - 1)]
      BY <1>1, <1>2, <1>3, <1>5, <2>2
    <3>3. QED
      BY <1>3, <2>2, <3>1, <3>2
  <2>3. QED
    BY <2>1, <2>2
<1>7. QED
  BY <1>1, <1>2, <1>3, <1>4, <1>5, <1>6

(* An element that occurs once is gone.                                    *)
LEMMA RemoveAtSet ==
  ASSUME NEW S, NEW s \in Seq(S), IsInjective(s), NEW i \in 1..Len(s)
  PROVE  /\ IsInjective(RemoveAt(s, i))
         /\ ToSet(RemoveAt(s, i)) = ToSet(s) \ {s[i]}
         /\ RemoveAt(s, i) = <<>> <=> Len(s) = 1
<1>1. PICK r : r = RemoveAt(s, i)
  OBVIOUS
<1>2. /\ r \in Seq(S) /\ Len(r) = Len(s) - 1
      /\ \A j \in 1..Len(s) - 1 : r[j] = IF j < i THEN s[j] ELSE s[j + 1]
  BY <1>1, RemoveAtElements
<1>3. Len(s) \in Nat /\ \A j, k \in 1..Len(s) : s[j] = s[k] => j = k
  BY InjectiveSeq
<1>4. \A j, k \in 1..Len(r) : r[j] = r[k] => j = k
  <2> SUFFICES ASSUME NEW j \in 1..Len(r), NEW k \in 1..Len(r), r[j] = r[k]
               PROVE  j = k
    OBVIOUS
  <2>1. PICK a \in 1..Len(s) : a = (IF j < i THEN j ELSE j + 1) /\ r[j] = s[a]
    BY <1>2, <1>3
  <2>2. PICK b \in 1..Len(s) : b = (IF k < i THEN k ELSE k + 1) /\ r[k] = s[b]
    BY <1>2, <1>3
  <2>3. a = b
    BY <1>3, <2>1, <2>2
  <2>4. QED
    BY <1>2, <1>3, <2>1, <2>2, <2>3
<1>5. IsInjective(r)
  BY <1>2, <1>4, InjectiveSeq
<1>6. \A t : t \in ToSet(r) <=> t \in ToSet(s) /\ t # s[i]
  <2> TAKE t
  <2>1. ASSUME t \in ToSet(r) PROVE t \in ToSet(s) /\ t # s[i]
    <3>1. PICK j \in 1..Len(r) : r[j] = t
      BY <1>2, <2>1, InToSet
    <3>2. PICK a \in 1..Len(s) : a = (IF j < i THEN j ELSE j + 1) /\ r[j] = s[a]
      BY <1>2, <1>3
    <3>3. a # i
      BY <1>2, <1>3, <3>2
    <3>4. QED
      BY <1>3, <3>1, <3>2, <3>3, InToSet
  <2>2. ASSUME t \in ToSet(s), t # s[i] PROVE t \in ToSet(r)
    <3>1. PICK a \in 1..Len(s) : s[a] = t
      BY <2>2, InToSet
    <3>2. a # i
      BY <2>2, <3>1
    <3>3. PICK j \in 1..Len(r) : a = (IF j < i THEN j ELSE j + 1)
      <4>1. CASE a < i
        BY <1>2, <1>3, <4>1
      <4>2. CASE a > i
        <5>1. a - 1 \in 1..Len(r) /\ ~(a - 1 < i) /\ (a - 1) + 1 = a
          BY <1>2, <1>3, <4>2
        <5>2. QED
          BY <5>1
      <4>3. QED
        BY <1>3, <3>2, <4>1, <4>2
    <3>4. r[j] = s[a]
      BY <1>2, <1>3, <3>3
    <3>5. QED
      BY <1>2, <3>1, <3>4, InToSet
  <2>3. QED
    BY <2>1, <2>2
<1>7. ToSet(r) = ToSet(s) \ {s[i]}
  BY <1>6
<1>8. r = <<>> <=> Len(s) = 1
  BY <1>2, <1>3, EmptySeq
<1>9. QED
  BY <1>1, <1>5, <1>7, <1>8

(* The sequences of a finite set have all of its elements, once.           *)
LEMMA SeqsOfSet ==
  ASSUME NEW S, IsFiniteSet(S), NEW r \in SetToSeqs(S)
  PROVE  r \in Seq(S) /\ IsInjective(r) /\ ToSet(r) = S
<1>1. PICK n \in Nat : n = Cardinality(S)
  BY FS_CardinalityType
<1>2. PICK d : d = 1..n
  OBVIOUS
<1>3. r \in [d -> S] /\ \A i, j \in d : i # j => r[i] # r[j]
  BY <1>1, <1>2 DEF SetToSeqs
<1>4. IsInjective(r) /\ r \in Injection(d, S)
  BY <1>3 DEF IsInjective, Injection
<1>5. Cardinality(d) = n
  <2>1. 1 \in Int /\ n \in Int /\ (1 > n <=> n = 0)
    OBVIOUS
  <2>2. Cardinality(1..n) = IF 1 > n THEN 0 ELSE n - 1 + 1
    BY <2>1, FS_Interval
  <2>3. QED
    BY <1>2, <2>1, <2>2
<1>6. Cardinality(d) = Cardinality(S)
  BY <1>1, <1>5
<1>7. r \in Surjection(d, S)
  BY <1>4, <1>6, FS_Injection
<1>8. r \in Seq(S) /\ DOMAIN r = d
  BY <1>2, <1>3
<1>9. \A t \in S : \E i \in d : r[i] = t
  BY <1>7 DEF Surjection
<1>10. ToSet(r) = S
  BY <1>3, <1>8, <1>9 DEF ToSet
<1>11. QED
  BY <1>4, <1>8, <1>10

LEMMA ToSetFinite ==
  ASSUME NEW S, NEW s \in Seq(S)
  PROVE  IsFiniteSet(ToSet(s)) /\ Cardinality(ToSet(s)) <= Len(s)
<1>1. PICK n \in Nat : n = Len(s)
  OBVIOUS
<1>2. PICK d : d = 1..n
  OBVIOUS
<1>3. IsFiniteSet(d) /\ Cardinality(d) = n
  <2>1. 1 \in Int /\ n \in Int /\ (1 > n <=> n = 0)
    OBVIOUS
  <2>2. IsFiniteSet(1..n) /\ Cardinality(1..n) = IF 1 > n THEN 0 ELSE n - 1 + 1
    BY <2>1, FS_Interval
  <2>3. QED
    BY <1>2, <2>1, <2>2
<1>4. DOMAIN s = d /\ s \in [d -> S]
  BY <1>1, <1>2
<1>5. s \in Surjection(d, ToSet(s))
  BY <1>4 DEF Surjection, ToSet
<1>6. IsFiniteSet(ToSet(s)) /\ Cardinality(ToSet(s)) <= Cardinality(d)
  BY <1>3, <1>5, FS_Surjection
<1>7. QED
  BY <1>1, <1>3, <1>6

LEMMA AppendSet ==
  ASSUME NEW S, NEW s \in Seq(S), IsInjective(s), NEW e \in S, e \notin ToSet(s)
  PROVE  /\ Append(s, e) \in Seq(S) /\ Append(s, e) # <<>>
         /\ Len(Append(s, e)) = Len(s) + 1
         /\ \A j \in 1..Len(s) + 1 : Append(s, e)[j] = IF j = Len(s) + 1 THEN e ELSE s[j]
         /\ IsInjective(Append(s, e))
         /\ ToSet(Append(s, e)) = ToSet(s) \cup {e}
<1>1. PICK r : r = Append(s, e)
  OBVIOUS
<1>2. /\ r \in Seq(S) /\ r # <<>> /\ Len(r) = Len(s) + 1
      /\ \A j \in 1..Len(s) : r[j] = s[j]
      /\ r[Len(s) + 1] = e
  BY <1>1, AppendProperties
<1>3. Len(s) \in Nat /\ \A j, k \in 1..Len(s) : s[j] = s[k] => j = k
  BY InjectiveSeq
<1>4. \A j \in 1..Len(s) : s[j] # e
  BY InToSet
<1>5. \A j \in 1..Len(s) + 1 : r[j] = IF j = Len(s) + 1 THEN e ELSE s[j]
  BY <1>2, <1>3
<1>6. \A j, k \in 1..Len(r) : r[j] = r[k] => j = k
  BY <1>2, <1>3, <1>4, <1>5
<1>7. IsInjective(r)
  BY <1>2, <1>6, InjectiveSeq
<1>8. \A t : t \in ToSet(r) <=> t \in ToSet(s) \/ t = e
  <2> TAKE t
  <2>1. t \in ToSet(r) <=> \E j \in 1..Len(s) + 1 : r[j] = t
    BY <1>2, InToSet
  <2>2. t \in ToSet(s) <=> \E j \in 1..Len(s) : s[j] = t
    BY InToSet
  <2>3. QED
    BY <1>2, <1>3, <2>1, <2>2
<1>9. ToSet(r) = ToSet(s) \cup {e}
  BY <1>8
<1>10. QED
  BY <1>1, <1>2, <1>5, <1>7, <1>9

(* A list of timers is no longer than there are timers.                    *)
LEMMA ListBounded ==
  ASSUME NEW S, IsFiniteSet(S), NEW s \in Seq(S), IsInjective(s)
  PROVE  Len(s) <= Cardinality(S) /\ Cardinality(S) \in Nat
<1>1. s \in [1..Len(s) -> S] /\ Len(s) \in Nat
  OBVIOUS
<1>2. s \in Injection(1..Len(s), S)
  BY <1>1 DEF Injection
<1>3. PICK d : d = 1..Len(s)
  OBVIOUS
<1>4. s \in Injection(d, S)
  BY <1>2, <1>3
<1>5. Cardinality(d) <= Cardinality(S)
  BY <1>4, FS_Injection
<1>6. PICK n \in Nat : n = Len(s)
  BY <1>1
<1>7. 1..n = d /\ Cardinality(1..n) = n
  <2>1. 1 \in Int /\ n \in Int /\ (1 > n <=> n = 0)
    BY <1>6
  <2>2. Cardinality(1..n) = IF 1 > n THEN 0 ELSE n - 1 + 1
    BY <2>1, FS_Interval
  <2>3. QED
    BY <1>3, <1>6, <2>1, <2>2
<1>8. Cardinality(S) \in Nat
  BY FS_CardinalityType
<1>9. QED
  BY <1>5, <1>6, <1>7, <1>8

Below == {ss \in Nat \X Nat : ss[1] < ss[2]}

LEMMA BelowWellFounded == IsWellFoundedOn(Below, Nat)
  BY NatLessThanWellFounded DEF OpToRel, Below

LEMMA MinOf ==
  ASSUME NEW S \in SUBSET Nat, S # {}
  PROVE  Min(S) \in S /\ \A y \in S : Min(S) <= y
<1>1. PICK x \in S : \A y \in S : ~(<<y, x>> \in Below)
  BY WFMin, BelowWellFounded
<1>2. \A y \in Nat : y < x => <<y, x>> \in Below
  BY DEF Below
<1>3. \A y \in S : x =< y
  <2> TAKE y \in S
  <2>1. x \in Nat /\ y \in Nat /\ ~(y < x)
    BY <1>1, <1>2, Zenon
  <2>2. QED
    BY <2>1
<1>4. QED
  BY <1>3 DEF Min

-----------------------------------------------------------------------------
(* The iterator, when an entry of the map goes or comes.                   *)

(* A walk at p of o goes on at q of r, from which entry i is gone.         *)
WithoutEntry(o, p, i, r, q) ==
  /\ r \in Seq(Targets) /\ IsInjective(r) /\ q \in 1..Len(r) + 1
  /\ ToSet(r) = ToSet(o) \ {o[i]}
  /\ Before(r, q) \subseteq Before(o, p) /\ Beyond(r, q) \subseteq Beyond(o, p)
  /\ p <= Len(o) /\ p # i => q <= Len(r) /\ r[q] = o[p]

LEMMA WalkRemove ==
  ASSUME NEW o \in Seq(Targets), IsInjective(o), NEW p \in 1..Len(o) + 1,
         NEW i \in 1..Len(o)
  PROVE  WithoutEntry(o, p, i, RemoveAt(o, i), IF i < p THEN p - 1 ELSE p)
<1> DEFINE place == IF i < p THEN p - 1 ELSE p
<1>1. PICK r : r = RemoveAt(o, i)
  OBVIOUS
<1>2. PICK q : q = place
  OBVIOUS
<1>3. /\ r \in Seq(Targets) /\ Len(r) = Len(o) - 1
      /\ \A j \in 1..Len(o) - 1 : r[j] = IF j < i THEN o[j] ELSE o[j + 1]
  BY <1>1, RemoveAtElements
<1>4. IsInjective(r) /\ ToSet(r) = ToSet(o) \ {o[i]}
  BY <1>1, RemoveAtSet
<1>5. PICK n \in Nat : n = Len(o)
  OBVIOUS
<1>6. q = IF i < p THEN p - 1 ELSE p
  BY <1>2
<1> HIDE DEF place
<1>7. q \in 1..Len(r) + 1
  BY <1>6, <1>3, <1>5
<1>8. ASSUME NEW j \in 1..q - 1 PROVE r[j] \in {o[k] : k \in 1..p - 1}
  <2>1. CASE j < i
    <3>1. j \in 1..p - 1 /\ j \in 1..Len(o) - 1
      BY <1>6, <1>3, <1>5, <1>7, <2>1
    <3>2. r[j] = o[j]
      BY <1>3, <2>1, <3>1
    <3>3. QED
      BY <3>1, <3>2
  <2>2. CASE ~(j < i)
    <3>1. j + 1 \in 1..p - 1 /\ r[j] = o[j + 1]
      BY <1>6, <1>3, <1>5, <1>7, <2>2
    <3>2. QED
      BY <3>1
  <2>3. QED
    BY <2>1, <2>2
<1>9. ASSUME NEW j \in q + 1..Len(r) PROVE r[j] \in {o[k] : k \in p + 1..Len(o)}
  <2>1. CASE j < i
    <3>1. j \in p + 1..Len(o) /\ r[j] = o[j]
      BY <1>6, <1>3, <1>5, <1>7, <2>1
    <3>2. QED
      BY <3>1
  <2>2. CASE ~(j < i)
    <3>1. j + 1 \in p + 1..Len(o) /\ r[j] = o[j + 1]
      BY <1>6, <1>3, <1>5, <1>7, <2>2
    <3>2. QED
      BY <3>1
  <2>3. QED
    BY <2>1, <2>2
<1>10. ASSUME p <= Len(o), p # i PROVE q <= Len(r) /\ r[q] = o[p]
  <2>1. CASE i < p
    <3>1. q = p - 1 /\ q \in 1..Len(o) - 1 /\ ~(q < i) /\ q + 1 = p
      BY <1>6, <1>5, <1>10, <2>1
    <3>2. QED
      BY <1>3, <1>5, <3>1
  <2>2. CASE p < i
    BY <1>6, <1>3, <1>5, <1>10, <2>2
  <2>3. QED
    BY <1>5, <1>10, <2>1, <2>2
<1>11. Before(r, q) \subseteq Before(o, p) /\ Beyond(r, q) \subseteq Beyond(o, p)
  BY <1>8, <1>9 DEF Before, Beyond
<1>12. WithoutEntry(o, p, i, r, q)
  BY <1>3, <1>4, <1>7, <1>10, <1>11 DEF WithoutEntry
<1>13. WithoutEntry(o, p, i, RemoveAt(o, i), place)
  BY <1>1, <1>2, <1>12, Zenon
<1>14. QED
  BY <1>13 DEF place

(* A walk at p of o, which visits c, goes on in r, which has one entry more*)
(* and is in any order.                                                    *)
Rearranged(o, p, g, r, q) ==
  /\ r \in Seq(Targets) /\ IsInjective(r) /\ q \in 1..Len(r) /\ r[q] = o[p]
  /\ ToSet(r) = ToSet(o) \cup {g}
  /\ \A h \in Before(r, q) : h \in Before(o, p) \cup Beyond(o, p) \cup {g}
  /\ \A h \in Beyond(r, q) : h \in Before(o, p) \cup Beyond(o, p) \cup {g}

LEMMA SeqsOfTargets ==
  ASSUME NEW o \in Seq(Targets), NEW g \in Targets, NEW r \in SetToSeqs(ToSet(o) \cup {g})
  PROVE  r \in Seq(Targets) /\ IsInjective(r) /\ ToSet(r) = ToSet(o) \cup {g}
<1>1. PICK S : S = ToSet(o) \cup {g}
  OBVIOUS
<1>2. IsFiniteSet(S)
  BY <1>1, ToSetFinite, FS_AddElement
<1>3. r \in Seq(S) /\ IsInjective(r) /\ ToSet(r) = S
  BY <1>1, <1>2, SeqsOfSet
<1>4. S \subseteq Targets
  BY <1>1, InToSet
<1>5. r \in Seq(Targets)
  BY <1>3, <1>4
<1>6. QED
  BY <1>1, <1>3, <1>5

LEMMA WalkRearranged ==
  ASSUME NEW o \in Seq(Targets), IsInjective(o), NEW p \in 1..Len(o),
         NEW g \in Targets, NEW r \in SetToSeqs(ToSet(o) \cup {g}),
         NEW q \in 1..Len(r), r[q] = o[p]
  PROVE  Rearranged(o, p, g, r, q)
<1>1. r \in Seq(Targets) /\ IsInjective(r) /\ ToSet(r) = ToSet(o) \cup {g}
  BY SeqsOfTargets
<1>2. \A t : t \in ToSet(o) <=> \E i \in 1..Len(o) : o[i] = t
  BY InToSet
<1>3. \A t : t \in ToSet(r) <=> \E i \in 1..Len(r) : r[i] = t
  BY <1>1, InToSet
<1>4. q \in 1..Len(r) /\ r[q] = o[p]
  OBVIOUS
<1>5. Len(o) \in Nat /\ Len(r) \in Nat
  BY <1>1
<1>6. ASSUME NEW i \in 1..Len(r), i # q
      PROVE  r[i] \in Before(o, p) \cup Beyond(o, p) \cup {g}
  <2>1. r[i] # o[p]
    BY <1>1, <1>4, <1>6, InjectiveSeq
  <2>2. r[i] \in ToSet(o) \cup {g}
    BY <1>1, <1>3
  <2>3. ASSUME r[i] \in ToSet(o) PROVE r[i] \in Before(o, p) \cup Beyond(o, p)
    <3>1. PICK j \in 1..Len(o) : o[j] = r[i]
      BY <1>2, <2>3
    <3>2. j \in 1..p - 1 \/ j \in p + 1..Len(o)
      BY <1>5, <2>1, <3>1
    <3>3. QED
      BY <3>1, <3>2 DEF Before, Beyond
  <2>4. QED
    BY <2>2, <2>3
<1>7. /\ \A i \in 1..q - 1 : i \in 1..Len(r) /\ i # q
      /\ \A i \in q + 1..Len(r) : i \in 1..Len(r) /\ i # q
  <2>1. PICK n \in Nat : n = Len(r)
    BY <1>5
  <2>2. q \in 1..n
    BY <1>4, <2>1
  <2>3. /\ \A i \in 1..q - 1 : i \in 1..n /\ i # q
        /\ \A i \in q + 1..n : i \in 1..n /\ i # q
    BY <2>2
  <2>4. QED
    BY <2>1, <2>3, Zenon
<1>8. \A h \in Before(r, q) : h \in Before(o, p) \cup Beyond(o, p) \cup {g}
  BY <1>6, <1>7 DEF Before
<1>9. \A h \in Beyond(r, q) : h \in Before(o, p) \cup Beyond(o, p) \cup {g}
  BY <1>6, <1>7 DEF Beyond
<1>10. QED
  BY <1>1, <1>4, <1>8, <1>9 DEF Rearranged

(* Removing an entry that update is not visiting.                          *)
LEMMA EntryRemoved ==
  ASSUME TypeInv, NEW g \in ToSet(order), RemoveEntry(g),
         pc # "target", pc' # "target"
  PROVE  /\ order' \in Seq(Targets) /\ IsInjective(order') /\ pos' \in 1..Len(order') + 1
         /\ isPaused' = [isPaused EXCEPT ![g] = FALSE]
         /\ ToSet(order)' = ToSet(order) \ {g}
         /\ Behind' \subseteq Behind /\ Ahead' \subseteq Ahead
         /\ pos <= Len(order) /\ order[pos] # g =>
              pos' <= Len(order') /\ order'[pos'] = order[pos]
<1>1. PICK i : i = CHOOSE j \in 1..Len(order) : order[j] = g
  OBVIOUS
<1>2. i \in 1..Len(order) /\ order[i] = g
  BY <1>1, InToSet DEF TypeInv
<1>3. /\ order' = RemoveAt(order, i)
      /\ pos' = IF i < pos THEN pos - 1 ELSE pos
      /\ isPaused' = [isPaused EXCEPT ![g] = FALSE]
  BY <1>1 DEF RemoveEntry
<1>4. PICK r : r = order'
  OBVIOUS
<1>5. PICK q : q = pos'
  OBVIOUS
<1>6. r = RemoveAt(order, i) /\ q = IF i < pos THEN pos - 1 ELSE pos
  BY <1>3, <1>4, <1>5
<1>7. order \in Seq(Targets) /\ IsInjective(order) /\ pos \in 1..Len(order) + 1
  BY DEF TypeInv
<1>8. PICK o : o = order
  OBVIOUS
<1>9. PICK p : p = pos
  OBVIOUS
<1>10. /\ r \in Seq(Targets) /\ IsInjective(r) /\ q \in 1..Len(r) + 1
       /\ ToSet(r) = ToSet(o) \ {o[i]}
       /\ Before(r, q) \subseteq Before(o, p) /\ Beyond(r, q) \subseteq Beyond(o, p)
       /\ p <= Len(o) /\ p # i => q <= Len(r) /\ r[q] = o[p]
  <2>1. o \in Seq(Targets) /\ IsInjective(o) /\ p \in 1..Len(o) + 1 /\ i \in 1..Len(o)
    BY <1>2, <1>7, <1>8, <1>9
  <2>2. r = RemoveAt(o, i) /\ q = IF i < p THEN p - 1 ELSE p
    BY <1>6, <1>8, <1>9
  <2>3. WithoutEntry(o, p, i, RemoveAt(o, i), IF i < p THEN p - 1 ELSE p)
    BY <2>1, WalkRemove, Zenon
  <2>4. WithoutEntry(o, p, i, r, q)
    BY <2>2, <2>3, Zenon
  <2>5. QED
    BY <2>4, Zenon DEF WithoutEntry
<1>11. Behind = Before(o, p) /\ Behind' = Before(r, q)
  BY <1>4, <1>5, <1>8, <1>9 DEF Behind
<1>12. Ahead = Beyond(o, p) /\ Ahead' = Beyond(r, q)
  BY <1>4, <1>5, <1>8, <1>9 DEF Ahead
<1>13. ToSet(order)' = ToSet(r)
  BY <1>4
<1>14. Behind' \subseteq Behind /\ Ahead' \subseteq Ahead
  BY <1>10, <1>11, <1>12, Zenon
<1>15. order' \in Seq(Targets) /\ IsInjective(order') /\ pos' \in 1..Len(order') + 1
  BY <1>4, <1>5, <1>10, Zenon
<1>16. ToSet(order)' = ToSet(order) \ {g}
  BY <1>2, <1>8, <1>10, <1>13, Zenon
<1>17. pos <= Len(order) /\ order[pos] # g =>
         pos' <= Len(order') /\ order'[pos'] = order[pos]
  BY <1>2, <1>4, <1>5, <1>8, <1>9, <1>10, Zenon
<1>18. QED
  BY <1>3, <1>14, <1>15, <1>16, <1>17

(* A new entry comes anywhere and moves the others; what the walk has not  *)
(* passed over, or has not before it again, is where it was.               *)
LEMMA EntryInserted ==
  ASSUME TypeInv, NEW g \in Targets, g \notin ToSet(order), InsertEntry(g),
         currentTarget # NoTarget => pos <= Len(order) /\ order[pos] = currentTarget,
         pc # "idle" => currentTarget # NoTarget,
         pc # "target", pc' = pc
  PROVE  /\ order' \in Seq(Targets) /\ IsInjective(order') /\ pos' \in 1..Len(order') + 1
         /\ ToSet(order)' = ToSet(order) \cup {g} /\ UNCHANGED isPaused
         /\ skipped' \subseteq Targets /\ again' \subseteq Targets
         /\ pc = "idle" => UNCHANGED missed
         /\ pc # "idle" =>
              /\ \A h \in Behind' \ skipped' : h \in Behind \ skipped \/ h = g
              /\ \A h \in Ahead' \ again' : h \in Ahead \ again \/ h = g
              /\ again \subseteq again' /\ currentTarget \notin again' \ again
              /\ pos' <= Len(order') /\ order'[pos'] = order[pos]
<1>1. PICK o : o = order
  OBVIOUS
<1>2. PICK p : p = pos
  OBVIOUS
<1>3. PICK r : r = order'
  OBVIOUS
<1>4. PICK q : q = pos'
  OBVIOUS
<1>5. /\ o \in Seq(Targets) /\ IsInjective(o) /\ p \in 1..Len(o) + 1
      /\ g \notin ToSet(o) /\ r \in SetToSeqs(ToSet(o) \cup {g})
  BY <1>1, <1>2, <1>3 DEF TypeInv, InsertEntry
<1>6. /\ order' \in Seq(Targets) /\ IsInjective(order')
      /\ ToSet(order)' = ToSet(order) \cup {g} /\ Len(order') \in Nat
  <2>1. r \in Seq(Targets) /\ IsInjective(r) /\ ToSet(r) = ToSet(o) \cup {g}
    BY <1>5, SeqsOfTargets
  <2>2. QED
    BY <1>1, <1>3, <2>1
<1>7. UNCHANGED isPaused
  BY DEF InsertEntry
<1>8. CASE pc = "idle"
  <2>1. UNCHANGED <<pos, missed>>
    BY <1>8 DEF InsertEntry
  <2>2. Len(order') >= Len(order)
    <3>1. ToSet(o) \subseteq ToSet(r) /\ r \in Seq(Targets) /\ IsInjective(r)
      BY <1>1, <1>3, <1>6
    <3>2. IsFiniteSet(ToSet(r)) /\ o \in Seq(ToSet(r))
      <4>1. \A i \in 1..Len(o) : o[i] \in ToSet(r)
        BY <1>5, <3>1, InToSet
      <4>2. QED
        BY <1>5, <3>1, <4>1, ToSetFinite
    <3>3. Len(o) <= Cardinality(ToSet(r)) /\ Cardinality(ToSet(r)) \in Nat
      BY <1>5, <3>2, ListBounded
    <3>4. Cardinality(ToSet(r)) <= Len(r)
      BY <3>1, ToSetFinite
    <3>5. QED
      BY <1>1, <1>3, <1>5, <3>1, <3>3, <3>4
  <2>3. pos' \in 1..Len(order') + 1
    BY <1>1, <1>2, <1>5, <1>6, <2>1, <2>2
  <2>4. QED
    BY <1>6, <1>7, <1>8, <2>1, <2>3 DEF TypeInv, missed
<1>9. CASE pc # "idle"
  <2>1. p \in 1..Len(o) /\ o[p] = currentTarget
    BY <1>1, <1>2, <1>5, <1>9
  <2>2. /\ pos' = CHOOSE i \in 1..Len(order') : order'[i] = currentTarget
        /\ skipped' = skipped \cup (Beyond(order, pos) \cap Before(order', pos'))
        /\ again' = again \cup (Before(order, pos) \cap Beyond(order', pos'))
    BY <1>9 DEF InsertEntry
  <2>3. q \in 1..Len(r) /\ r[q] = o[p]
    <3>1. r \in Seq(Targets) /\ o[p] \in ToSet(r)
      <4>1. o[p] \in ToSet(o)
        BY <1>5, <2>1, InToSet
      <4>2. QED
        BY <1>1, <1>3, <1>6, <4>1
    <3>2. \E i \in 1..Len(r) : r[i] = o[p]
      BY <3>1, InToSet
    <3>3. q = CHOOSE i \in 1..Len(r) : r[i] = o[p]
      BY <1>3, <1>4, <2>1, <2>2
    <3>4. QED
      BY <3>2, <3>3
  <2>4. Rearranged(o, p, g, r, q)
    BY <1>5, <2>1, <2>3, WalkRearranged
  <2>5. /\ r \in Seq(Targets) /\ IsInjective(r) /\ q \in 1..Len(r) /\ r[q] = o[p]
        /\ \A h \in Before(r, q) : h \in Before(o, p) \cup Beyond(o, p) \cup {g}
        /\ \A h \in Beyond(r, q) : h \in Before(o, p) \cup Beyond(o, p) \cup {g}
    BY <2>4 DEF Rearranged
  <2>6. /\ skipped' = skipped \cup (Beyond(o, p) \cap Before(r, q))
        /\ again' = again \cup (Before(o, p) \cap Beyond(r, q))
    BY <1>1, <1>2, <1>3, <1>4, <2>2
  <2>7. Before(o, p) \subseteq Targets /\ Beyond(o, p) \subseteq Targets
    <3>1. \A i \in 1..Len(o) : o[i] \in Targets
      BY <1>5
    <3>2. \A i \in 1..p - 1 : i \in 1..Len(o)
      BY <1>5, <2>1
    <3>3. \A i \in p + 1..Len(o) : i \in 1..Len(o)
      BY <1>5, <2>1
    <3>4. QED
      BY <3>1, <3>2, <3>3 DEF Before, Beyond
  <2>8. /\ Behind = Before(o, p) /\ Behind' = Before(r, q)
        /\ Ahead = Beyond(o, p) /\ Ahead' = Beyond(r, q)
    BY <1>1, <1>2, <1>3, <1>4 DEF Behind, Ahead
  <2>9. currentTarget \notin Before(o, p)
    <3>1. \A i \in 1..p - 1 : i \in 1..Len(o) /\ i # p
      BY <1>5, <2>1
    <3>2. \A i \in 1..p - 1 : o[i] # o[p]
      BY <1>5, <2>1, <3>1, InjectiveSeq
    <3>3. QED
      BY <2>1, <3>2 DEF Before
  <2>10. skipped' \subseteq Targets /\ again' \subseteq Targets
    BY <2>6, <2>7 DEF TypeInv
  <2>11. /\ \A h \in Behind' \ skipped' : h \in Behind \ skipped \/ h = g
         /\ \A h \in Ahead' \ again' : h \in Ahead \ again \/ h = g
    BY <2>5, <2>6, <2>8
  <2>12. again \subseteq again' /\ currentTarget \notin again' \ again
    BY <2>6, <2>9
  <2>13. pos' <= Len(order') /\ order'[pos'] = order[pos] /\ pos' \in 1..Len(order') + 1
    BY <1>1, <1>2, <1>3, <1>4, <1>6, <2>5
  <2>14. QED
    BY <1>6, <1>7, <1>9, <2>10, <2>11, <2>12, <2>13
<1>10. QED
  BY <1>8, <1>9

-----------------------------------------------------------------------------
(* Timers leave a list: unschedule, cancel, unscheduleAllForTarget.        *)

Lose(g, gone) ==
  /\ timers' \in [Targets -> Seq(Ids)]
  /\ \A h \in Targets : IsInjective(timers'[h]) /\ ToSet(timers'[h]) = Of(h) \ gone
  /\ IF timers'[g] = <<>> THEN Emptied(g)
                          ELSE UNCHANGED <<order, pos, isPaused, targetSalvaged>>
  /\ LET salvage == g = currentTarget /\ currentTimer \in gone /\ ~timerSalvaged
     IN  /\ timerSalvaged' = (timerSalvaged \/ salvage)
         /\ refs' = [t \in Ids |-> IF t \in gone /\ ~(salvage /\ t = currentTimer)
                                   THEN refs[t] - 1 ELSE refs[t]]
  /\ timerIndex' \in 0..timerIndex
  /\ updated' = updated \ gone /\ due' = due \ gone
  /\ UNCHANGED <<dt, interval, currentTarget, currentTimer, skipped, again>>
  /\ CanCall /\ (pc' = pc \/ (pc # "idle" /\ pc' \in Running))

LEMMA LoseEntry ==
  ASSUME Core, NEW g \in Targets, g \in ToSet(order), NEW gone, Lose(g, gone)
  PROVE  /\ order' \in Seq(Targets) /\ IsInjective(order') /\ pos' \in 1..Len(order') + 1
         /\ isPaused' \in [Targets -> BOOLEAN]
         /\ \A h \in Targets : isPaused'[h] => isPaused[h]
         /\ IF timers'[g] = <<>> /\ g # currentTarget
            THEN ToSet(order)' = ToSet(order) \ {g} ELSE ToSet(order)' = ToSet(order)
         /\ pc # "idle" => Behind' \subseteq Behind /\ Ahead' \subseteq Ahead
         /\ currentTarget # NoTarget => pos' <= Len(order') /\ order'[pos'] = currentTarget
         /\ targetSalvaged' = (targetSalvaged \/ (timers'[g] = <<>> /\ g = currentTarget))
<1>1. /\ order \in Seq(Targets) /\ IsInjective(order) /\ pos \in 1..Len(order) + 1
      /\ isPaused \in [Targets -> BOOLEAN] /\ targetSalvaged \in BOOLEAN
  BY DEF Core, TypeInv
<1>2. currentTarget # NoTarget => pos <= Len(order) /\ order[pos] = currentTarget
  BY DEF Core, IteratorValid
<1>3. pc # "target" /\ pc' # "target"
  BY DEF Lose, CanCall, Running
<1>4. CASE timers'[g] = <<>> /\ g # currentTarget
  <2>1. RemoveEntry(g) /\ UNCHANGED targetSalvaged
    BY <1>4 DEF Lose, Emptied
  <2>2. /\ order' \in Seq(Targets) /\ IsInjective(order') /\ pos' \in 1..Len(order') + 1
        /\ isPaused' = [isPaused EXCEPT ![g] = FALSE]
        /\ ToSet(order)' = ToSet(order) \ {g}
        /\ Behind' \subseteq Behind /\ Ahead' \subseteq Ahead
        /\ pos <= Len(order) /\ order[pos] # g =>
             pos' <= Len(order') /\ order'[pos'] = order[pos]
    BY <1>3, <2>1, EntryRemoved DEF Core
  <2>3. isPaused' \in [Targets -> BOOLEAN] /\ \A h \in Targets : isPaused'[h] => isPaused[h]
    BY <1>1, <2>2
  <2>4. currentTarget # NoTarget => pos' <= Len(order') /\ order'[pos'] = currentTarget
    BY <1>2, <1>4, <2>2
  <2>5. targetSalvaged' = (targetSalvaged \/ (timers'[g] = <<>> /\ g = currentTarget))
    BY <1>1, <1>4, <2>1
  <2>6. QED
    BY <1>4, <2>2, <2>3, <2>4, <2>5
<1>5. CASE ~(timers'[g] = <<>> /\ g # currentTarget)
  <2>1. UNCHANGED <<order, pos, isPaused>>
    BY <1>5 DEF Lose, Emptied
  <2>2. targetSalvaged' = (targetSalvaged \/ (timers'[g] = <<>> /\ g = currentTarget))
    <3>1. CASE timers'[g] = <<>>
      BY <1>5, <3>1 DEF Lose, Emptied
    <3>2. CASE timers'[g] # <<>>
      BY <1>1, <3>2 DEF Lose
    <3>3. QED
      BY <3>1, <3>2
  <2>3. ToSet(order)' = ToSet(order)
    BY <2>1
  <2>4. Behind' = Behind /\ Ahead' = Ahead
    BY <1>3, <2>1 DEF Behind, Ahead
  <2>5. currentTarget # NoTarget => pos' <= Len(order') /\ order'[pos'] = currentTarget
    BY <1>2, <2>1
  <2>6. \A h \in Targets : isPaused'[h] => isPaused[h]
    BY <2>1
  <2>7. /\ order' \in Seq(Targets) /\ IsInjective(order') /\ pos' \in 1..Len(order') + 1
        /\ isPaused' \in [Targets -> BOOLEAN]
    BY <1>1, <2>1
  <2>8. QED
    BY <1>5, <2>2, <2>3, <2>4, <2>5, <2>6, <2>7
<1>6. QED
  BY <1>4, <1>5

(* Whatever belongs to a target that has lost some.                        *)
LEMMA LoseLists ==
  ASSUME Core, NEW gone, NEW g \in Targets, Lose(g, gone)
  PROVE  /\ \A h \in Targets : Of(h)' = Of(h) \ gone
         /\ \A t : Listed(t)' <=> Listed(t) /\ t \notin gone
         /\ \A h \in Targets : timers'[h] = <<>> <=> Of(h) \subseteq gone
         /\ ListsApart'
<1>1. \A h \in Targets : IsInjective(timers'[h]) /\ ToSet(timers'[h]) = Of(h) \ gone
  BY DEF Lose
<1>2. ASSUME NEW h \in Targets PROVE Of(h)' = Of(h) \ gone
  BY <1>1 DEF Of
<1>3. \A t : Listed(t)' <=> Listed(t) /\ t \notin gone
  BY <1>2 DEF Listed
<1>4. ASSUME NEW h \in Targets PROVE timers'[h] = <<>> <=> Of(h) \subseteq gone
  <2>1. PICK l : l = timers'[h]
    OBVIOUS
  <2>2. l \in Seq(Ids) /\ ToSet(l) = Of(h) \ gone
    BY <1>1, <2>1 DEF Lose
  <2>3. ToSet(l) = {} <=> l = <<>>
    BY <2>2, InToSet
  <2>4. QED
    BY <2>1, <2>2, <2>3
<1>5. ListsApart'
  <2>1. \A h \in Targets : IsInjective(timers'[h])
    BY <1>1
  <2>2. ASSUME NEW h \in Targets, NEW k \in Targets, NEW t \in Of(h)' \cap Of(k)'
        PROVE  h = k
    <3>1. t \in Of(h) \cap Of(k)
      BY <1>2
    <3>2. QED
      BY <3>1 DEF Core, ListsApart
  <2>3. QED
    BY <2>1, <2>2 DEF ListsApart
<1>6. QED
  BY <1>2, <1>3, <1>4, <1>5

(* Only targets are walked over.                                           *)
LEMMA WalkTargets ==
  ASSUME TypeInv
  PROVE  Behind \subseteq Targets /\ Ahead \subseteq Targets
<1>1. order \in Seq(Targets) /\ pos \in 1..Len(order) + 1
  BY DEF TypeInv
<1>2. \A j \in 1..Len(order) : order[j] \in Targets
  BY <1>1
<1>3. \A j \in 1..pos - 1 : j \in 1..Len(order)
  BY <1>1
<1>4. Behind \subseteq Targets
  BY <1>2, <1>3 DEF Behind, Before
<1>5. PICK p : p = IF pc = "target" THEN pos - 1 ELSE pos
  OBVIOUS
<1>6. p \in Nat
  BY <1>1, <1>5
<1>7. \A j \in p + 1..Len(order) : j \in 1..Len(order)
  BY <1>1, <1>6
<1>8. Ahead = {order[j] : j \in p + 1..Len(order)}
  BY <1>5 DEF Ahead, Beyond
<1>9. Ahead \subseteq Targets
  BY <1>2, <1>7, <1>8
<1>10. QED
  BY <1>4, <1>9

LEMMA LoseCore ==
  ASSUME Core, NEW g \in Targets, g \in ToSet(order), NEW gone,
         gone \subseteq Of(g), Lose(g, gone), PlaceInv'
  PROVE  Core'
<1> DEFINE salvage == g = currentTarget /\ currentTimer \in gone /\ ~timerSalvaged
<1>1. /\ order' \in Seq(Targets) /\ IsInjective(order') /\ pos' \in 1..Len(order') + 1
      /\ isPaused' \in [Targets -> BOOLEAN]
      /\ \A h \in Targets : isPaused'[h] => isPaused[h]
      /\ IF timers'[g] = <<>> /\ g # currentTarget
         THEN ToSet(order)' = ToSet(order) \ {g} ELSE ToSet(order)' = ToSet(order)
      /\ pc # "idle" => Behind' \subseteq Behind /\ Ahead' \subseteq Ahead
      /\ currentTarget # NoTarget => pos' <= Len(order') /\ order'[pos'] = currentTarget
      /\ targetSalvaged' = (targetSalvaged \/ (timers'[g] = <<>> /\ g = currentTarget))
  BY LoseEntry
<1>2. /\ \A h \in Targets : Of(h)' = Of(h) \ gone
      /\ \A t : Listed(t)' <=> Listed(t) /\ t \notin gone
      /\ \A h \in Targets : timers'[h] = <<>> <=> Of(h) \subseteq gone
      /\ ListsApart'
  BY LoseLists
<1>3. /\ timers' \in [Targets -> Seq(Ids)]
      /\ timerSalvaged' = (timerSalvaged \/ salvage)
      /\ refs' = [t \in Ids |-> IF t \in gone /\ ~(salvage /\ t = currentTimer)
                                THEN refs[t] - 1 ELSE refs[t]]
      /\ timerIndex' \in 0..timerIndex
      /\ updated' = updated \ gone /\ due' = due \ gone
      /\ UNCHANGED <<dt, interval, currentTarget, currentTimer, skipped, again>>
      /\ pc \in {"idle", "delayed", "callback"}
      /\ pc' = pc \/ (pc # "idle" /\ pc' \in Running)
  BY DEF Lose, CanCall
<1>4. TypeInv /\ ListsApart /\ RefsInv /\ CurrentInv /\ IteratorValid /\ HistoryInv /\ WalkInv
  BY DEF Core
<1>5. \A t \in gone : Listed(t) /\ t \in Ids
  <2>1. timers[g] \in Seq(Ids)
    BY <1>4 DEF TypeInv
  <2>2. Of(g) \subseteq Ids
    BY <2>1, InToSet DEF Of
  <2>3. QED
    BY <2>2 DEF Listed
<1>6. currentTarget # NoTarget <=> pc # "idle"
  BY <1>3, <1>4 DEF CurrentInv, Running, Visiting
<1>7. currentTimer # None <=> pc # "idle"
  BY <1>3, <1>4 DEF CurrentInv, Running
<1>8. salvage <=> currentTimer \in gone
  <2>1. ASSUME currentTimer \in gone PROVE g = currentTarget /\ ~timerSalvaged
    <3>1. Listed(currentTimer) /\ currentTimer # None
      BY <1>5, <2>1, SchedulerAssumption DEF None
    <3>2. ~timerSalvaged /\ currentTimer \in Of(currentTarget)
      BY <1>4, <3>1 DEF CurrentInv
    <3>3. currentTarget \in Targets
      BY <1>4, <1>6, <1>7, <3>1 DEF TypeInv
    <3>4. currentTimer \in Of(g) \cap Of(currentTarget)
      BY <2>1, <3>2
    <3>5. g = currentTarget
      BY <1>4, <3>3, <3>4 DEF ListsApart
    <3>6. QED
      BY <3>2, <3>5
  <2>2. QED
    BY <2>1
<1> HIDE DEF salvage
<1>9. RefsInv'
  <2>1. ASSUME NEW t \in Ids
        PROVE  refs'[t] = IF Listed(t)' \/ (t = currentTimer' /\ timerSalvaged') THEN 1 ELSE 0
    <3>1. refs[t] = IF Listed(t) \/ (t = currentTimer /\ timerSalvaged) THEN 1 ELSE 0
      BY <1>4 DEF RefsInv
    <3>2. refs'[t] = IF t \in gone /\ ~(salvage /\ t = currentTimer)
                     THEN refs[t] - 1 ELSE refs[t]
      BY <1>3
    <3>3. CASE t \in gone
      <4>1. refs[t] = 1 /\ ~Listed(t)'
        BY <1>2, <1>5, <3>1, <3>3
      <4>2. CASE t = currentTimer
        BY <1>3, <1>8, <3>2, <3>3, <4>1, <4>2
      <4>3. CASE t # currentTimer
        BY <1>3, <3>2, <3>3, <4>1, <4>3
      <4>4. QED
        BY <4>2, <4>3
    <3>4. CASE t \notin gone
      BY <1>2, <1>3, <1>8, <3>1, <3>2, <3>4
    <3>5. QED
      BY <3>3, <3>4
  <2>2. QED
    BY <2>1 DEF RefsInv
<1>10. refs' \in [Ids -> 0..1]
  <2>1. \A t \in Ids : refs'[t] \in 0..1
    BY <1>9 DEF RefsInv
  <2>2. DOMAIN refs' = Ids /\ refs' = [t \in Ids |-> refs'[t]]
    BY <1>3
  <2>3. QED
    BY <2>1, <2>2
<1>11. TypeInv'
  <2>1. Cardinality(Ids) \in Nat
    BY FS_CardinalityType, SchedulerAssumption
  <2>2. timerIndex' \in 0..Cardinality(Ids) + 1
    BY <1>3, <1>4, <2>1 DEF TypeInv
  <2>3. pc' \in Visiting \cup {"idle", "target"}
    BY <1>3 DEF Visiting, Running
  <2>4. targetSalvaged' \in BOOLEAN /\ timerSalvaged' \in BOOLEAN
    BY <1>1, <1>3, <1>4 DEF TypeInv, salvage
  <2>5. updated' \subseteq Ids /\ due' \subseteq Ids
    BY <1>3, <1>4 DEF TypeInv
  <2>6. /\ dt' \in Steps \cup {0} /\ interval' \in Nat
        /\ currentTarget' \in Targets \cup {NoTarget}
        /\ currentTimer' \in Ids \cup {None}
        /\ skipped' \subseteq Targets /\ again' \subseteq Targets
    BY <1>3, <1>4 DEF TypeInv
  <2>7. QED
    BY <1>1, <1>3, <1>10, <2>2, <2>3, <2>4, <2>5, <2>6 DEF TypeInv
<1>12. CurrentInv'
  <2>1. /\ pc' \in Running <=> currentTimer' # None
        /\ pc' \in Visiting <=> currentTarget' # NoTarget
        /\ ~(pc' = "timer")
    BY <1>3, <1>4 DEF CurrentInv, Running, Visiting
  <2>2. currentTimer' # None =>
          IF timerSalvaged' THEN ~Listed(currentTimer)' ELSE currentTimer' \in Of(currentTarget)'
    <3> SUFFICES ASSUME currentTimer # None
                 PROVE  IF timerSalvaged' THEN ~Listed(currentTimer)'
                                          ELSE currentTimer' \in Of(currentTarget)'
      BY <1>3
    <3>1. currentTarget \in Targets
      BY <1>4, <1>6, <1>7 DEF TypeInv
    <3>2. PICK c : c = currentTarget
      OBVIOUS
    <3>3. PICK t : t = currentTimer
      OBVIOUS
    <3>4. currentTarget' = c /\ currentTimer' = t
      BY <1>3, <3>2, <3>3
    <3>5. IF timerSalvaged THEN ~Listed(t) ELSE t \in Of(c)
      BY <1>4, <3>2, <3>3 DEF CurrentInv
    <3>6. IF timerSalvaged' THEN ~Listed(t)' ELSE t \in Of(c)'
      BY <1>2, <1>3, <1>8, <3>1, <3>2, <3>3, <3>5
    <3>7. QED
      BY <3>4, <3>6 DEF Listed, Of
  <2>3. timerSalvaged' => currentTimer' # None
    <3>1. timerSalvaged => currentTimer # None
      BY <1>4 DEF CurrentInv
    <3>2. salvage => currentTimer # None
      BY <1>5, <1>8, SchedulerAssumption DEF None
    <3>3. QED
      BY <1>3, <3>1, <3>2
  <2>4. targetSalvaged' => currentTarget' # NoTarget
    BY <1>1, <1>3, <1>4, SchedulerAssumption DEF CurrentInv
  <2>5. pc' \in Running => timerIndex' <= Cardinality(Ids)
    <3>1. ASSUME pc' \in Running PROVE timerIndex' <= Cardinality(Ids)
      <4>1. pc \in Running
        BY <1>3, <3>1 DEF Running
      <4>2. timerIndex <= Cardinality(Ids) /\ timerIndex \in Int /\ Cardinality(Ids) \in Nat
        BY <1>4, <4>1, FS_CardinalityType, SchedulerAssumption DEF CurrentInv, TypeInv
      <4>3. QED
        BY <1>3, <4>2
    <3>2. QED
      BY <3>1
  <2>6. QED
    BY <2>1, <2>2, <2>3, <2>4, <2>5 DEF CurrentInv
<1>13. IteratorValid'
  <2>1. currentTarget' # NoTarget => pos' <= Len(order') /\ order'[pos'] = currentTarget'
    BY <1>1, <1>3
  <2>2. \A h \in Targets : timers[h] # <<>> => h \in ToSet(order)
    BY <1>4 DEF IteratorValid
  <2>3. \A h \in Targets : timers[h] = <<>> <=> Of(h) = {}
    BY <1>4, InToSet DEF Of, TypeInv
  <2>4. ASSUME NEW h \in Targets, timers'[h] # <<>> PROVE h \in ToSet(order)'
    <3>1. h \in ToSet(order)
      BY <1>2, <2>2, <2>3, <2>4
    <3>2. QED
      BY <1>1, <2>4, <3>1
  <2>5. ASSUME NEW h \in ToSet(order)', timers'[h] = <<>>
        PROVE  h = currentTarget' /\ targetSalvaged'
    <3>1. h \in ToSet(order) /\ h \in Targets
      <4>1. ToSet(order) \subseteq Targets
        BY <1>4, InToSet DEF TypeInv
      <4>2. QED
        BY <1>1, <2>5, <4>1
    <3>2. CASE h = g
      BY <1>1, <1>3, <2>5, <3>2
    <3>3. CASE h # g
      <4>1. Of(h) \cap gone = {}
        BY <1>4, <3>1, <3>3 DEF ListsApart
      <4>2. timers[h] = <<>>
        BY <1>2, <2>3, <2>5, <3>1, <4>1
      <4>3. QED
        BY <1>1, <1>3, <1>4, <3>1, <4>2 DEF IteratorValid
    <3>4. QED
      BY <3>2, <3>3
  <2>6. QED
    BY <2>1, <2>4, <2>5 DEF IteratorValid
<1>14. HistoryInv'
  <2>1. pc' = "idle" => updated' = {} /\ due' = {} /\ skipped' = {} /\ again' = {}
    BY <1>3, <1>4 DEF HistoryInv, Running
  <2>2. ASSUME NEW t \in updated' \cup due' PROVE Listed(t)'
    BY <1>2, <1>3, <1>4 DEF HistoryInv
  <2>3. ASSUME NEW h \in Targets, isPaused'[h] PROVE Of(h)' \cap due' = {}
    BY <1>1, <1>2, <1>3, <1>4, <2>3 DEF HistoryInv
  <2>4. QED
    BY <2>1, <2>2, <2>3 DEF HistoryInv
<1>15. WalkInv'
  <2> SUFFICES ASSUME pc' # "idle" PROVE WalkInv'
    BY DEF WalkInv
  <2>1. pc # "idle"
    BY <1>3
  <2>2. Behind' \subseteq Behind /\ Ahead' \subseteq Ahead
    BY <1>1, <2>1
  <2>3. Behind \subseteq Targets /\ Ahead \subseteq Targets
    BY <1>4, WalkTargets
  <2>4. ASSUME NEW h \in Behind' \ skipped', NEW t \in Of(h)' PROVE Done(t)'
    BY <1>2, <1>3, <1>4, <2>1, <2>2, <2>3 DEF WalkInv, Done
  <2>5. ASSUME NEW h \in Ahead' \ again' PROVE Of(h)' \cap updated' = {}
    BY <1>2, <1>3, <1>4, <2>1, <2>2, <2>3 DEF WalkInv
  <2>6. QED
    BY <2>4, <2>5 DEF WalkInv
<1>16. QED
  BY <1>2, <1>9, <1>11, <1>12, <1>13, <1>14, <1>15 DEF Core

LEMMA RemoveTimerLoses ==
  ASSUME Core, NEW g \in Targets, NEW i \in 1..Len(timers[g]), RemoveTimer(g, i),
         UNCHANGED <<dt, interval, currentTarget, currentTimer, skipped, again>>,
         CanCall, pc' = pc \/ (pc # "idle" /\ pc' \in Running)
  PROVE  g \in ToSet(order) /\ timers[g][i] \in Of(g) /\ Lose(g, {timers[g][i]})
<1>1. PICK s : s = timers[g]
  OBVIOUS
<1>2. s \in Seq(Ids) /\ IsInjective(s) /\ i \in 1..Len(s) /\ Of(g) = ToSet(s)
  BY <1>1 DEF Core, TypeInv, ListsApart, Of
<1>3. PICK t : t = s[i]
  OBVIOUS
<1>4. t \in Ids /\ t \in Of(g)
  BY <1>2, <1>3, InToSet
<1>5. PICK l : l = RemoveAt(s, i)
  OBVIOUS
<1>6. /\ l \in Seq(Ids) /\ IsInjective(l) /\ ToSet(l) = Of(g) \ {t}
      /\ l = <<>> <=> Len(s) = 1
  BY <1>2, <1>3, <1>5, RemoveAtElements, RemoveAtSet
<1>7. TakeOut(g, i, IsRunning(g, i), SteppedBack(g, i))
  BY DEF RemoveTimer
<1>8. timers' = [timers EXCEPT ![g] = l]
  BY <1>1, <1>5, <1>7 DEF TakeOut
<1>9. timers \in [Targets -> Seq(Ids)]
  BY DEF Core, TypeInv
<1>10. timers' \in [Targets -> Seq(Ids)] /\ timers'[g] = l
  BY <1>6, <1>8, <1>9
<1>11. ASSUME NEW h \in Targets
       PROVE  IsInjective(timers'[h]) /\ ToSet(timers'[h]) = Of(h) \ {t}
  <2>1. CASE h = g
    BY <1>6, <1>10, <2>1
  <2>2. CASE h # g
    <3>1. timers'[h] = timers[h]
      BY <1>8, <1>9, <2>2
    <3>2. t \notin Of(h)
      BY <1>4, <2>2 DEF Core, ListsApart
    <3>3. IsInjective(timers[h]) /\ ToSet(timers[h]) = Of(h)
      BY DEF Core, ListsApart, Of
    <3>4. QED
      BY <3>1, <3>2, <3>3
  <2>3. QED
    BY <2>1, <2>2
<1>12. IF timers'[g] = <<>> THEN Emptied(g)
                            ELSE UNCHANGED <<order, pos, isPaused, targetSalvaged>>
  BY <1>1, <1>6, <1>7, <1>10 DEF TakeOut
<1>13. PICK salvage : salvage = (g = currentTarget /\ currentTimer \in {t} /\ ~timerSalvaged)
  OBVIOUS
<1>14. salvage = IsRunning(g, i)
  BY <1>1, <1>3, <1>13 DEF IsRunning
<1>15. timerSalvaged' = (timerSalvaged \/ salvage)
  BY <1>7, <1>14 DEF TakeOut
<1>16. refs' = [u \in Ids |-> IF u \in {t} /\ ~(salvage /\ u = currentTimer)
                              THEN refs[u] - 1 ELSE refs[u]]
  <2>1. refs' = [refs EXCEPT ![t] = IF salvage THEN @ ELSE @ - 1]
    BY <1>1, <1>3, <1>7, <1>14 DEF TakeOut
  <2>2. salvage => t = currentTimer
    BY <1>13
  <2>3. refs \in [Ids -> 0..1]
    BY DEF Core, TypeInv
  <2>4. QED
    BY <1>4, <2>1, <2>2, <2>3
<1>17. timerIndex' \in 0..timerIndex
  <2>1. timerIndex' = SteppedBack(g, i)
    BY <1>7 DEF TakeOut
  <2>2. timerIndex \in Nat /\ i \in Nat /\ i > 0
    <3>1. Cardinality(Ids) \in Nat
      BY FS_CardinalityType, SchedulerAssumption
    <3>2. QED
      BY <1>2, <3>1 DEF Core, TypeInv
  <2>3. QED
    BY <2>1, <2>2 DEF SteppedBack
<1>18. updated' = updated \ {t} /\ due' = due \ {t}
  BY <1>1, <1>3, <1>7 DEF TakeOut
<1>19. g \in ToSet(order)
  <2>1. s # <<>>
    BY <1>2, <1>4, InToSet
  <2>2. QED
    BY <1>1, <2>1 DEF Core, IteratorValid
<1>20. Lose(g, {t})
  BY <1>10, <1>11, <1>12, <1>13, <1>15, <1>16, <1>17, <1>18 DEF Lose
<1>21. QED
  BY <1>1, <1>3, <1>4, <1>19, <1>20

LEMMA RemoveTimerCore ==
  ASSUME Core, NEW g \in Targets, NEW i \in 1..Len(timers[g]), RemoveTimer(g, i),
         UNCHANGED <<dt, interval, currentTarget, currentTimer, skipped, again>>,
         CanCall, pc' = pc \/ (pc # "idle" /\ pc' \in Running)
  PROVE  Core'
<1>1. PICK t : t = timers[g][i]
  OBVIOUS
<1>2. g \in ToSet(order) /\ t \in Of(g) /\ Lose(g, {t})
  BY <1>1, RemoveTimerLoses
<1>3. PlaceInv'
  <2> SUFFICES ASSUME pc # "idle" PROVE PlaceInv'
    BY DEF CanCall, Running, PlaceInv
  <2>1. pc \in Running /\ pc' \in Running /\ pc' \notin {"timer", "leave"} /\ pc # "timer"
    BY DEF CanCall, Running
  <2>2. PICK c : c = currentTarget
    OBVIOUS
  <2>3. c \in Targets /\ currentTarget' = c
    BY <2>1, <2>2 DEF Core, CurrentInv, TypeInv, Visiting
  <2>4. PICK s : s = timers[c]
    OBVIOUS
  <2>5. PICK n : n = timerIndex
    OBVIOUS
  <2>6. s \in Seq(Ids) /\ n \in Nat /\ Len(s) \in Nat
    <3>1. Cardinality(Ids) \in Nat
      BY FS_CardinalityType, SchedulerAssumption
    <3>2. QED
      BY <2>3, <2>4, <2>5, <3>1 DEF Core, TypeInv
  <2>7. \A k \in 1..Len(s) : IF k <= n THEN s[k] \in due => s[k] \in updated
                                       ELSE s[k] \notin updated \/ c \in again
    BY <2>1, <2>2, <2>4, <2>5 DEF Core, PlaceInv, Reached, Done
  <2>8. updated' = updated \ {t} /\ due' = due \ {t}
    BY <1>2 DEF Lose
  <2>9. /\ timers' = [timers EXCEPT ![g] = RemoveAt(timers[g], i)]
        /\ timerIndex' = SteppedBack(g, i)
    BY DEF RemoveTimer, TakeOut
  <2>10. timers \in [Targets -> Seq(Ids)]
    BY DEF Core, TypeInv
  <2>11. PICK s2 : s2 = timers'[c]
    OBVIOUS
  <2>12. PICK n2 : n2 = timerIndex'
    OBVIOUS
  <2>13. \A k \in 1..Len(s2) : IF k <= n2 THEN s2[k] \in due' => s2[k] \in updated'
                                          ELSE s2[k] \notin updated' \/ c \in again'
    <3>1. CASE c = g
      <4>1. s2 = RemoveAt(s, i) /\ i \in 1..Len(s) /\ s[i] = t
        BY <1>1, <2>4, <2>9, <2>10, <2>11, <3>1
      <4>2. /\ Len(s2) = Len(s) - 1
            /\ \A j \in 1..Len(s) - 1 : s2[j] = IF j < i THEN s[j] ELSE s[j + 1]
        BY <2>6, <4>1, RemoveAtElements
      <4>3. n2 = IF n >= i THEN n - 1 ELSE n
        BY <2>2, <2>5, <2>9, <2>12, <3>1 DEF SteppedBack
      <4>4. ASSUME NEW k \in 1..Len(s2)
            PROVE  IF k <= n2 THEN s2[k] \in due' => s2[k] \in updated'
                              ELSE s2[k] \notin updated' \/ c \in again'
        <5>1. PICK j \in 1..Len(s) : s2[k] = s[j] /\ j # i /\ (k <= n2 <=> j <= n)
          <6>1. CASE k < i
            <7>1. k \in 1..Len(s) /\ k # i /\ s2[k] = s[k] /\ (k <= n2 <=> k <= n)
              BY <2>6, <4>1, <4>2, <4>3, <6>1
            <7>2. QED
              BY <7>1
          <6>2. CASE ~(k < i)
            <7>1. /\ k + 1 \in 1..Len(s) /\ k + 1 # i /\ s2[k] = s[k + 1]
                  /\ (k <= n2 <=> k + 1 <= n)
              BY <2>6, <4>1, <4>2, <4>3, <6>2
            <7>2. QED
              BY <7>1
          <6>3. QED
            BY <6>1, <6>2
        <5>2. s[j] # t
          <6>1. IsInjective(s)
            BY <2>3, <2>4 DEF Core, ListsApart
          <6>2. QED
            BY <2>6, <4>1, <5>1, <6>1, InjectiveSeq
        <5>3. QED
          BY <2>7, <2>8, <5>1, <5>2
      <4>5. QED
        BY <4>4
    <3>2. CASE c # g
      <4>1. s2 = s /\ n2 = n
        BY <2>2, <2>3, <2>4, <2>5, <2>9, <2>10, <2>11, <2>12, <3>2 DEF SteppedBack
      <4>2. t \notin Of(c)
        BY <1>2, <2>3, <3>2 DEF Core, ListsApart
      <4>3. \A k \in 1..Len(s) : s[k] # t
        BY <2>4, <2>6, <4>2, InToSet DEF Of
      <4>4. QED
        BY <2>7, <2>8, <4>1, <4>3
    <3>3. QED
      BY <3>1, <3>2
  <2>14. Reached' = n2
    BY <2>1, <2>12 DEF Reached
  <2>15. QED
    BY <2>1, <2>3, <2>11, <2>13, <2>14 DEF PlaceInv, Done
<1>4. QED
  BY <1>2, <1>3, LoseCore

LEMMA UnscheduleAllCore ==
  ASSUME Core, NEW g \in Targets, UnscheduleAllForTarget(g)
  PROVE  Core'
<1>1. PICK gone : gone = Of(g)
  OBVIOUS
<1>2. /\ g \in ToSet(order) /\ CanCall /\ pc' = pc
      /\ timers' = [timers EXCEPT ![g] = <<>>]
      /\ timerIndex' = timerIndex
      /\ updated' = updated \ gone /\ due' = due \ gone
      /\ UNCHANGED <<dt, interval, currentTarget, currentTimer, skipped, again>>
      /\ Emptied(g)
  BY <1>1 DEF UnscheduleAllForTarget, Of, missed
<1>3. timers \in [Targets -> Seq(Ids)]
  BY DEF Core, TypeInv
<1>4. timers' \in [Targets -> Seq(Ids)] /\ timers'[g] = <<>>
  BY <1>2, <1>3
<1>5. ASSUME NEW h \in Targets
      PROVE  IsInjective(timers'[h]) /\ ToSet(timers'[h]) = Of(h) \ gone
  <2>1. CASE h = g
    <3>1. PICK l : l = timers'[h]
      OBVIOUS
    <3>2. l = <<>> /\ l \in Seq(Ids)
      BY <1>4, <2>1, <3>1
    <3>3. ToSet(l) = {} /\ \A t : t \notin ToSet(l)
      BY <3>2, InToSet
    <3>4. \A a, b \in 1..Len(l) : l[a] = l[b] => a = b
      BY <3>2
    <3>5. IsInjective(l)
      BY <3>2, <3>4, InjectiveSeq
    <3>6. QED
      BY <1>1, <2>1, <3>1, <3>3, <3>5
  <2>2. CASE h # g
    <3>1. timers'[h] = timers[h]
      BY <1>2, <1>3, <2>2
    <3>2. Of(h) \cap gone = {}
      BY <1>1, <2>2 DEF Core, ListsApart
    <3>3. IsInjective(timers[h]) /\ ToSet(timers[h]) = Of(h)
      BY DEF Core, ListsApart, Of
    <3>4. QED
      BY <3>1, <3>2, <3>3
  <2>3. QED
    BY <2>1, <2>2
<1>6. PICK salvage : salvage = (g = currentTarget /\ currentTimer \in gone /\ ~timerSalvaged)
  OBVIOUS
<1>7. /\ timerSalvaged' = (timerSalvaged \/ salvage)
      /\ refs' = [t \in Ids |-> IF t \in gone /\ ~(salvage /\ t = currentTimer)
                                THEN refs[t] - 1 ELSE refs[t]]
  BY <1>1, <1>6 DEF UnscheduleAllForTarget, Of
<1>8. timerIndex' \in 0..timerIndex
  <2>1. Cardinality(Ids) \in Nat
    BY FS_CardinalityType, SchedulerAssumption
  <2>2. timerIndex \in Nat
    BY <2>1 DEF Core, TypeInv
  <2>3. QED
    BY <1>2, <2>2
<1>9. Lose(g, gone)
  BY <1>2, <1>4, <1>5, <1>6, <1>7, <1>8 DEF Lose
<1>10. PlaceInv'
  <2> SUFFICES ASSUME pc # "idle" PROVE PlaceInv'
    BY <1>2 DEF CanCall, Running, PlaceInv
  <2>1. pc \in Running /\ pc' \in Running /\ pc' \notin {"timer", "leave"} /\ pc # "timer"
    BY <1>2 DEF CanCall, Running
  <2>2. PICK c : c = currentTarget
    OBVIOUS
  <2>3. c \in Targets /\ currentTarget' = c
    BY <1>2, <2>1, <2>2 DEF Core, CurrentInv, TypeInv, Visiting
  <2>4. Reached' = Reached
    BY <1>2 DEF Reached
  <2>5. ASSUME NEW k \in 1..Len(timers'[c])
        PROVE  IF k <= Reached THEN timers'[c][k] \in due' => timers'[c][k] \in updated'
                               ELSE timers'[c][k] \notin updated' \/ c \in again'
    <3>1. c # g
      BY <1>4
    <3>2. timers'[c] = timers[c]
      BY <1>2, <1>3, <2>3, <3>1
    <3>3. timers[c] \in Seq(Ids)
      BY <1>3, <2>3
    <3>4. timers[c][k] \in Of(c)
      BY <3>2, <3>3, InToSet DEF Of
    <3>5. timers[c][k] \notin gone
      BY <1>1, <2>3, <3>1, <3>4 DEF Core, ListsApart
    <3>6. IF k <= Reached THEN timers[c][k] \in due => timers[c][k] \in updated
                          ELSE timers[c][k] \notin updated \/ c \in again
      BY <2>1, <2>2, <3>2 DEF Core, PlaceInv, Done
    <3>7. QED
      BY <1>2, <3>2, <3>5, <3>6
  <2>6. QED
    BY <2>1, <2>3, <2>4, <2>5 DEF PlaceInv, Done
<1>11. QED
  BY <1>1, <1>2, <1>9, <1>10, LoseCore

-----------------------------------------------------------------------------
(* A timer comes: schedule.                                                *)

(* The free timer is nobody's.                                             *)
LEMMA FreeTimer ==
  ASSUME Core, \E i \in Ids : refs[i] = 0,
         NEW t, t = Min({i \in Ids : refs[i] = 0})
  PROVE  /\ t \in Ids /\ refs[t] = 0 /\ ~Listed(t) /\ t # currentTimer
         /\ t \notin updated \cup due
<1>1. {i \in Ids : refs[i] = 0} \in SUBSET Nat /\ {i \in Ids : refs[i] = 0} # {}
  BY SchedulerAssumption
<1>2. t \in {i \in Ids : refs[i] = 0}
  BY <1>1, MinOf
<1>3. refs[t] = IF Listed(t) \/ (t = currentTimer /\ timerSalvaged) THEN 1 ELSE 0
  BY <1>2 DEF Core, RefsInv
<1>4. ~Listed(t) /\ ~(t = currentTimer /\ timerSalvaged)
  BY <1>2, <1>3
<1>5. t # currentTimer
  <2>1. ASSUME t = currentTimer PROVE FALSE
    <3>1. currentTimer # None
      BY <1>2, <2>1, SchedulerAssumption DEF None
    <3>2. currentTimer \in Of(currentTarget) /\ currentTarget \in Targets
      BY <1>4, <2>1, <3>1 DEF Core, CurrentInv, TypeInv, Visiting, Running
    <3>3. QED
      BY <1>4, <2>1, <3>2 DEF Listed
  <2>2. QED
    BY <2>1
<1>6. QED
  BY <1>2, <1>4, <1>5 DEF Core, HistoryInv

LEMMA ScheduleEntry ==
  ASSUME Core, NEW g \in Targets, NEW k, NEW timing, Schedule(g, k, timing)
  PROVE  /\ order' \in Seq(Targets) /\ IsInjective(order') /\ pos' \in 1..Len(order') + 1
         /\ ToSet(order)' = ToSet(order) \cup {g}
         /\ currentTarget # NoTarget => pos' <= Len(order') /\ order'[pos'] = currentTarget
         /\ skipped' \subseteq Targets /\ again' \subseteq Targets
         /\ pc = "idle" => UNCHANGED <<skipped, again>>
         /\ pc # "idle" =>
              /\ \A h \in Behind' \ skipped' : h \in Behind \ skipped \/ (h = g /\ Of(h) = {})
              /\ \A h \in Ahead' \ again' : h \in Ahead \ again \/ (h = g /\ Of(h) = {})
              /\ again \subseteq again'
         /\ UNCHANGED isPaused
<1>1. /\ order \in Seq(Targets) /\ IsInjective(order) /\ pos \in 1..Len(order) + 1
      /\ currentTarget # NoTarget => pos <= Len(order) /\ order[pos] = currentTarget
      /\ skipped \subseteq Targets /\ again \subseteq Targets
  BY DEF Core, TypeInv, IteratorValid
<1>2. pc' = pc /\ pc # "target" /\ (currentTarget # NoTarget <=> pc # "idle")
  BY DEF Schedule, CanCall, Core, CurrentInv, Visiting, Running
<1>3. CASE g \in ToSet(order)
  <2>1. UNCHANGED <<order, pos, isPaused, skipped, again>>
    BY <1>3 DEF Schedule, missed
  <2>2. ToSet(order)' = ToSet(order) \cup {g}
    BY <1>3, <2>1
  <2>3. Behind' = Behind /\ Ahead' = Ahead
    BY <1>2, <2>1 DEF Behind, Ahead
  <2>4. QED
    BY <1>1, <2>1, <2>2, <2>3
<1>4. CASE g \notin ToSet(order)
  <2>1. InsertEntry(g)
    BY <1>4 DEF Schedule
  <2>2. /\ order' \in Seq(Targets) /\ IsInjective(order') /\ pos' \in 1..Len(order') + 1
        /\ ToSet(order)' = ToSet(order) \cup {g} /\ UNCHANGED isPaused
        /\ skipped' \subseteq Targets /\ again' \subseteq Targets
        /\ pc = "idle" => UNCHANGED missed
        /\ pc # "idle" =>
             /\ \A h \in Behind' \ skipped' : h \in Behind \ skipped \/ h = g
             /\ \A h \in Ahead' \ again' : h \in Ahead \ again \/ h = g
             /\ again \subseteq again' /\ currentTarget \notin again' \ again
             /\ pos' <= Len(order') /\ order'[pos'] = order[pos]
    BY <1>1, <1>2, <1>4, <2>1, EntryInserted DEF Core
  <2>3. timers[g] = <<>> /\ timers[g] \in Seq(Ids)
    BY <1>4 DEF Core, IteratorValid, TypeInv
  <2>4. Of(g) = {}
    BY <2>3, InToSet DEF Of
  <2>5. currentTarget # NoTarget => pos' <= Len(order') /\ order'[pos'] = currentTarget
    BY <1>1, <1>2, <2>2
  <2>6. QED
    BY <2>2, <2>4, <2>5 DEF missed
<1>5. QED
  BY <1>3, <1>4

(* Either nobody gains a timer, or g gains one that was free.              *)
Gain(g, new) ==
  /\ \A h \in Targets : Of(h)' = Of(h) \cup (IF h = g THEN new ELSE {})
  /\ \A h \in Targets : timers'[h] = <<>> => timers[h] = <<>> /\ (h = g => g \in ToSet(order))
  /\ \A h \in Targets : \A i \in 1..Len(timers'[h]) :
       (i <= Len(timers[h]) /\ timers'[h][i] = timers[h][i]) \/ timers'[h][i] \in new

LEMMA ScheduleGain ==
  ASSUME Core, NEW g \in Targets, NEW k, NEW timing, Schedule(g, k, timing)
  PROVE  \E new \in SUBSET Ids :
           /\ Gain(g, new)
           /\ timers' \in [Targets -> Seq(Ids)] /\ \A h \in Targets : IsInjective(timers'[h])
           /\ refs' = [t \in Ids |-> IF t \in new THEN 1 ELSE refs[t]]
           /\ \A t \in new : ~Listed(t) /\ t # currentTimer /\ t \notin updated \cup due
<1>1. /\ timers \in [Targets -> Seq(Ids)] /\ \A h \in Targets : IsInjective(timers[h])
      /\ refs \in [Ids -> 0..1]
  BY DEF Core, TypeInv, ListsApart
<1>2. CASE Keyed(g, k) = {}
  <2>1. PICK t : t = Min({i \in Ids : refs[i] = 0})
    OBVIOUS
  <2>2. /\ \E i \in Ids : refs[i] = 0
        /\ refs' = [refs EXCEPT ![t] = 1]
        /\ timers' = [timers EXCEPT ![g] = Append(@, t)]
    BY <1>2, <2>1 DEF Schedule, NewTimer
  <2>3. /\ t \in Ids /\ refs[t] = 0 /\ ~Listed(t) /\ t # currentTimer
        /\ t \notin updated \cup due
    BY <2>1, <2>2, FreeTimer
  <2>4. PICK s : s = timers[g]
    OBVIOUS
  <2>5. s \in Seq(Ids) /\ IsInjective(s) /\ ToSet(s) = Of(g) /\ t \notin ToSet(s)
    BY <1>1, <2>3, <2>4 DEF Of, Listed
  <2>6. PICK l : l = Append(s, t)
    OBVIOUS
  <2>7. /\ l \in Seq(Ids) /\ l # <<>> /\ Len(l) = Len(s) + 1
        /\ \A j \in 1..Len(s) + 1 : l[j] = IF j = Len(s) + 1 THEN t ELSE s[j]
        /\ IsInjective(l) /\ ToSet(l) = ToSet(s) \cup {t}
    BY <2>3, <2>5, <2>6, AppendSet
  <2>8. timers' = [timers EXCEPT ![g] = l]
    BY <2>2, <2>4, <2>6
  <2>9. timers'[g] = l /\ \A h \in Targets : h # g => timers'[h] = timers[h]
    BY <1>1, <2>8
  <2>10. timers' \in [Targets -> Seq(Ids)]
    BY <1>1, <2>7, <2>8
  <2>11. \A h \in Targets : IsInjective(timers'[h])
    BY <1>1, <2>7, <2>9
  <2>12. ASSUME NEW h \in Targets PROVE Of(h)' = Of(h) \cup (IF h = g THEN {t} ELSE {})
    BY <2>5, <2>7, <2>9 DEF Of
  <2>13. ASSUME NEW h \in Targets, timers'[h] = <<>>
         PROVE  timers[h] = <<>> /\ (h = g => g \in ToSet(order))
    BY <2>7, <2>9, <2>13
  <2>14. ASSUME NEW h \in Targets, NEW i \in 1..Len(timers'[h])
         PROVE  (i <= Len(timers[h]) /\ timers'[h][i] = timers[h][i]) \/ timers'[h][i] \in {t}
    <3>1. Len(s) \in Nat
      BY <2>5
    <3>2. CASE h = g
      BY <2>4, <2>7, <2>9, <3>1, <3>2
    <3>3. CASE h # g
      BY <2>9, <3>3
    <3>4. QED
      BY <3>2, <3>3
  <2>15. Gain(g, {t})
    BY <2>12, <2>13, <2>14 DEF Gain
  <2>16. refs' = [u \in Ids |-> IF u \in {t} THEN 1 ELSE refs[u]]
    BY <1>1, <2>2, <2>3
  <2>17. {t} \in SUBSET Ids
    BY <2>3
  <2>18. QED
    BY <2>3, <2>10, <2>11, <2>15, <2>16, <2>17
<1>3. CASE Keyed(g, k) # {}
  <2>1. UNCHANGED <<timers, refs>>
    BY <1>3 DEF Schedule
  <2>2. g \in ToSet(order)
    <3>1. timers[g] # <<>>
      BY <1>3 DEF Keyed
    <3>2. QED
      BY <3>1 DEF Core, IteratorValid
  <2>3. Gain(g, {})
    <3>1. \A h \in Targets : timers'[h] = timers[h] /\ Len(timers[h]) \in Nat
      BY <1>1, <2>1
    <3>2. \A h \in Targets : Of(h)' = Of(h) \cup (IF h = g THEN {} ELSE {})
      BY <2>1 DEF Of
    <3>3. QED
      BY <2>2, <3>1, <3>2 DEF Gain
  <2>4. refs' = [u \in Ids |-> IF u \in {} THEN 1 ELSE refs[u]]
    BY <1>1, <2>1
  <2>5. timers' \in [Targets -> Seq(Ids)] /\ \A h \in Targets : IsInjective(timers'[h])
    BY <1>1, <2>1
  <2>6. QED
    BY <2>3, <2>4, <2>5
<1>4. QED
  BY <1>2, <1>3

LEMMA ScheduleCore ==
  ASSUME Core, NEW g \in Targets, NEW k, NEW timing, Schedule(g, k, timing)
  PROVE  Core'
<1>1. /\ order' \in Seq(Targets) /\ IsInjective(order') /\ pos' \in 1..Len(order') + 1
      /\ ToSet(order)' = ToSet(order) \cup {g}
      /\ currentTarget # NoTarget => pos' <= Len(order') /\ order'[pos'] = currentTarget
      /\ skipped' \subseteq Targets /\ again' \subseteq Targets
      /\ pc = "idle" => UNCHANGED <<skipped, again>>
      /\ pc # "idle" =>
           /\ \A h \in Behind' \ skipped' : h \in Behind \ skipped \/ (h = g /\ Of(h) = {})
           /\ \A h \in Ahead' \ again' : h \in Ahead \ again \/ (h = g /\ Of(h) = {})
           /\ again \subseteq again'
      /\ UNCHANGED isPaused
  BY ScheduleEntry
<1>2. PICK new \in SUBSET Ids :
        /\ Gain(g, new)
        /\ timers' \in [Targets -> Seq(Ids)] /\ \A h \in Targets : IsInjective(timers'[h])
        /\ refs' = [t \in Ids |-> IF t \in new THEN 1 ELSE refs[t]]
        /\ \A t \in new : ~Listed(t) /\ t # currentTimer /\ t \notin updated \cup due
  BY ScheduleGain
<1>3. /\ UNCHANGED <<dt, interval, pc, currentTarget, targetSalvaged, timerIndex,
                     currentTimer, timerSalvaged, updated, due>>
      /\ CanCall
  BY DEF Schedule, current
<1>4. TypeInv /\ ListsApart /\ RefsInv /\ CurrentInv /\ IteratorValid /\ HistoryInv
        /\ WalkInv /\ PlaceInv
  BY DEF Core
<1>5. /\ \A h \in Targets : Of(h)' = Of(h) \cup (IF h = g THEN new ELSE {})
      /\ \A h \in Targets : timers'[h] = <<>> => timers[h] = <<>> /\ (h = g => g \in ToSet(order))
      /\ \A h \in Targets : \A i \in 1..Len(timers'[h]) :
           (i <= Len(timers[h]) /\ timers'[h][i] = timers[h][i]) \/ timers'[h][i] \in new
  BY <1>2 DEF Gain
<1>6. \A t : Listed(t)' <=> Listed(t) \/ t \in new
  BY <1>5 DEF Listed
<1>7. pc \in {"idle", "delayed", "callback"}
  BY <1>3 DEF CanCall
<1>8. TypeInv'
  <2>1. refs' \in [Ids -> 0..1]
    BY <1>2, <1>4 DEF TypeInv
  <2>3. QED
    BY <1>1, <1>2, <1>3, <1>4, <2>1 DEF TypeInv
<1>9. ListsApart'
  <2>1. ASSUME NEW h \in Targets, NEW j \in Targets, NEW t \in Of(h)' \cap Of(j)'
        PROVE  h = j
    <3>1. CASE t \in new
      <4>1. t \notin Of(h) /\ t \notin Of(j)
        BY <1>2, <3>1 DEF Listed
      <4>2. QED
        BY <1>5, <2>1, <4>1
    <3>2. CASE t \notin new
      <4>1. t \in Of(h) \cap Of(j)
        BY <1>5, <2>1, <3>2
      <4>2. QED
        BY <1>4, <4>1 DEF ListsApart
    <3>3. QED
      BY <3>1, <3>2
  <2>2. QED
    BY <1>2, <2>1 DEF ListsApart
<1>10. RefsInv'
  <2>1. ASSUME NEW t \in Ids
        PROVE  refs'[t] = IF Listed(t)' \/ (t = currentTimer' /\ timerSalvaged') THEN 1 ELSE 0
    <3>1. refs[t] = IF Listed(t) \/ (t = currentTimer /\ timerSalvaged) THEN 1 ELSE 0
      BY <1>4 DEF RefsInv
    <3>2. refs'[t] = IF t \in new THEN 1 ELSE refs[t]
      BY <1>2
    <3>3. QED
      BY <1>3, <1>6, <3>1, <3>2
  <2>2. QED
    BY <2>1 DEF RefsInv
<1>11. CurrentInv'
  <2>1. PICK c : c = currentTarget
    OBVIOUS
  <2>2. PICK t : t = currentTimer
    OBVIOUS
  <2>3. currentTarget' = c /\ currentTimer' = t
    BY <1>3, <2>1, <2>2
  <2>4. t # None => IF timerSalvaged' THEN ~Listed(t)' ELSE t \in Of(c)'
    <3> SUFFICES ASSUME t # None
                 PROVE  IF timerSalvaged' THEN ~Listed(t)' ELSE t \in Of(c)'
      OBVIOUS
    <3>1. c \in Targets
      BY <1>4, <2>1, <2>2 DEF CurrentInv, TypeInv, Visiting, Running
    <3>2. IF timerSalvaged THEN ~Listed(t) ELSE t \in Of(c)
      BY <1>4, <2>1, <2>2 DEF CurrentInv
    <3>3. t \notin new
      BY <1>2, <2>2
    <3>4. QED
      BY <1>3, <1>5, <1>6, <3>1, <3>2, <3>3
  <2>5. currentTimer' # None =>
          IF timerSalvaged' THEN ~Listed(currentTimer)' ELSE currentTimer' \in Of(currentTarget)'
    BY <2>3, <2>4 DEF Listed, Of
  <2>6. /\ pc' \in Running <=> currentTimer' # None
        /\ pc' \in Visiting <=> currentTarget' # NoTarget
        /\ timerSalvaged' => currentTimer' # None
        /\ targetSalvaged' => currentTarget' # NoTarget
        /\ pc' \in Running => timerIndex' <= Cardinality(Ids)
        /\ pc' = "timer" => timerIndex' > 0
    BY <1>3, <1>4 DEF CurrentInv
  <2>7. QED
    BY <2>5, <2>6 DEF CurrentInv
<1>12. IteratorValid'
  <2>1. currentTarget' # NoTarget => pos' <= Len(order') /\ order'[pos'] = currentTarget'
    BY <1>1, <1>3
  <2>2. \A h \in Targets : timers[h] = <<>> <=> Of(h) = {}
    BY <1>4, InToSet DEF Of, TypeInv
  <2>3. ASSUME NEW h \in Targets, timers'[h] # <<>> PROVE h \in ToSet(order)'
    <3>1. CASE h = g
      BY <1>1, <3>1
    <3>2. CASE h # g
      <4>1. PICK l : l = timers'[h]
        OBVIOUS
      <4>2. l \in Seq(Ids) /\ ToSet(l) = Of(h)
        BY <1>2, <1>5, <3>2, <4>1 DEF Of
      <4>3. Of(h) # {}
        BY <2>3, <4>1, <4>2, InToSet
      <4>4. h \in ToSet(order)
        BY <1>4, <2>2, <4>3 DEF IteratorValid
      <4>5. QED
        BY <1>1, <4>4
    <3>3. QED
      BY <3>1, <3>2
  <2>4. ASSUME NEW h \in ToSet(order)', timers'[h] = <<>>
        PROVE  h = currentTarget' /\ targetSalvaged'
    <3>1. h \in Targets
      <4>1. ToSet(order) \subseteq Targets
        BY <1>4, InToSet DEF TypeInv
      <4>2. QED
        BY <1>1, <2>4, <4>1
    <3>2. timers[h] = <<>> /\ h \in ToSet(order)
      BY <1>1, <1>5, <2>4, <3>1
    <3>3. QED
      BY <1>3, <1>4, <3>2 DEF IteratorValid
  <2>5. QED
    BY <2>1, <2>3, <2>4 DEF IteratorValid
<1>13. HistoryInv'
  <2>1. ASSUME NEW t \in updated' \cup due' PROVE Listed(t)'
    BY <1>3, <1>4, <1>6 DEF HistoryInv
  <2>2. ASSUME NEW h \in Targets, isPaused'[h] PROVE Of(h)' \cap due' = {}
    BY <1>1, <1>2, <1>3, <1>4, <1>5, <2>2 DEF HistoryInv
  <2>3. pc' = "idle" => updated' = {} /\ due' = {} /\ skipped' = {} /\ again' = {}
    BY <1>1, <1>3, <1>4 DEF HistoryInv
  <2>4. QED
    BY <2>1, <2>2, <2>3 DEF HistoryInv
<1>14. WalkInv'
  <2> SUFFICES ASSUME pc' # "idle" PROVE WalkInv'
    BY DEF WalkInv
  <2>1. pc # "idle"
    BY <1>3
  <2>2. /\ \A h \in Behind' \ skipped' : h \in Behind \ skipped \/ (h = g /\ Of(h) = {})
        /\ \A h \in Ahead' \ again' : h \in Ahead \ again \/ (h = g /\ Of(h) = {})
    BY <1>1, <2>1
  <2>3. Behind' \ skipped' \subseteq Targets /\ Ahead' \ again' \subseteq Targets
    <3>1. Behind \subseteq Targets /\ Ahead \subseteq Targets
      BY <1>4, WalkTargets
    <3>2. QED
      BY <2>2, <3>1
  <2>4. ASSUME NEW h \in Behind' \ skipped', NEW t \in Of(h)' PROVE Done(t)'
    <3>1. CASE t \in new
      BY <1>2, <1>3, <3>1 DEF Done
    <3>2. CASE t \notin new
      <4>1. t \in Of(h)
        BY <1>5, <2>3, <2>4, <3>2
      <4>2. h \in Behind \ skipped
        BY <2>2, <2>4, <4>1
      <4>3. Done(t)
        BY <1>4, <2>1, <4>1, <4>2 DEF WalkInv
      <4>4. QED
        BY <1>3, <4>3 DEF Done
    <3>3. QED
      BY <3>1, <3>2
  <2>5. ASSUME NEW h \in Ahead' \ again' PROVE Of(h)' \cap updated' = {}
    <3>1. Of(h) \cap updated = {}
      BY <1>4, <2>1, <2>2, <2>5 DEF WalkInv
    <3>2. Of(h)' \subseteq Of(h) \cup new
      BY <1>5, <2>3, <2>5
    <3>3. QED
      BY <1>2, <1>3, <3>1, <3>2
  <2>6. QED
    BY <2>4, <2>5 DEF WalkInv
<1>15. PlaceInv'
  <2> SUFFICES ASSUME pc # "idle" PROVE PlaceInv'
    BY <1>3 DEF CanCall, Running, PlaceInv
  <2>1. pc \in Running /\ pc' \in Running /\ pc' \notin {"timer", "leave"}
    BY <1>3 DEF CanCall, Running
  <2>2. PICK c : c = currentTarget
    OBVIOUS
  <2>3. c \in Targets /\ currentTarget' = c
    BY <1>3, <1>4, <2>1, <2>2 DEF CurrentInv, TypeInv, Visiting
  <2>4. Reached' = Reached
    BY <1>3 DEF Reached
  <2>5. ASSUME NEW i \in 1..Len(timers'[c])
        PROVE  IF i <= Reached THEN timers'[c][i] \in due' => timers'[c][i] \in updated'
                               ELSE timers'[c][i] \notin updated' \/ c \in again'
    <3>1. CASE timers'[c][i] \in new
      BY <1>2, <1>3, <3>1
    <3>2. CASE i <= Len(timers[c]) /\ timers'[c][i] = timers[c][i]
      <4>1. timers[c] \in Seq(Ids) /\ i \in Nat /\ i >= 1
        BY <1>4, <2>3 DEF TypeInv
      <4>2. i \in 1..Len(timers[c])
        BY <3>2, <4>1
      <4>3. IF i <= Reached THEN timers[c][i] \in due => timers[c][i] \in updated
                            ELSE timers[c][i] \notin updated \/ c \in again
        BY <1>4, <2>1, <2>2, <4>2 DEF PlaceInv, Done
      <4>4. QED
        BY <1>1, <1>3, <2>1, <3>2, <4>3 DEF Running
    <3>3. QED
      BY <1>5, <2>3, <3>1, <3>2
  <2>6. QED
    BY <2>1, <2>3, <2>4, <2>5 DEF PlaceInv, Done
<1>16. QED
  BY <1>8, <1>9, <1>10, <1>11, <1>12, <1>13, <1>14, <1>15 DEF Core

-----------------------------------------------------------------------------
(* The other calls, and the steps of update.                               *)

LEMMA PauseCore ==
  ASSUME Core, NEW g \in Targets, PauseTarget(g)
  PROVE  Core'
<1>1. /\ isPaused' = [isPaused EXCEPT ![g] = TRUE]
      /\ due' = due \ Of(g)
      /\ UNCHANGED <<order, timers, refs, pos, dt, interval, pc, currentTarget,
                     targetSalvaged, timerIndex, currentTimer, timerSalvaged,
                     updated, skipped, again>>
  BY DEF PauseTarget, Of, walk, current, missed
<1>2. TypeInv /\ ListsApart /\ RefsInv /\ CurrentInv /\ IteratorValid /\ HistoryInv
        /\ WalkInv /\ PlaceInv
  BY DEF Core
<1>3. (\A h : Of(h)' = Of(h)) /\ (\A t : Listed(t)' <=> Listed(t))
  BY <1>1 DEF Of, Listed
<1>4. TypeInv'
  BY <1>1, <1>2 DEF TypeInv
<1>5. ListsApart' /\ RefsInv' /\ CurrentInv' /\ IteratorValid'
  <2>1. ListsApart'
    BY <1>1, <1>2 DEF ListsApart, Of
  <2>2. RefsInv'
    BY <1>1, <1>2, <1>3 DEF RefsInv
  <2>3. CurrentInv'
    BY <1>1, <1>2 DEF CurrentInv, Of, Listed
  <2>4. IteratorValid'
    BY <1>1, <1>2 DEF IteratorValid
  <2>5. QED
    BY <2>1, <2>2, <2>3, <2>4
<1>6. HistoryInv'
  <2>1. ASSUME NEW h \in Targets, isPaused'[h] PROVE Of(h)' \cap due' = {}
    <3>1. CASE h = g
      BY <1>1, <1>3, <3>1
    <3>2. CASE h # g
      <4>1. isPaused[h]
        BY <1>1, <1>2, <2>1, <3>2 DEF TypeInv
      <4>2. QED
        BY <1>1, <1>2, <1>3, <4>1 DEF HistoryInv
    <3>3. QED
      BY <3>1, <3>2
  <2>2. pc' = "idle" => updated' = {} /\ due' = {} /\ skipped' = {} /\ again' = {}
    BY <1>1, <1>2 DEF HistoryInv
  <2>3. \A t \in updated' \cup due' : Listed(t)'
    BY <1>1, <1>2, <1>3 DEF HistoryInv
  <2>4. QED
    BY <2>1, <2>2, <2>3 DEF HistoryInv
<1>7. WalkInv'
  <2>1. Behind' = Behind /\ Ahead' = Ahead
    BY <1>1 DEF Behind, Ahead
  <2>2. QED
    BY <1>1, <1>2, <1>3, <2>1 DEF WalkInv, Done
<1>8. PlaceInv'
  <2>1. Reached' = Reached
    BY <1>1 DEF Reached
  <2>2. pc' = pc /\ timers' = timers /\ currentTarget' = currentTarget
    BY <1>1
  <2>3. (\A t : Done(t) => Done(t)') /\ updated' = updated
    BY <1>1 DEF Done
  <2>4. QED
    BY <1>1, <1>2, <2>1, <2>2, <2>3 DEF PlaceInv, Of, Done
<1>9. QED
  BY <1>4, <1>5, <1>6, <1>7, <1>8 DEF Core

LEMMA ResumeCore ==
  ASSUME Core, NEW g \in Targets, ResumeTarget(g)
  PROVE  Core'
<1>1. /\ isPaused' = [isPaused EXCEPT ![g] = FALSE]
      /\ UNCHANGED <<order, timers, refs, pos, dt, interval, pc, currentTarget,
                     targetSalvaged, timerIndex, currentTimer, timerSalvaged,
                     updated, due, skipped, again>>
  BY DEF ResumeTarget, walk, current, history, missed
<1>2. TypeInv /\ ListsApart /\ RefsInv /\ CurrentInv /\ IteratorValid /\ HistoryInv
        /\ WalkInv /\ PlaceInv
  BY DEF Core
<1>3. TypeInv'
  BY <1>1, <1>2 DEF TypeInv
<1>4. ListsApart' /\ RefsInv' /\ CurrentInv' /\ IteratorValid'
  <2>1. ListsApart'
    BY <1>1, <1>2 DEF ListsApart, Of
  <2>2. RefsInv'
    BY <1>1, <1>2 DEF RefsInv, Listed, Of
  <2>3. CurrentInv'
    BY <1>1, <1>2 DEF CurrentInv, Of, Listed
  <2>4. IteratorValid'
    BY <1>1, <1>2 DEF IteratorValid
  <2>5. QED
    BY <2>1, <2>2, <2>3, <2>4
<1>5. HistoryInv'
  <2>1. \A h \in Targets : isPaused'[h] => isPaused[h]
    BY <1>1, <1>2 DEF TypeInv
  <2>2. QED
    BY <1>1, <1>2, <2>1 DEF HistoryInv, Listed, Of
<1>6. WalkInv' /\ PlaceInv'
  <2>1. WalkInv'
    BY <1>1, <1>2 DEF WalkInv, Behind, Ahead, Done, Of
  <2>2. PlaceInv'
    BY <1>1, <1>2 DEF PlaceInv, Reached, Done, Of
  <2>3. QED
    BY <2>1, <2>2
<1>7. QED
  BY <1>3, <1>4, <1>5, <1>6 DEF Core

(* A timer that goes on, with nothing else changed.                        *)
LEMMA RunningCore ==
  ASSUME Core, pc \in Running, pc' \in Running, interval' \in Nat,
         UNCHANGED <<order, timers, isPaused, refs, pos, dt, current, history>>
  PROVE  Core'
<1>1. UNCHANGED <<order, timers, isPaused, refs, pos, dt, currentTarget,
                  targetSalvaged, timerIndex, currentTimer, timerSalvaged,
                  updated, due, skipped, again>>
  BY DEF current, history, missed
<1>2. TypeInv /\ ListsApart /\ RefsInv /\ CurrentInv /\ IteratorValid /\ HistoryInv
        /\ WalkInv /\ PlaceInv
  BY DEF Core
<1>3. /\ pc \notin {"idle", "target", "timer", "leave"}
      /\ pc' \notin {"idle", "target", "timer", "leave"}
      /\ pc \in Visiting /\ pc' \in Visiting
  BY DEF Running, Visiting
<1>4. TypeInv'
  BY <1>1, <1>2, <1>3 DEF TypeInv
<1>5. ListsApart' /\ RefsInv' /\ CurrentInv' /\ IteratorValid'
  <2>1. ListsApart'
    BY <1>1, <1>2 DEF ListsApart, Of
  <2>2. RefsInv'
    BY <1>1, <1>2 DEF RefsInv, Listed, Of
  <2>3. CurrentInv'
    BY <1>1, <1>2, <1>3 DEF CurrentInv, Of, Listed
  <2>4. IteratorValid'
    BY <1>1, <1>2 DEF IteratorValid
  <2>5. QED
    BY <2>1, <2>2, <2>3, <2>4
<1>6. HistoryInv'
  BY <1>1, <1>2, <1>3 DEF HistoryInv, Listed, Of
<1>7. WalkInv'
  <2>1. Behind' = Behind /\ Ahead' = Ahead
    BY <1>1, <1>3 DEF Behind, Ahead
  <2>2. QED
    BY <1>1, <1>2, <1>3, <2>1 DEF WalkInv, Done, Of
<1>8. PlaceInv'
  <2>1. Reached' = Reached
    BY <1>1, <1>3 DEF Reached
  <2>2. QED
    BY <1>1, <1>2, <1>3, <2>1 DEF PlaceInv, Done
<1>9. QED
  BY <1>4, <1>5, <1>6, <1>7, <1>8 DEF Core

LEMMA UpdateCore ==
  ASSUME Core, NEW d \in Steps, Update(d)
  PROVE  Core'
<1>1. /\ pc = "idle" /\ pc' = "target" /\ dt' = d /\ pos' = 1
      /\ due' = UNION {Of(g) : g \in {h \in Targets : ~isPaused[h]}}
      /\ UNCHANGED <<order, timers, isPaused, refs, interval, currentTarget,
                     targetSalvaged, timerIndex, currentTimer, timerSalvaged,
                     updated, skipped, again>>
  BY DEF Update, Of, tables, current, missed
<1>2. TypeInv /\ ListsApart /\ RefsInv /\ CurrentInv /\ IteratorValid /\ HistoryInv
        /\ WalkInv /\ PlaceInv
  BY DEF Core
<1>3. \A g \in Targets : Of(g) \subseteq Ids
  <2>1. ASSUME NEW g \in Targets PROVE Of(g) \subseteq Ids
    <3>1. timers[g] \in Seq(Ids)
      BY <1>2 DEF TypeInv
    <3>2. QED
      BY <3>1, InToSet DEF Of
  <2>2. QED
    BY <2>1
<1>4. /\ pc' \notin Running /\ pc' \notin Visiting
      /\ pc \notin Running /\ pc \notin Visiting
  BY <1>1 DEF Running, Visiting
<1>5. \A t \in due' : \E g \in Targets : t \in Of(g) /\ ~isPaused[g]
  BY <1>1
<1>6. TypeInv'
  <2>1. due' \subseteq Ids
    BY <1>3, <1>5
  <2>2. pos' \in 1..Len(order') + 1
    BY <1>1, <1>2 DEF TypeInv
  <2>3. QED
    BY <1>1, <1>2, <2>1, <2>2 DEF TypeInv
<1>7. ListsApart' /\ RefsInv' /\ CurrentInv' /\ IteratorValid'
  <2>1. ListsApart'
    BY <1>1, <1>2 DEF ListsApart, Of
  <2>2. RefsInv'
    BY <1>1, <1>2 DEF RefsInv, Listed, Of
  <2>3. CurrentInv'
    BY <1>1, <1>2, <1>4 DEF CurrentInv, Of, Listed
  <2>4. IteratorValid'
    BY <1>1, <1>2, <1>4 DEF IteratorValid, CurrentInv
  <2>5. QED
    BY <2>1, <2>2, <2>3, <2>4
<1>8. HistoryInv'
  <2>1. ASSUME NEW h \in Targets, isPaused'[h] PROVE Of(h)' \cap due' = {}
    <3>1. ASSUME NEW t \in Of(h) \cap due' PROVE FALSE
      <4>1. PICK g \in Targets : t \in Of(g) /\ ~isPaused[g]
        BY <1>5
      <4>2. g = h
        BY <1>2, <4>1 DEF ListsApart
      <4>3. QED
        BY <1>1, <2>1, <4>1, <4>2
    <3>2. Of(h)' = Of(h)
      BY <1>1 DEF Of
    <3>3. QED
      BY <3>1, <3>2
  <2>2. updated' = {}
    BY <1>1, <1>2 DEF HistoryInv
  <2>3. ASSUME NEW t \in due' PROVE Listed(t)'
    BY <1>1, <1>5 DEF Listed, Of
  <2>4. QED
    BY <1>1, <2>1, <2>2, <2>3 DEF HistoryInv
<1>9. WalkInv'
  <2>1. Behind' = {}
    BY <1>1 DEF Behind, Before
  <2>2. updated' = {}
    BY <1>1, <1>2 DEF HistoryInv
  <2>3. QED
    BY <2>1, <2>2 DEF WalkInv
<1>10. PlaceInv'
  BY <1>1 DEF PlaceInv, Running
<1>11. QED
  BY <1>6, <1>7, <1>8, <1>9, <1>10 DEF Core

LEMMA UpdateEndCore ==
  ASSUME Core, UpdateEnd
  PROVE  Core'
<1>1. /\ pc = "target" /\ pc' = "idle" /\ dt' = 0 /\ interval' = 0 /\ pos' = 1
      /\ updated' = {} /\ due' = {} /\ skipped' = {} /\ again' = {}
      /\ UNCHANGED <<order, timers, isPaused, refs, currentTarget,
                     targetSalvaged, timerIndex, currentTimer, timerSalvaged>>
  BY DEF UpdateEnd, tables, current
<1>2. TypeInv /\ ListsApart /\ RefsInv /\ CurrentInv /\ IteratorValid
  BY DEF Core
<1>3. /\ pc' \notin Running /\ pc' \notin Visiting
      /\ pc \notin Running /\ pc \notin Visiting
  BY <1>1 DEF Running, Visiting
<1>4. TypeInv'
  <2>1. pos' \in 1..Len(order') + 1
    BY <1>1, <1>2 DEF TypeInv
  <2>2. QED
    BY <1>1, <1>2, <2>1 DEF TypeInv
<1>5. ListsApart'
  BY <1>1, <1>2 DEF ListsApart, Of
<1>6. RefsInv'
  BY <1>1, <1>2 DEF RefsInv, Listed, Of
<1>7. CurrentInv'
  BY <1>1, <1>2, <1>3 DEF CurrentInv, Of, Listed
<1>8. IteratorValid'
  BY <1>1, <1>2, <1>3 DEF IteratorValid, CurrentInv
<1>9. HistoryInv' /\ WalkInv' /\ PlaceInv'
  BY <1>1 DEF HistoryInv, WalkInv, PlaceInv, Running
<1>10. QED
  BY <1>4, <1>5, <1>6, <1>7, <1>8, <1>9 DEF Core

(* A target is not beyond itself.                                          *)
LEMMA AheadOthers ==
  ASSUME TypeInv, pc # "target", pos <= Len(order)
  PROVE  order[pos] \notin Ahead /\ order[pos] \in Targets
<1>1. order \in Seq(Targets) /\ pos \in 1..Len(order) /\ Len(order) \in Nat
  BY DEF TypeInv
<1>2. \A i, j \in 1..Len(order) : order[i] = order[j] => i = j
  BY InjectiveSeq DEF TypeInv
<1>3. ASSUME order[pos] \in Ahead PROVE FALSE
  <2>1. PICK j \in pos + 1..Len(order) : order[j] = order[pos]
    BY <1>3 DEF Ahead, Beyond
  <2>2. j \in 1..Len(order) /\ j # pos
    BY <1>1
  <2>3. QED
    BY <1>1, <1>2, <2>1, <2>2
<1>4. QED
  BY <1>1, <1>3

LEMMA VisitTargetCore ==
  ASSUME Core, VisitTarget
  PROVE  Core'
<1>1. PICK c : c = order[pos]
  OBVIOUS
<1>2. /\ pc = "target" /\ pos <= Len(order)
      /\ currentTarget' = c /\ targetSalvaged' = FALSE /\ timerIndex' = 1
      /\ pc' = IF isPaused[c] THEN "leave" ELSE "timer"
      /\ UNCHANGED <<order, timers, isPaused, refs, pos, dt, interval, currentTimer,
                     timerSalvaged, updated, due, skipped, again>>
  BY <1>1 DEF VisitTarget, tables, walk, history, missed
<1>3. TypeInv /\ ListsApart /\ RefsInv /\ CurrentInv /\ IteratorValid /\ HistoryInv /\ WalkInv
  BY DEF Core
<1>4. order \in Seq(Targets) /\ pos \in 1..Len(order) /\ c \in Targets /\ pos \in Int
  BY <1>1, <1>2, <1>3 DEF TypeInv
<1>5. /\ pc \notin Running /\ pc \notin Visiting /\ pc' \notin Running /\ pc' \in Visiting
      /\ pc' \notin {"target", "idle"}
  BY <1>2 DEF Running, Visiting
<1>6. currentTarget = NoTarget /\ currentTimer = None /\ ~timerSalvaged /\ c # NoTarget
  BY <1>3, <1>4, <1>5, SchedulerAssumption DEF CurrentInv
<1>7. TypeInv'
  <2>1. Cardinality(Ids) \in Nat
    BY FS_CardinalityType, SchedulerAssumption
  <2>2. timerIndex' \in 0..Cardinality(Ids) + 1
    BY <1>2, <2>1
  <2>3. QED
    BY <1>2, <1>3, <1>4, <1>5, <2>2 DEF TypeInv
<1>8. ListsApart' /\ RefsInv'
  BY <1>2, <1>3 DEF ListsApart, RefsInv, Listed, Of
<1>9. CurrentInv'
  <2>1. currentTimer' = None /\ ~timerSalvaged' /\ currentTarget' # NoTarget /\ timerIndex' > 0
    BY <1>2, <1>6
  <2>2. QED
    BY <1>2, <1>5, <2>1 DEF CurrentInv
<1>10. IteratorValid'
  <2>1. ~targetSalvaged
    BY <1>3, <1>6 DEF CurrentInv
  <2>2. /\ \A g \in Targets : timers[g] # <<>> => g \in ToSet(order)
        /\ \A g \in ToSet(order) : timers[g] # <<>>
    BY <1>3, <2>1 DEF IteratorValid
  <2>3. pos <= Len(order) /\ order[pos] = c
    BY <1>1, <1>2
  <2>4. QED
    BY <1>2, <2>2, <2>3 DEF IteratorValid
<1>11. HistoryInv'
  BY <1>2, <1>3, <1>5 DEF HistoryInv, Listed, Of
<1>12. Behind' = Behind /\ Ahead' \subseteq Ahead /\ c \in Ahead
  <2>1. Behind' = Behind
    BY <1>2 DEF Behind
  <2>2. Ahead = Beyond(order, pos - 1) /\ Ahead' = Beyond(order, pos)
    BY <1>2, <1>5 DEF Ahead
  <2>3. Beyond(order, pos) \subseteq Beyond(order, pos - 1)
    BY <1>4 DEF Beyond
  <2>4. pos \in (pos - 1) + 1..Len(order)
    BY <1>4
  <2>5. c \in Beyond(order, pos - 1)
    BY <1>1, <2>4 DEF Beyond
  <2>6. QED
    BY <2>1, <2>2, <2>3, <2>5
<1>13. WalkInv'
  <2>1. \A h \in Behind \ skipped : \A t \in Of(h) : t \in due => t \in updated
    BY <1>2, <1>3 DEF WalkInv, Done
  <2>2. \A h \in Ahead \ again : Of(h) \cap updated = {}
    BY <1>2, <1>3 DEF WalkInv
  <2>3. \A h \in Behind' \ skipped' : \A t \in Of(h)' : Done(t)'
    BY <1>2, <1>12, <2>1 DEF Done, Of
  <2>4. \A h \in Ahead' \ again' : Of(h)' \cap updated' = {}
    BY <1>2, <1>12, <2>2 DEF Of
  <2>5. QED
    BY <2>3, <2>4 DEF WalkInv
<1>14. PlaceInv'
  <2>1. /\ timers[c] \in Seq(Ids) /\ timers' = timers /\ again' = again
        /\ Of(c) \cap updated = {} \/ c \in again
    BY <1>2, <1>3, <1>4, <1>12 DEF TypeInv, WalkInv
  <2>2. CASE isPaused[c]
    <3>1. Of(c) \cap due = {}
      BY <1>3, <1>4, <2>2 DEF HistoryInv
    <3>2. \A t \in Of(c) : t \in due' => t \in updated'
      BY <1>2, <3>1
    <3>3. pc' = "leave" /\ pc' \notin Running \cup {"timer"}
      BY <1>2, <1>5, <2>2
    <3>4. QED
      BY <1>2, <3>2, <3>3 DEF PlaceInv, Done, Of
  <2>3. CASE ~isPaused[c]
    <3>1. pc' = "timer" /\ Reached' = 0
      BY <1>2, <2>3 DEF Reached
    <3>2. \A i \in 1..Len(timers[c]) : timers[c][i] \in Of(c) /\ ~(i <= 0)
      BY <2>1, InToSet DEF Of
    <3>3. \A i \in 1..Len(timers[c]) :
            IF i <= Reached' THEN timers[c][i] \in due' => timers[c][i] \in updated'
                             ELSE timers[c][i] \notin updated' \/ c \in again'
      BY <1>2, <2>1, <3>1, <3>2
    <3>4. QED
      BY <1>2, <3>1, <3>3 DEF PlaceInv, Done
  <2>4. QED
    BY <2>2, <2>3
<1>15. QED
  BY <1>7, <1>8, <1>9, <1>10, <1>11, <1>13, <1>14 DEF Core

LEMMA VisitTimerCore ==
  ASSUME Core, VisitTimer
  PROVE  Core'
<1>1. PICK c : c = currentTarget
  OBVIOUS
<1>2. PICK t : t = timers[c][timerIndex]
  OBVIOUS
<1>3. /\ pc = "timer" /\ timerIndex <= Len(timers[c])
      /\ currentTimer' = t /\ timerSalvaged' = FALSE
      /\ updated' = updated \cup {t} /\ due' = due \ {t}
      /\ pc' \in {"delayed", "while", "after"}
      /\ UNCHANGED <<order, timers, isPaused, refs, pos, dt, interval, currentTarget,
                     targetSalvaged, timerIndex, skipped, again>>
  BY <1>1, <1>2 DEF VisitTimer, StartTimer, walk, missed
<1>4. TypeInv /\ ListsApart /\ RefsInv /\ CurrentInv /\ IteratorValid /\ HistoryInv
        /\ WalkInv /\ PlaceInv
  BY DEF Core
<1>5. /\ pc \notin Running /\ pc \in Visiting /\ pc' \in Running /\ pc' \in Visiting
      /\ pc' \notin {"target", "idle", "timer", "leave"}
  BY <1>3 DEF Running, Visiting
<1>6. PICK s : s = timers[c]
  OBVIOUS
<1>7. c \in Targets /\ s \in Seq(Ids) /\ IsInjective(s) /\ Of(c) = ToSet(s)
  BY <1>1, <1>4, <1>5, <1>6 DEF CurrentInv, TypeInv, ListsApart, Of
<1>8. timerIndex \in 1..Len(s) /\ timerIndex \in Nat
  <2>1. Cardinality(Ids) \in Nat
    BY FS_CardinalityType, SchedulerAssumption
  <2>2. timerIndex \in Nat /\ timerIndex > 0
    BY <1>3, <1>4, <2>1 DEF TypeInv, CurrentInv
  <2>3. QED
    BY <1>3, <1>6, <1>7, <2>2
<1>9. t \in Ids /\ t \in Of(c) /\ t # None
  BY <1>2, <1>6, <1>7, <1>8, InToSet, SchedulerAssumption DEF None
<1>10. Len(s) <= Cardinality(Ids) /\ Cardinality(Ids) \in Nat
  BY <1>7, ListBounded, SchedulerAssumption
<1>11. currentTimer = None /\ ~timerSalvaged
  BY <1>4, <1>5 DEF CurrentInv
<1>12. TypeInv'
  BY <1>3, <1>4, <1>5, <1>9 DEF TypeInv
<1>13. ListsApart'
  BY <1>3, <1>4 DEF ListsApart, Of
<1>14. RefsInv'
  BY <1>3, <1>4, <1>11 DEF RefsInv, Listed, Of
<1>15. CurrentInv'
  <2>1. currentTimer' \in Of(currentTarget)'
    BY <1>1, <1>3, <1>9 DEF Of
  <2>2. timerIndex' <= Cardinality(Ids)
    BY <1>3, <1>7, <1>8, <1>10
  <2>3. QED
    BY <1>1, <1>3, <1>4, <1>5, <1>9, <2>1, <2>2 DEF CurrentInv
<1>16. IteratorValid'
  BY <1>3, <1>4 DEF IteratorValid
<1>17. HistoryInv'
  <2>1. Listed(t)
    BY <1>7, <1>9 DEF Listed
  <2>2. \A u \in updated' \cup due' : Listed(u)
    BY <1>3, <1>4, <2>1 DEF HistoryInv
  <2>3. QED
    BY <1>3, <1>4, <1>5, <2>2 DEF HistoryInv, Listed, Of
<1>18. Behind' = Behind /\ Ahead' = Ahead
  BY <1>3, <1>5 DEF Behind, Ahead
<1>19. c \notin Ahead /\ Ahead \subseteq Targets
  <2>1. pc # "target" /\ pos <= Len(order) /\ order[pos] = c
    BY <1>1, <1>3, <1>4, <1>5 DEF CurrentInv, IteratorValid
  <2>2. QED
    BY <1>4, <2>1, AheadOthers, WalkTargets
<1>20. WalkInv'
  <2>1. \A h \in Ahead : t \notin Of(h)
    BY <1>4, <1>7, <1>9, <1>19 DEF ListsApart
  <2>2. \A h \in Ahead \ again : Of(h) \cap updated' = {}
    BY <1>3, <1>4, <2>1 DEF WalkInv
  <2>3. \A h \in Behind \ skipped : \A u \in Of(h) : u \in due' => u \in updated'
    BY <1>3, <1>4 DEF WalkInv, Done
  <2>4. QED
    BY <1>3, <1>18, <2>2, <2>3 DEF WalkInv, Done, Of
<1>21. PlaceInv'
  <2>1. Reached' = timerIndex /\ Reached = timerIndex - 1
    BY <1>3, <1>5 DEF Reached
  <2>2. ASSUME NEW i \in 1..Len(s)
        PROVE  IF i <= timerIndex THEN s[i] \in due' => s[i] \in updated'
                                  ELSE s[i] \notin updated' \/ c \in again'
    <3>1. IF i <= timerIndex - 1 THEN s[i] \in due => s[i] \in updated
                                 ELSE s[i] \notin updated \/ c \in again
      BY <1>1, <1>3, <1>4, <1>6, <2>1 DEF PlaceInv, Done
    <3>2. s[i] = t <=> i = timerIndex
      BY <1>2, <1>6, <1>7, <1>8, InjectiveSeq
    <3>3. CASE i = timerIndex
      BY <1>3, <1>8, <3>2, <3>3
    <3>4. CASE i # timerIndex
      <4>1. i <= timerIndex - 1 <=> i <= timerIndex
        BY <1>8, <3>4
      <4>2. QED
        BY <1>3, <3>1, <3>2, <3>4, <4>1
    <3>5. QED
      BY <3>3, <3>4
  <2>3. QED
    BY <1>1, <1>3, <1>5, <1>6, <2>1, <2>2 DEF PlaceInv, Done
<1>22. QED
  BY <1>12, <1>13, <1>14, <1>15, <1>16, <1>17, <1>20, <1>21 DEF Core

LEMMA NextTimerCore ==
  ASSUME Core, NextTimer
  PROVE  Core'
<1>1. /\ pc = "after" /\ pc' = "timer"
      /\ refs' = IF timerSalvaged THEN [refs EXCEPT ![currentTimer] = @ - 1] ELSE refs
      /\ currentTimer' = None /\ timerSalvaged' = FALSE /\ timerIndex' = timerIndex + 1
      /\ interval' = 0
      /\ UNCHANGED <<order, timers, isPaused, pos, dt, currentTarget, targetSalvaged,
                     updated, due, skipped, again>>
  BY DEF NextTimer, history, missed
<1>2. TypeInv /\ ListsApart /\ RefsInv /\ CurrentInv /\ IteratorValid /\ HistoryInv
        /\ WalkInv /\ PlaceInv
  BY DEF Core
<1>3. /\ pc \in Running /\ pc \in Visiting /\ pc' \notin Running /\ pc' \in Visiting
      /\ pc \notin {"target", "idle", "timer"}
  BY <1>1 DEF Running, Visiting
<1>4. timerIndex \in Nat /\ timerIndex <= Cardinality(Ids) /\ Cardinality(Ids) \in Nat
  <2>1. Cardinality(Ids) \in Nat
    BY FS_CardinalityType, SchedulerAssumption
  <2>2. QED
    BY <1>2, <1>3, <2>1 DEF TypeInv, CurrentInv
<1>5. RefsInv'
  <2>1. ASSUME NEW t \in Ids
        PROVE  refs'[t] = IF Listed(t)' \/ (t = currentTimer' /\ timerSalvaged') THEN 1 ELSE 0
    <3>1. refs[t] = IF Listed(t) \/ (t = currentTimer /\ timerSalvaged) THEN 1 ELSE 0
      BY <1>2 DEF RefsInv
    <3>2. Listed(t)' <=> Listed(t)
      BY <1>1 DEF Listed, Of
    <3>3. timerSalvaged => ~Listed(currentTimer)
      BY <1>2 DEF CurrentInv
    <3>4. refs'[t] = IF t = currentTimer /\ timerSalvaged THEN refs[t] - 1 ELSE refs[t]
      BY <1>1, <1>2 DEF TypeInv
    <3>5. CASE t = currentTimer /\ timerSalvaged
      <4>1. ~Listed(t)
        BY <3>3, <3>5
      <4>2. refs[t] = 1 /\ refs'[t] = 0
        BY <3>1, <3>4, <3>5
      <4>3. QED
        BY <1>1, <3>2, <4>1, <4>2
    <3>6. CASE ~(t = currentTimer /\ timerSalvaged)
      BY <1>1, <3>1, <3>2, <3>4, <3>6
    <3>7. QED
      BY <3>5, <3>6
  <2>2. QED
    BY <2>1 DEF RefsInv
<1>6. refs' \in [Ids -> 0..1]
  <2>1. \A t \in Ids : refs'[t] \in 0..1
    BY <1>5 DEF RefsInv
  <2>2. DOMAIN refs' = Ids /\ refs' = [t \in Ids |-> refs'[t]]
    BY <1>1, <1>2 DEF TypeInv
  <2>3. QED
    BY <2>1, <2>2
<1>7. TypeInv'
  <2>1. timerIndex' \in 0..Cardinality(Ids) + 1
    BY <1>1, <1>4
  <2>2. QED
    BY <1>1, <1>2, <1>3, <1>6, <2>1 DEF TypeInv
<1>8. ListsApart'
  BY <1>1, <1>2 DEF ListsApart, Of
<1>9. CurrentInv'
  <2>1. timerIndex' > 0
    BY <1>1, <1>4
  <2>2. QED
    BY <1>1, <1>2, <1>3, <2>1 DEF CurrentInv
<1>10. IteratorValid'
  BY <1>1, <1>2 DEF IteratorValid
<1>11. HistoryInv'
  BY <1>1, <1>2 DEF HistoryInv, Listed, Of
<1>12. WalkInv'
  <2>1. Behind' = Behind /\ Ahead' = Ahead
    BY <1>1 DEF Behind, Ahead
  <2>2. QED
    BY <1>1, <1>2, <2>1 DEF WalkInv, Done, Of
<1>13. PlaceInv'
  <2>1. Reached' = timerIndex /\ Reached = timerIndex
    BY <1>1, <1>4 DEF Reached
  <2>2. QED
    BY <1>1, <1>2, <1>3, <2>1 DEF PlaceInv, Done
<1>14. QED
  BY <1>5, <1>7, <1>8, <1>9, <1>10, <1>11, <1>12, <1>13 DEF Core

LEMMA LastTimerCore ==
  ASSUME Core, LastTimer
  PROVE  Core'
<1>1. /\ pc = "timer" /\ timerIndex > Len(timers[currentTarget]) /\ pc' = "leave"
      /\ UNCHANGED <<order, timers, isPaused, refs, pos, dt, interval, currentTarget,
                     targetSalvaged, timerIndex, currentTimer, timerSalvaged,
                     updated, due, skipped, again>>
  BY DEF LastTimer, tables, walk, current, history, missed
<1>2. TypeInv /\ ListsApart /\ RefsInv /\ CurrentInv /\ IteratorValid /\ HistoryInv
        /\ WalkInv /\ PlaceInv
  BY DEF Core
<1>3. pc \in Visiting /\ pc' \in Visiting /\ pc \notin Running /\ pc' \notin Running
  BY <1>1 DEF Running, Visiting
<1>4. TypeInv' /\ ListsApart' /\ RefsInv' /\ IteratorValid'
  <2>1. TypeInv'
    BY <1>1, <1>2, <1>3 DEF TypeInv
  <2>2. ListsApart' /\ RefsInv' /\ IteratorValid'
    BY <1>1, <1>2 DEF ListsApart, RefsInv, IteratorValid, Listed, Of
  <2>3. QED
    BY <2>1, <2>2
<1>5. CurrentInv'
  BY <1>1, <1>2, <1>3 DEF CurrentInv, Listed, Of
<1>6. HistoryInv' /\ WalkInv'
  <2>1. HistoryInv'
    BY <1>1, <1>2 DEF HistoryInv, Listed, Of
  <2>2. Behind' = Behind /\ Ahead' = Ahead
    BY <1>1 DEF Behind, Ahead
  <2>3. WalkInv'
    BY <1>1, <1>2, <2>2 DEF WalkInv, Done, Of
  <2>4. QED
    BY <2>1, <2>3
<1>7. PlaceInv'
  <2>1. PICK c : c = currentTarget
    OBVIOUS
  <2>2. PICK s : s = timers[c]
    OBVIOUS
  <2>3. c \in Targets /\ s \in Seq(Ids)
    BY <1>2, <1>3, <2>1, <2>2 DEF CurrentInv, TypeInv
  <2>4. \A i \in 1..Len(s) : i <= Reached
    <3>1. timerIndex \in Int /\ Len(s) \in Int /\ timerIndex > Len(s)
      <4>1. Cardinality(Ids) \in Nat
        BY FS_CardinalityType, SchedulerAssumption
      <4>2. QED
        BY <1>1, <1>2, <2>1, <2>2, <2>3, <4>1 DEF TypeInv
    <3>2. Reached = timerIndex - 1
      BY <1>1 DEF Reached
    <3>3. QED
      BY <3>1, <3>2
  <2>5. \A i \in 1..Len(s) : s[i] \in due => s[i] \in updated
    BY <1>1, <1>2, <2>1, <2>2, <2>4 DEF PlaceInv, Done
  <2>6. \A t \in ToSet(s) : t \in due => t \in updated
    BY <2>3, <2>5, InToSet
  <2>7. QED
    BY <1>1, <1>3, <2>1, <2>2, <2>6 DEF PlaceInv, Done, Of
<1>8. QED
  BY <1>4, <1>5, <1>6, <1>7 DEF Core

(* Where the walk is when it has left a target that emptied itself: past   *)
(* the one after it.                                                       *)
LEMMA LeaveRemoved ==
  ASSUME NEW o \in Seq(Targets), IsInjective(o), NEW p \in 1..Len(o),
         NEW r, r = RemoveAt(o, p), NEW q, q = Min({p + 1, Len(o)})
  PROVE  /\ r \in Seq(Targets) /\ Len(r) + 1 = Len(o)
         /\ IsInjective(r) /\ ToSet(r) = ToSet(o) \ {o[p]}
         /\ q \in 1..Len(o)
         /\ Before(r, q) \subseteq Before(o, p) \cup {r[i] : i \in {p} \cap 1..Len(r)}
         /\ Beyond(r, q - 1) \subseteq Beyond(o, p)
<1>1. r = RemoveAt(o, p)
  OBVIOUS
<1>2. /\ r \in Seq(Targets) /\ Len(r) = Len(o) - 1
      /\ \A j \in 1..Len(o) - 1 : r[j] = IF j < p THEN o[j] ELSE o[j + 1]
  BY <1>1, RemoveAtElements
<1>3. IsInjective(r) /\ ToSet(r) = ToSet(o) \ {o[p]}
  BY <1>1, RemoveAtSet
<1>4. PICK n \in Nat : n = Len(o)
  OBVIOUS
<1>5. p \in 1..n /\ Len(r) = n - 1 /\ Len(r) + 1 = Len(o)
  BY <1>2, <1>4
<1>6. q \in {p + 1, n} /\ q <= p + 1 /\ q <= n
  <2>1. PICK m : m = {p + 1, n}
    OBVIOUS
  <2>2. m \in SUBSET Nat /\ m # {}
    BY <1>5, <2>1
  <2>3. Min(m) \in m /\ \A y \in m : Min(m) <= y
    BY <2>2, MinOf
  <2>4. q = Min(m)
    BY <1>4, <2>1
  <2>5. QED
    BY <2>1, <2>3, <2>4
<1>7. q \in 1..n
  BY <1>5, <1>6
<1>8. ASSUME NEW j \in 1..q - 1
      PROVE  r[j] \in Before(o, p) \cup {r[i] : i \in {p} \cap 1..Len(r)}
  <2>1. j \in 1..n - 1 /\ j <= p
    BY <1>5, <1>6, <1>7
  <2>2. CASE j < p
    <3>1. j \in 1..p - 1 /\ r[j] = o[j]
      BY <1>2, <1>4, <1>5, <2>1, <2>2
    <3>2. QED
      BY <3>1 DEF Before
  <2>3. CASE j = p
    <3>1. j \in {p} \cap 1..Len(r)
      BY <1>5, <2>1, <2>3
    <3>2. QED
      BY <3>1
  <2>4. QED
    BY <1>5, <2>1, <2>2, <2>3
<1>9. ASSUME NEW j \in (q - 1) + 1..Len(r) PROVE r[j] \in Beyond(o, p)
  <2>1. j \in 1..n - 1 /\ ~(j < p) /\ j + 1 \in p + 1..n
    BY <1>5, <1>6, <1>7
  <2>2. r[j] = o[j + 1]
    BY <1>2, <1>4, <2>1
  <2>3. QED
    BY <1>4, <2>1, <2>2 DEF Beyond
<1>10. /\ Before(r, q) \subseteq Before(o, p) \cup {r[i] : i \in {p} \cap 1..Len(r)}
       /\ Beyond(r, q - 1) \subseteq Beyond(o, p)
  <2>1. PICK t : t = Before(o, p) \cup {r[i] : i \in {p} \cap 1..Len(r)}
    OBVIOUS
  <2>2. PICK u : u = Beyond(o, p)
    OBVIOUS
  <2>3. ASSUME NEW x \in Before(r, q) PROVE x \in t
    <3>1. PICK j \in 1..q - 1 : x = r[j]
      BY <2>3 DEF Before
    <3>2. QED
      BY <3>1, <1>8, <2>1
  <2>4. ASSUME NEW x \in Beyond(r, q - 1) PROVE x \in u
    <3>1. PICK j \in (q - 1) + 1..Len(r) : x = r[j]
      BY <2>4 DEF Beyond
    <3>2. QED
      BY <3>1, <1>9, <2>2
  <2>5. Before(r, q) \subseteq t /\ Beyond(r, q - 1) \subseteq u
    BY <2>3, <2>4
  <2>6. QED
    BY <2>1, <2>2, <2>5, Zenon
<1>11. q \in 1..Len(o)
  BY <1>4, <1>7
<1>12. QED
  BY <1>2, <1>3, <1>5, <1>10, <1>11, Zenon

LEMMA LeaveTargetCore ==
  ASSUME Core, LeaveTarget
  PROVE  Core'
<1>1. /\ pc = "leave" /\ pc' = "target"
      /\ currentTarget' = NoTarget /\ targetSalvaged' = FALSE /\ timerIndex' = 1
      /\ UNCHANGED <<timers, refs, dt, interval, currentTimer, timerSalvaged,
                     updated, due, again>>
  BY DEF LeaveTarget
<1>2. TypeInv /\ ListsApart /\ RefsInv /\ CurrentInv /\ IteratorValid /\ HistoryInv
        /\ WalkInv /\ PlaceInv
  BY DEF Core
<1>3. /\ pc \in Visiting /\ pc' \notin Visiting /\ pc \notin Running /\ pc' \notin Running
      /\ pc \notin {"target", "idle"}
  BY <1>1 DEF Running, Visiting
<1>4. PICK c : c = currentTarget
  OBVIOUS
<1>5. /\ c \in Targets /\ pos <= Len(order) /\ order[pos] = c
      /\ currentTimer = None /\ ~timerSalvaged
  BY <1>2, <1>3, <1>4 DEF CurrentInv, TypeInv, IteratorValid
<1>6. PICK o : o = order
  OBVIOUS
<1>7. PICK p : p = pos
  OBVIOUS
<1>8. o \in Seq(Targets) /\ IsInjective(o) /\ p \in 1..Len(o) /\ Len(o) \in Nat /\ o[p] = c
  BY <1>2, <1>5, <1>6, <1>7 DEF TypeInv
<1>9. Behind = Before(o, p) /\ Ahead = Beyond(o, p)
  BY <1>3, <1>6, <1>7 DEF Behind, Ahead
<1>10. Ahead' = Beyond(order', pos' - 1) /\ Behind' = Before(order', pos')
  BY <1>1 DEF Ahead, Behind
<1>11. /\ order' \in Seq(Targets) /\ IsInjective(order') /\ pos' \in 1..Len(order') + 1
       /\ isPaused' \in [Targets -> BOOLEAN]
       /\ \A h \in Targets : isPaused'[h] => isPaused[h]
       /\ skipped \subseteq skipped' /\ skipped' \subseteq Targets
       /\ \A h \in Targets : timers[h] # <<>> => h \in ToSet(order)'
       /\ \A h \in ToSet(order)' : timers[h] # <<>>
       /\ Behind' \subseteq Behind \cup {c} \cup skipped'
       /\ Ahead' \subseteq Ahead
  <2>1. CASE targetSalvaged /\ timers[c] = <<>>
    <3>1. PICK r : r = RemoveAt(o, p)
      OBVIOUS
    <3>2. /\ order' = r /\ pos' = Min({p + 1, Len(r) + 1})
          /\ skipped' = skipped \cup {r[i] : i \in {p} \cap 1..Len(r)}
          /\ isPaused' = [isPaused EXCEPT ![c] = FALSE]
      BY <1>4, <1>6, <1>7, <2>1, <3>1 DEF LeaveTarget
    <3>3. PICK q : q = Min({p + 1, Len(o)})
      OBVIOUS
    <3>4. /\ r \in Seq(Targets) /\ Len(r) + 1 = Len(o)
          /\ IsInjective(r) /\ ToSet(r) = ToSet(o) \ {o[p]}
          /\ q \in 1..Len(o)
          /\ Before(r, q) \subseteq Before(o, p) \cup {r[i] : i \in {p} \cap 1..Len(r)}
          /\ Beyond(r, q - 1) \subseteq Beyond(o, p)
      <4>1. /\ o \in Seq(Targets) /\ IsInjective(o) /\ p \in 1..Len(o)
            /\ r = RemoveAt(o, p) /\ q = Min({p + 1, Len(o)})
        BY <1>8, <3>1, <3>3
      <4>2. QED
        BY <4>1, LeaveRemoved
    <3>5. pos' = q
      BY <3>2, <3>3, <3>4
    <3>6. ToSet(order)' = ToSet(o) \ {c}
      BY <1>8, <3>2, <3>4
    <3>7. isPaused' \in [Targets -> BOOLEAN] /\ \A h \in Targets : isPaused'[h] => isPaused[h]
      BY <1>2, <3>2 DEF TypeInv
    <3>8. {r[i] : i \in {p} \cap 1..Len(r)} \subseteq Targets
      BY <3>4
    <3>9. skipped \subseteq skipped' /\ skipped' \subseteq Targets
      BY <1>2, <3>2, <3>8 DEF TypeInv
    <3>10. Behind' \subseteq Behind \cup {c} \cup skipped' /\ Ahead' \subseteq Ahead
      BY <1>9, <1>10, <3>2, <3>4, <3>5
    <3>11. \A h \in Targets : timers[h] # <<>> => h \in ToSet(order)'
      BY <1>2, <1>6, <2>1, <3>6 DEF IteratorValid
    <3>12. \A h \in ToSet(order)' : timers[h] # <<>>
      BY <1>2, <1>4, <1>6, <3>6 DEF IteratorValid
    <3>13. pos' \in 1..Len(order') + 1
      BY <3>2, <3>4, <3>5
    <3>14. QED
      BY <3>2, <3>4, <3>7, <3>9, <3>10, <3>11, <3>12, <3>13
  <2>2. CASE ~(targetSalvaged /\ timers[c] = <<>>)
    <3>1. pos' = pos + 1 /\ UNCHANGED <<order, isPaused, skipped>>
      BY <1>4, <2>2 DEF LeaveTarget
    <3>2. pos' \in 1..Len(order') + 1
      BY <1>6, <1>7, <1>8, <3>1
    <3>3. Before(o, p + 1) \subseteq Before(o, p) \cup {o[p]}
      <4>1. \A j \in 1..(p + 1) - 1 : j \in 1..p - 1 \/ j = p
        BY <1>8
      <4>2. QED
        BY <4>1 DEF Before
    <3>4. Beyond(o, (p + 1) - 1) = Beyond(o, p)
      <4>1. (p + 1) - 1 = p
        BY <1>8
      <4>2. QED
        BY <4>1
    <3>5. Behind' \subseteq Behind \cup {c} /\ Ahead' = Ahead
      BY <1>6, <1>7, <1>8, <1>9, <1>10, <3>1, <3>3, <3>4
    <3>6. ToSet(order)' = ToSet(order)
      BY <3>1
    <3>7. \A h \in ToSet(order)' : timers[h] # <<>>
      BY <1>2, <1>4, <2>2, <3>6 DEF IteratorValid
    <3>8. \A h \in Targets : timers[h] # <<>> => h \in ToSet(order)'
      BY <1>2, <3>6 DEF IteratorValid
    <3>9. QED
      BY <1>2, <3>1, <3>2, <3>5, <3>7, <3>8 DEF TypeInv
  <2>3. QED
    BY <2>1, <2>2
<1>12. TypeInv'
  <2>1. Cardinality(Ids) \in Nat
    BY FS_CardinalityType, SchedulerAssumption
  <2>2. timerIndex' \in 0..Cardinality(Ids) + 1
    BY <1>1, <2>1
  <2>3. QED
    BY <1>1, <1>2, <1>11, <2>2 DEF TypeInv
<1>13. ListsApart' /\ RefsInv'
  BY <1>1, <1>2 DEF ListsApart, RefsInv, Listed, Of
<1>14. CurrentInv'
  BY <1>1, <1>3, <1>5 DEF CurrentInv
<1>15. IteratorValid'
  BY <1>1, <1>11 DEF IteratorValid
<1>16. HistoryInv'
  BY <1>1, <1>2, <1>11 DEF HistoryInv, Listed, Of
<1>17. WalkInv'
  <2>1. \A h \in Behind \ skipped : \A t \in Of(h) : t \in due => t \in updated
    BY <1>2, <1>3 DEF WalkInv, Done
  <2>2. \A t \in Of(c) : t \in due => t \in updated
    BY <1>1, <1>2, <1>4 DEF PlaceInv, Done
  <2>3. \A h \in Ahead \ again : Of(h) \cap updated = {}
    BY <1>2, <1>3 DEF WalkInv
  <2>4. \A h \in Behind' \ skipped' : h \in Behind \ skipped \/ h = c
    BY <1>11
  <2>5. \A h \in Behind' \ skipped' : \A t \in Of(h) : t \in due => t \in updated
    BY <2>1, <2>2, <2>4
  <2>6. \A h \in Behind' \ skipped' : \A t \in Of(h)' : Done(t)'
    BY <1>1, <2>5 DEF Done, Of
  <2>7. \A h \in Ahead' \ again' : Of(h)' \cap updated' = {}
    BY <1>1, <1>11, <2>3 DEF Of
  <2>8. QED
    BY <2>6, <2>7 DEF WalkInv
<1>18. PlaceInv'
  BY <1>1, <1>3 DEF PlaceInv
<1>19. QED
  BY <1>12, <1>13, <1>14, <1>15, <1>16, <1>17, <1>18 DEF Core

-----------------------------------------------------------------------------
(* What the fields of the timers say, step by step.                        *)

LEMMA CurrentIsTimer ==
  ASSUME Core, pc \in Running
  PROVE  /\ currentTimer \in Ids /\ currentTarget \in Targets
         /\ timerSalvaged => ~Listed(currentTimer)
         /\ ~timerSalvaged => currentTimer \in Of(currentTarget)
  BY DEF Core, CurrentInv, TypeInv, Visiting

(* Steps after which no target has a timer it did not have.                *)
LEMMA FieldsKept ==
  ASSUME FieldsInv, timer' \in [Ids -> Timer], TimingInv',
         timers \in [Targets -> Seq(Ids)],
         \A h \in Targets : Of(h)' \subseteq Of(h),
         \A h \in Targets : \A t \in Of(h)' :
           /\ timer'[t].key = timer[t].key /\ timer'[t].repeat = timer[t].repeat
           /\ \/ timer'[t].times = timer[t].times
              \/ timer'[t].repeat # Forever => timer'[t].times <= timer'[t].repeat
  PROVE  FieldsInv'
<1>1. KeysApart /\ RepeatKept
  BY DEF FieldsInv
<1>2. KeysApart'
  <2>1. ASSUME NEW h \in Targets, NEW t \in Of(h)', NEW u \in Of(h)',
               timer'[t].key = timer'[u].key
        PROVE  t = u
    <3>1. t \in Of(h) /\ u \in Of(h) /\ timer[t].key = timer[u].key
      BY <2>1
    <3>2. QED
      BY <1>1, <3>1 DEF KeysApart
  <2>2. QED
    BY <2>1 DEF KeysApart
<1>3. RepeatKept'
  <2>1. ASSUME NEW h \in Targets, NEW t \in Ids, t \in Of(h)', timer'[t].repeat # Forever
        PROVE  timer'[t].times <= timer'[t].repeat
    <3>1. t \in Of(h) /\ timer'[t].repeat = timer[t].repeat
      BY <2>1
    <3>2. timer[t].times <= timer[t].repeat
      BY <1>1, <2>1, <3>1 DEF RepeatKept, Of
    <3>3. QED
      BY <2>1, <3>1, <3>2
  <2>2. QED
    BY <2>1 DEF RepeatKept, Of
<1>4. QED
  BY <1>2, <1>3 DEF FieldsInv

LEMMA TimingKept ==
  ASSUME Core, TimingInv, pc' = pc, UNCHANGED <<currentTimer, interval>>,
         currentTimer # None => /\ timer'[currentTimer].elapsed = timer[currentTimer].elapsed
                                /\ timer'[currentTimer].delay = timer[currentTimer].delay
  PROVE  TimingInv'
<1>1. pc \in {"delayed", "while", "callback"} => currentTimer # None
  BY DEF Core, CurrentInv, Running
<1>2. QED
  BY <1>1 DEF TimingInv

(* Timers that are in use keep what they hold when others are freed.       *)
LEMMA LivingFields ==
  ASSUME Core, FieldsInv, Core', timer' = Living(refs'),
         \A h \in Targets : Of(h)' \subseteq Of(h),
         \/ pc' = "timer"
         \/ pc' = pc /\ UNCHANGED <<currentTimer, interval>>
  PROVE  FieldsInv'
<1>1. Freed \in Timer
  <2>1. PICK k : k = CHOOSE x \in Keys : TRUE
    OBVIOUS
  <2>2. k \in Keys
    BY <2>1, SchedulerAssumption
  <2>3. [key |-> k, times |-> 0, elapsed |-> -1, interval |-> 0, repeat |-> 0,
         delay |-> 0] \in Timer
    BY <2>2 DEF Timer
  <2>4. QED
    BY <2>1, <2>3 DEF Freed
<1>2. timer \in [Ids -> Timer] /\ TimingInv
  BY DEF FieldsInv
<1>3. /\ timer' \in [Ids -> Timer]
      /\ \A t \in Ids : refs'[t] # 0 => timer'[t] = timer[t]
  BY <1>1, <1>2 DEF Living
<1>4. /\ timers \in [Targets -> Seq(Ids)] /\ timers' \in [Targets -> Seq(Ids)]
      /\ RefsInv' /\ CurrentInv' /\ currentTimer' \in Ids \cup {None}
      /\ currentTarget' \in Targets \cup {NoTarget}
  BY DEF Core, TypeInv
<1>5. \A h \in Targets : Of(h)' = ToSet(timers'[h]) /\ Of(h)' \subseteq Ids
  BY <1>4, InToSet DEF Of
<1>6. ASSUME NEW h \in Targets, NEW t \in Of(h)' PROVE refs'[t] = 1 /\ t \in Ids
  <2>1. t \in Ids
    BY <1>5
  <2>2. Listed(t)'
    BY DEF Listed
  <2>3. QED
    BY <1>4, <2>1, <2>2 DEF RefsInv
<1>7. \A h \in Targets : \A t \in Of(h)' : timer'[t] = timer[t]
  BY <1>3, <1>6
<1>8. TimingInv'
  <2>1. CASE pc' = "timer"
    BY <2>1 DEF TimingInv
  <2>2. CASE pc' = pc /\ UNCHANGED <<currentTimer, interval>>
    <3>1. ASSUME currentTimer # None PROVE timer'[currentTimer] = timer[currentTimer]
      <4>1. PICK c : c = currentTimer
        OBVIOUS
      <4>2. PICK g : g = currentTarget'
        OBVIOUS
      <4>3. c # None /\ c \in Ids /\ currentTimer' = c
        BY <1>4, <2>2, <3>1, <4>1
      <4>4. CASE timerSalvaged'
        <5>1. refs'[c] = 1
          BY <1>4, <4>3, <4>4 DEF RefsInv
        <5>2. QED
          BY <1>3, <4>1, <4>3, <5>1
      <4>5. CASE ~timerSalvaged'
        <5>1. pc' \in Visiting
          BY <1>4, <4>3 DEF CurrentInv, Visiting
        <5>2. g \in Targets
          BY <1>4, <4>2, <5>1 DEF CurrentInv
        <5>3. c \in Of(g)'
          BY <1>4, <4>2, <4>3, <4>5 DEF CurrentInv, Of
        <5>4. QED
          BY <1>7, <4>1, <5>2, <5>3
      <4>6. QED
        BY <4>4, <4>5
    <3>2. QED
      BY <1>2, <2>2, <3>1, TimingKept
  <2>3. QED
    BY <2>1, <2>2
<1>9. QED
  BY <1>3, <1>4, <1>7, <1>8, FieldsKept

LEMMA UnscheduleStep ==
  ASSUME IInv, NEW g \in Targets, NEW k \in Keys, Unschedule(g, k)
  PROVE  IInv'
<1>1. /\ Core /\ FieldsInv /\ CanCall /\ pc' = pc /\ timer' = Living(refs')
      /\ UNCHANGED <<dt, interval, currentTarget, currentTimer, skipped, again>>
  BY DEF IInv, Unschedule, missed
<1>2. PICK i \in 1..Len(timers[g]) : RemoveTimer(g, i)
  BY DEF Unschedule, Keyed
<1>3. Core'
  BY <1>1, <1>2, RemoveTimerCore
<1>4. Lose(g, {timers[g][i]})
  BY <1>1, <1>2, RemoveTimerLoses
<1>5. \A h \in Targets : Of(h)' \subseteq Of(h)
  BY <1>4 DEF Lose, Of
<1>6. FieldsInv'
  BY <1>1, <1>3, <1>5, LivingFields
<1>7. QED
  BY <1>3, <1>6 DEF IInv

LEMMA UnscheduleAllStep ==
  ASSUME IInv, NEW g \in Targets, UnscheduleAllForTarget(g)
  PROVE  IInv'
<1>1. /\ Core /\ FieldsInv /\ pc' = pc /\ timer' = Living(refs')
      /\ UNCHANGED <<interval, currentTimer>> /\ timers' = [timers EXCEPT ![g] = <<>>]
  BY DEF IInv, UnscheduleAllForTarget
<1>2. Core'
  BY <1>1, UnscheduleAllCore
<1>3. timers \in [Targets -> Seq(Ids)]
  BY <1>1 DEF Core, TypeInv
<1>4. ASSUME NEW h \in Targets PROVE Of(h)' \subseteq Of(h)
  <2>1. CASE h = g
    <3>1. timers'[h] = <<>> /\ <<>> \in Seq(Ids)
      BY <1>1, <1>3, <2>1
    <3>2. PICK s : s = timers'[h]
      OBVIOUS
    <3>3. ToSet(s) = {}
      BY <3>1, <3>2, InToSet
    <3>4. QED
      BY <3>2, <3>3 DEF Of
  <2>2. CASE h # g
    BY <1>1, <1>3, <2>2 DEF Of
  <2>3. QED
    BY <2>1, <2>2
<1>5. FieldsInv'
  BY <1>1, <1>2, <1>4, LivingFields
<1>6. QED
  BY <1>2, <1>5 DEF IInv

LEMMA NextTimerStep ==
  ASSUME IInv, NextTimer
  PROVE  IInv'
<1>1. /\ Core /\ FieldsInv /\ pc' = "timer" /\ timer' = Living(refs')
      /\ UNCHANGED timers
  BY DEF IInv, NextTimer
<1>2. Core'
  BY <1>1, NextTimerCore
<1>3. \A h \in Targets : Of(h)' \subseteq Of(h)
  BY <1>1 DEF Of
<1>4. FieldsInv'
  BY <1>1, <1>2, <1>3, LivingFields
<1>5. QED
  BY <1>2, <1>4 DEF IInv

(* Steps that leave the lists and the fields alone.                        *)
LEMMA FieldsUnchanged ==
  ASSUME Core, FieldsInv, UNCHANGED <<timers, timer>>, TimingInv'
  PROVE  FieldsInv'
<1>1. timers \in [Targets -> Seq(Ids)] /\ timer' \in [Ids -> Timer]
  BY DEF Core, TypeInv, FieldsInv
<1>2. \A h \in Targets : Of(h)' = Of(h)
  BY DEF Of
<1>3. \A t : timer'[t] = timer[t]
  OBVIOUS
<1>4. QED
  BY <1>1, <1>2, <1>3, FieldsKept

LEMMA PauseStep ==
  ASSUME IInv, NEW g \in Targets, PauseTarget(g) \/ ResumeTarget(g)
  PROVE  IInv'
<1>1. /\ Core /\ FieldsInv /\ pc' = pc
      /\ UNCHANGED <<timers, timer, currentTimer, interval>>
  BY DEF IInv, PauseTarget, ResumeTarget, walk, current
<1>2. Core'
  BY <1>1, PauseCore, ResumeCore
<1>3. TimingInv'
  BY <1>1, TimingKept DEF FieldsInv
<1>4. QED
  BY <1>1, <1>2, <1>3, FieldsUnchanged DEF IInv

LEMMA WalkStep ==
  ASSUME IInv,
         (\E d \in Steps : Update(d)) \/ UpdateEnd \/ VisitTarget \/ LastTimer \/ LeaveTarget
  PROVE  IInv'
<1>1. Core /\ FieldsInv
  BY DEF IInv
<1>2. UNCHANGED <<timers, timer>> /\ pc' \notin {"delayed", "while", "callback"}
  BY DEF Update, UpdateEnd, VisitTarget, LastTimer, LeaveTarget, tables
<1>3. Core'
  BY <1>1, UpdateCore, UpdateEndCore, VisitTargetCore, LastTimerCore, LeaveTargetCore
<1>4. TimingInv'
  BY <1>2 DEF TimingInv
<1>5. QED
  BY <1>1, <1>2, <1>3, <1>4, FieldsUnchanged DEF IInv

LEMMA WhileElapsedStep ==
  ASSUME IInv, WhileElapsed
  PROVE  IInv'
<1>1. Core /\ FieldsInv
  BY DEF IInv
<1>2. pc = "while" /\ pc \in Running /\ pc' \in {"callback", "after"} /\ pc' \in Running
  BY DEF WhileElapsed, Running
<1>3. UNCHANGED <<order, timers, isPaused, timer, refs, pos, dt, current, history>>
  BY DEF WhileElapsed, tables
<1>4. PICK r : r = timer[currentTimer]
  OBVIOUS
<1>5. r \in Timer /\ r.elapsed >= 0
  BY <1>1, <1>2, <1>4, CurrentIsTimer DEF FieldsInv, TimingInv
<1>6. r.interval \in Nat /\ r.elapsed \in Nat
  BY <1>5 DEF Timer
<1>7. /\ interval' = IF r.interval > 0 THEN r.interval ELSE r.elapsed
      /\ pc' = IF r.elapsed >= interval' THEN "callback" ELSE "after"
  BY <1>4 DEF WhileElapsed
<1>8. interval' \in Nat
  BY <1>6, <1>7
<1>9. Core'
  BY <1>1, <1>2, <1>3, <1>8, RunningCore
<1>10. TimingInv'
  <2>1. currentTimer' = currentTimer /\ timer'[currentTimer'] = r
    BY <1>3, <1>4 DEF current
  <2>2. pc' = "callback" => r.elapsed >= interval'
    BY <1>6, <1>7
  <2>3. QED
    BY <1>2, <2>1, <2>2 DEF TimingInv
<1>11. QED
  BY <1>1, <1>3, <1>9, <1>10, FieldsUnchanged DEF IInv

LEMMA VisitTimerStep ==
  ASSUME IInv, VisitTimer
  PROVE  IInv'
<1>1. Core /\ FieldsInv /\ timer \in [Ids -> Timer] /\ timers \in [Targets -> Seq(Ids)]
  BY DEF IInv, FieldsInv, Core, TypeInv
<1>2. Core'
  BY <1>1, VisitTimerCore
<1>3. PICK c : c = currentTarget
  OBVIOUS
<1>4. PICK t : t = timers[c][timerIndex]
  OBVIOUS
<1>5. /\ pc = "timer" /\ timerIndex <= Len(timers[c])
      /\ currentTimer' = t /\ UNCHANGED timers
      /\ \/ /\ timer[t].elapsed = -1 /\ pc' = "after"
            /\ timer' = [timer EXCEPT ![t].elapsed = 0]
         \/ /\ timer[t].elapsed # -1
            /\ timer' = [timer EXCEPT ![t].elapsed = timer[t].elapsed + dt]
            /\ pc' = IF timer[t].delay = 0 THEN "while"
                     ELSE IF timer[t].elapsed + dt < timer[t].delay THEN "after"
                          ELSE "delayed"
  BY <1>3, <1>4 DEF VisitTimer, StartTimer
<1>6. c \in Targets /\ timerIndex \in Nat /\ timerIndex > 0
  <2>1. Cardinality(Ids) \in Nat
    BY FS_CardinalityType, SchedulerAssumption
  <2>2. QED
    BY <1>1, <1>3, <1>5, <2>1 DEF Core, CurrentInv, TypeInv, Visiting
<1>7. t \in Ids
  <2>1. PICK s : s = timers[c]
    OBVIOUS
  <2>2. s \in Seq(Ids) /\ timerIndex \in 1..Len(s)
    BY <1>1, <1>5, <1>6, <2>1
  <2>3. QED
    BY <1>4, <2>1, <2>2
<1>8. PICK r : r = timer[t]
  OBVIOUS
<1>9. r \in Timer /\ dt \in Nat
  BY <1>1, <1>7, <1>8, SchedulerAssumption DEF Core, TypeInv
<1>10. r.elapsed \in Nat \cup {-1} /\ r.delay \in Nat
  BY <1>9 DEF Timer
<1>11. PICK e \in Nat : /\ timer' = [timer EXCEPT ![t].elapsed = e]
                        /\ pc' = "while" => e >= 0
                        /\ pc' = "delayed" => e >= r.delay
                        /\ pc' \in {"after", "while", "delayed"}
  <2>1. CASE r.elapsed = -1
    BY <1>5, <1>8, <1>9, <2>1
  <2>2. CASE r.elapsed # -1
    <3>1. PICK e : e = r.elapsed + dt
      OBVIOUS
    <3>2. e \in Nat
      BY <1>9, <1>10, <2>2, <3>1
    <3>3. /\ timer' = [timer EXCEPT ![t].elapsed = e]
          /\ pc' = IF r.delay = 0 THEN "while" ELSE IF e < r.delay THEN "after" ELSE "delayed"
      BY <1>5, <1>8, <2>2, <3>1
    <3>4. (pc' = "delayed" => e >= r.delay) /\ pc' \in {"after", "while", "delayed"}
      BY <1>10, <3>2, <3>3
    <3>5. e >= 0
      BY <3>2
    <3>6. QED
      BY <3>2, <3>3, <3>4, <3>5, Zenon
  <2>3. QED
    BY <2>1, <2>2
<1>12. PICK q : q = [r EXCEPT !.elapsed = e]
  OBVIOUS
<1>13. /\ q \in Timer /\ q.elapsed = e /\ q.key = r.key /\ q.repeat = r.repeat
       /\ q.times = r.times /\ q.delay = r.delay
  BY <1>9, <1>12 DEF Timer
<1>14. timer' = [timer EXCEPT ![t] = q]
  BY <1>8, <1>11, <1>12
<1>15. /\ timer' \in [Ids -> Timer] /\ timer'[t] = q
       /\ \A u \in Ids : u # t => timer'[u] = timer[u]
  BY <1>1, <1>7, <1>13, <1>14
<1>16. TimingInv'
  BY <1>5, <1>11, <1>13, <1>15 DEF TimingInv
<1>17. \A h \in Targets : Of(h)' = Of(h) /\ Of(h) \subseteq Ids
  BY <1>1, <1>5, InToSet DEF Of
<1>18. \A u \in Ids : /\ timer'[u].key = timer[u].key /\ timer'[u].repeat = timer[u].repeat
                      /\ timer'[u].times = timer[u].times
  BY <1>8, <1>13, <1>15
<1>19. FieldsInv'
  BY <1>1, <1>15, <1>16, <1>17, <1>18, FieldsKept
<1>20. QED
  BY <1>2, <1>19 DEF IInv

LEMMA ScheduleStep ==
  ASSUME IInv, NEW use \in Uses, Schedule(use[1], use[2], use[3])
  PROVE  IInv'
<1>1. PICK g, k, timing : g = use[1] /\ k = use[2] /\ timing = use[3]
  OBVIOUS
<1>2. g \in Targets /\ k \in Keys /\ timing.interval \in Nat /\ timing.delay \in Nat
        /\ timing.repeat \in Nat \cup {Forever}
  BY <1>1, SchedulerAssumption DEF Forever
<1>3. /\ Core /\ FieldsInv /\ timer \in [Ids -> Timer] /\ timers \in [Targets -> Seq(Ids)]
      /\ KeysApart /\ TimingInv /\ RepeatKept
      /\ \A h \in Targets : Of(h) \subseteq Ids
  BY InToSet DEF IInv, FieldsInv, Core, TypeInv, Of
<1>4. Schedule(g, k, timing)
  BY <1>1
<1>5. Core'
  BY <1>2, <1>3, <1>4, ScheduleCore
<1>6. pc' = pc /\ UNCHANGED <<currentTimer, interval>>
  BY <1>4 DEF Schedule, current
<1>7. currentTimer # None => currentTimer \in Ids
  BY <1>3 DEF Core, TypeInv
<1>8. CASE Keyed(g, k) = {}
  <2>1. PICK t : t = Min({i \in Ids : refs[i] = 0})
    OBVIOUS
  <2>2. PICK r : r = [key |-> k, times |-> 0, elapsed |-> -1, interval |-> timing.interval,
                      repeat |-> timing.repeat, delay |-> timing.delay]
    OBVIOUS
  <2>3. /\ \E i \in Ids : refs[i] = 0
        /\ timer' = [timer EXCEPT ![t] = r]
        /\ timers' = [timers EXCEPT ![g] = Append(@, t)]
    BY <1>4, <1>8, <2>1, <2>2 DEF Schedule, NewTimer
  <2>4. t \in Ids /\ ~Listed(t) /\ t # currentTimer
    BY <1>3, <2>1, <2>3, FreeTimer
  <2>5. r \in Timer /\ r.key = k /\ r.times = 0 /\ r.repeat \in Nat \cup {Forever}
    BY <1>2, <2>2 DEF Timer
  <2>6. /\ timer' \in [Ids -> Timer] /\ timer'[t] = r
        /\ \A u \in Ids : u # t => timer'[u] = timer[u]
    BY <1>3, <2>3, <2>4, <2>5
  <2>7. ASSUME NEW h \in Targets PROVE Of(h)' = Of(h) \cup (IF h = g THEN {t} ELSE {})
    <3>1. CASE h = g
      <4>1. PICK s : s = timers[g]
        OBVIOUS
      <4>2. s \in Seq(Ids) /\ IsInjective(s) /\ ToSet(s) = Of(g) /\ t \notin ToSet(s)
        BY <1>2, <1>3, <2>4, <4>1 DEF Of, Listed, Core, ListsApart
      <4>3. ToSet(Append(s, t)) = ToSet(s) \cup {t}
        BY <2>4, <4>2, AppendSet
      <4>4. timers'[g] = Append(s, t)
        BY <1>2, <1>3, <2>3, <4>1
      <4>5. QED
        BY <3>1, <4>2, <4>3, <4>4 DEF Of
    <3>2. CASE h # g
      BY <1>3, <2>3, <3>2 DEF Of
    <3>3. QED
      BY <3>1, <3>2
  <2>8. ASSUME NEW u \in Of(g) PROVE timer[u].key # k /\ u # t
    <3>1. PICK s : s = timers[g]
      OBVIOUS
    <3>2. s \in Seq(Ids) /\ u \in ToSet(s)
      BY <1>2, <1>3, <3>1 DEF Of
    <3>3. PICK i \in 1..Len(s) : s[i] = u
      BY <3>2, InToSet
    <3>4. timer[u].key # k
      BY <1>8, <3>1, <3>3 DEF Keyed
    <3>5. QED
      BY <1>2, <2>4, <3>4 DEF Listed
  <2>9. \A h \in Targets : \A u \in Of(h) : u \in Ids /\ u # t /\ timer'[u] = timer[u]
    BY <1>3, <2>4, <2>6 DEF Listed
  <2>10. KeysApart'
    <3>1. ASSUME NEW h \in Targets, NEW u \in Of(h)', NEW v \in Of(h)',
                 timer'[u].key = timer'[v].key
          PROVE  u = v
      <4>1. CASE u \in Of(h) /\ v \in Of(h)
        BY <1>3, <2>9, <3>1, <4>1 DEF KeysApart
      <4>2. CASE u \notin Of(h) /\ v \in Of(h)
        <5>1. h = g /\ u = t
          BY <2>7, <4>2
        <5>2. QED
          BY <2>5, <2>6, <2>8, <2>9, <3>1, <4>2, <5>1
      <4>3. CASE u \in Of(h) /\ v \notin Of(h)
        <5>1. h = g /\ v = t
          BY <2>7, <4>3
        <5>2. QED
          BY <2>5, <2>6, <2>8, <2>9, <3>1, <4>3, <5>1
      <4>4. CASE u \notin Of(h) /\ v \notin Of(h)
        BY <2>7, <4>4
      <4>5. QED
        BY <4>1, <4>2, <4>3, <4>4
    <3>2. QED
      BY <3>1 DEF KeysApart
  <2>11. RepeatKept'
    <3>1. ASSUME NEW h \in Targets, NEW u \in Ids, u \in Of(h)', timer'[u].repeat # Forever
          PROVE  timer'[u].times <= timer'[u].repeat
      <4>1. CASE u = t
        BY <2>5, <2>6, <3>1, <4>1
      <4>2. CASE u # t
        <5>1. u \in Of(h) /\ timer'[u] = timer[u]
          BY <2>6, <2>7, <3>1, <4>2
        <5>2. QED
          BY <1>3, <3>1, <5>1 DEF RepeatKept, Of
      <4>3. QED
        BY <4>1, <4>2
    <3>2. QED
      BY <3>1 DEF RepeatKept, Of
  <2>12. TimingInv'
    BY <1>3, <1>6, <1>7, <2>4, <2>6, TimingKept
  <2>13. QED
    BY <1>5, <2>6, <2>10, <2>11, <2>12 DEF IInv, FieldsInv
<1>9. CASE Keyed(g, k) # {}
  <2>1. PICK i : i = Min(Keyed(g, k))
    OBVIOUS
  <2>2. i \in Keyed(g, k)
    <3>1. Keyed(g, k) \in SUBSET Nat
      BY DEF Keyed
    <3>2. QED
      BY <1>9, <2>1, <3>1, MinOf
  <2>3. PICK t : t = timers[g][i]
    OBVIOUS
  <2>4. UNCHANGED timers /\ timer' = [timer EXCEPT ![t].interval = timing.interval]
    BY <1>4, <1>9, <2>1, <2>3 DEF Schedule
  <2>5. t \in Ids
    <3>1. PICK s : s = timers[g]
      OBVIOUS
    <3>2. s \in Seq(Ids) /\ i \in 1..Len(s)
      BY <1>2, <1>3, <2>2, <3>1 DEF Keyed
    <3>3. QED
      BY <2>3, <3>1, <3>2
  <2>6. PICK r : r = timer[t]
    OBVIOUS
  <2>7. PICK q : q = [r EXCEPT !.interval = timing.interval]
    OBVIOUS
  <2>8. r \in Timer
    BY <1>3, <2>5, <2>6
  <2>9. /\ q \in Timer /\ q.elapsed = r.elapsed /\ q.key = r.key /\ q.repeat = r.repeat
        /\ q.times = r.times /\ q.delay = r.delay
    BY <1>2, <2>7, <2>8 DEF Timer
  <2>10. timer' = [timer EXCEPT ![t] = q]
    BY <2>4, <2>6, <2>7
  <2>11. /\ timer' \in [Ids -> Timer] /\ timer'[t] = q
         /\ \A u \in Ids : u # t => timer'[u] = timer[u]
    BY <1>3, <2>5, <2>9, <2>10
  <2>12. \A u \in Ids : /\ timer'[u].key = timer[u].key /\ timer'[u].repeat = timer[u].repeat
                        /\ timer'[u].times = timer[u].times
                        /\ timer'[u].elapsed = timer[u].elapsed
                        /\ timer'[u].delay = timer[u].delay
    BY <2>6, <2>9, <2>11
  <2>13. TimingInv'
    BY <1>3, <1>6, <1>7, <2>12, TimingKept
  <2>14. \A h \in Targets : Of(h)' = Of(h)
    BY <2>4 DEF Of
  <2>15. FieldsInv'
    BY <1>3, <2>11, <2>12, <2>13, <2>14, FieldsKept
  <2>16. QED
    BY <1>5, <2>15 DEF IInv
<1>10. QED
  BY <1>8, <1>9

(* After a call has returned: the timer stays, or it is cancelled.         *)
LEMMA CancelOrStays ==
  ASSUME Core, KeysApart, pc \in {"delayed", "callback"}, NEW next \in Running,
         CancelOr(next),
         UNCHANGED <<dt, interval, currentTarget, currentTimer, skipped, again>>
  PROVE  /\ Core' /\ pc' \in {"after", next}
         /\ \A h \in Targets : Of(h)' \subseteq Of(h)
         /\ Exhausted => \A h \in Targets : currentTimer \notin Of(h)'
<1>1. /\ pc \in Running /\ pc' \in {"after", next} /\ pc' \in Running
      /\ CanCall /\ pc # "idle"
  BY DEF CancelOr, Running, CanCall
<1>2. PICK g, c : g = currentTarget /\ c = currentTimer
  OBVIOUS
<1>3. /\ g \in Targets /\ c \in Ids
      /\ c \in Of(g) \/ ~Listed(c)
  BY <1>1, <1>2, CurrentIsTimer
<1>4. timers \in [Targets -> Seq(Ids)] /\ interval \in Nat
  BY DEF Core, TypeInv
<1>5. ASSUME UNCHANGED <<order, isPaused, timers, refs, pos, targetSalvaged, timerIndex,
                         timerSalvaged, updated, due>>
      PROVE  Core' /\ \A h \in Targets : Of(h)' = Of(h)
  <2>1. UNCHANGED <<order, timers, isPaused, refs, pos, dt, current, history>>
    BY <1>5 DEF current, history, missed
  <2>2. interval' \in Nat
    BY <1>4
  <2>3. Core'
    BY <1>1, <2>1, <2>2, RunningCore
  <2>4. QED
    BY <1>5, <2>3 DEF Of
<1>6. CASE ~Exhausted
  BY <1>1, <1>5, <1>6 DEF CancelOr
<1>7. CASE Exhausted
  <2>1. Cancel
    BY <1>7 DEF CancelOr
  <2>2. PICK k : k = timer[c].key
    OBVIOUS
  <2>3. CASE Keyed(g, k) = {}
    <3>1. Core' /\ \A h \in Targets : Of(h)' = Of(h)
      BY <1>2, <1>5, <2>1, <2>2, <2>3 DEF Cancel
    <3>2. c \notin Of(g)
      <4>1. PICK s : s = timers[g]
        OBVIOUS
      <4>2. s \in Seq(Ids) /\ Of(g) = ToSet(s)
        BY <1>3, <1>4, <4>1 DEF Of
      <4>3. ASSUME c \in Of(g) PROVE FALSE
        <5>1. PICK i \in 1..Len(s) : s[i] = c
          BY <4>2, <4>3, InToSet
        <5>2. i \in Keyed(g, k)
          BY <2>2, <4>1, <5>1 DEF Keyed
        <5>3. QED
          BY <2>3, <5>2
      <4>4. QED
        BY <4>3
    <3>3. \A h \in Targets : c \notin Of(h)
      BY <1>3, <3>2 DEF Listed
    <3>4. QED
      BY <1>1, <1>2, <3>1, <3>3
  <2>4. CASE Keyed(g, k) # {}
    <3>1. PICK i \in Keyed(g, k) : RemoveTimer(g, i)
      BY <1>2, <2>1, <2>2, <2>4 DEF Cancel
    <3>2. i \in 1..Len(timers[g]) /\ timer[timers[g][i]].key = k
      BY <3>1 DEF Keyed
    <3>3. Core'
      BY <1>1, <1>3, <3>1, <3>2, RemoveTimerCore
    <3>4. PICK t : t = timers[g][i]
      OBVIOUS
    <3>5. t \in Of(g) /\ Lose(g, {t})
      BY <1>1, <1>3, <3>1, <3>2, <3>4, RemoveTimerLoses
    <3>6. \A h \in Targets : Of(h)' = Of(h) \ {t}
      BY <3>5 DEF Lose, Of
    <3>7. c \in Of(g) => c = t
      BY <1>3, <2>2, <3>2, <3>4, <3>5 DEF KeysApart
    <3>8. ASSUME NEW h \in Targets PROVE c \notin Of(h)'
      <4>1. CASE c \in Of(g)
        BY <3>6, <3>7, <4>1
      <4>2. CASE ~Listed(c)
        BY <3>6, <4>2 DEF Listed
      <4>3. QED
        BY <1>3, <4>1, <4>2
    <3>9. QED
      BY <1>1, <1>2, <3>3, <3>6, <3>8
  <2>5. QED
    BY <2>3, <2>4
<1>8. QED
  BY <1>6, <1>7

LEMMA ReturnedField ==
  ASSUME timer \in [Ids -> Timer], NEW c \in Ids, c = currentTimer,
         NEW spent \in Nat, NEW delay \in Nat,
         timer[c].elapsed >= spent, Returned(spent, delay)
  PROVE  /\ timer' \in [Ids -> Timer]
         /\ \A u \in Ids : u # c => timer'[u] = timer[u]
         /\ timer'[c].key = timer[c].key /\ timer'[c].repeat = timer[c].repeat
         /\ timer'[c].elapsed = timer[c].elapsed - spent
         /\ timer'[c].times = IF timer[c].repeat = Forever THEN timer[c].times
                              ELSE timer[c].times + 1
<1>1. PICK r : r = timer[c]
  OBVIOUS
<1>2. /\ r \in Timer /\ r.elapsed \in Nat \cup {-1} /\ r.times \in Nat /\ r.elapsed >= spent
  BY <1>1 DEF Timer
<1>3. PICK e : e = r.elapsed - spent
  OBVIOUS
<1>4. e \in Nat
  BY <1>2, <1>3
<1>5. PICK n : n = IF r.repeat = Forever THEN r.times ELSE r.times + 1
  OBVIOUS
<1>6. n \in Nat
  BY <1>2, <1>5
<1>7. PICK r1 : r1 = [r EXCEPT !.elapsed = e]
  OBVIOUS
<1>8. /\ r1 \in Timer /\ r1.elapsed = e /\ r1.key = r.key /\ r1.repeat = r.repeat
      /\ r1.times = r.times
  BY <1>2, <1>4, <1>7 DEF Timer
<1>9. PICK r2 : r2 = [r1 EXCEPT !.delay = delay]
  OBVIOUS
<1>10. /\ r2 \in Timer /\ r2.elapsed = e /\ r2.key = r.key /\ r2.repeat = r.repeat
       /\ r2.times = r.times
  BY <1>8, <1>9 DEF Timer
<1>11. PICK r3 : r3 = [r2 EXCEPT !.times = n]
  OBVIOUS
<1>12. /\ r3 \in Timer /\ r3.elapsed = e /\ r3.key = r.key /\ r3.repeat = r.repeat
       /\ r3.times = n
  BY <1>6, <1>10, <1>11 DEF Timer
<1>13. PICK f1 : f1 = [timer EXCEPT ![c] = r1]
  OBVIOUS
<1>14. /\ f1 \in [Ids -> Timer] /\ f1[c] = r1 /\ \A u \in Ids : u # c => f1[u] = timer[u]
       /\ f1 = [timer EXCEPT ![c].elapsed = @ - spent]
  BY <1>1, <1>3, <1>7, <1>8, <1>13
<1>15. PICK f2 : f2 = [f1 EXCEPT ![c] = r2]
  OBVIOUS
<1>16. /\ f2 \in [Ids -> Timer] /\ f2[c] = r2 /\ \A u \in Ids : u # c => f2[u] = timer[u]
       /\ f2 = [f1 EXCEPT ![c].delay = delay]
  BY <1>9, <1>10, <1>14, <1>15
<1>17. PICK f3 : f3 = [f2 EXCEPT ![c] = r3]
  OBVIOUS
<1>18. /\ f3 \in [Ids -> Timer] /\ f3[c] = r3 /\ \A u \in Ids : u # c => f3[u] = timer[u]
  BY <1>11, <1>12, <1>16, <1>17
<1>19. f3 = [f2 EXCEPT ![c].times = IF r.repeat = Forever THEN @ ELSE @ + 1]
  BY <1>5, <1>10, <1>11, <1>16, <1>17
<1>20. timer' = [timer EXCEPT ![c].elapsed = @ - spent, ![c].delay = delay,
                              ![c].times = IF r.repeat = Forever THEN @ ELSE @ + 1]
  BY <1>1 DEF Returned
<1>21. timer' = f3
  BY <1>14, <1>16, <1>19, <1>20
<1>22. QED
  BY <1>1, <1>3, <1>5, <1>12, <1>18, <1>21

LEMMA ReturnStep ==
  ASSUME IInv, pc \in {"delayed", "callback"}, NEW next \in {"while", "callback", "after"},
         CancelOr(next), NEW spent \in Nat, NEW delay \in Nat, Returned(spent, delay),
         timer[currentTimer].elapsed >= spent,
         next = "callback" => timer[currentTimer].elapsed - spent >= interval,
         UNCHANGED <<dt, interval, currentTarget, currentTimer, skipped, again>>
  PROVE  IInv'
<1>1. /\ Core /\ FieldsInv /\ timer \in [Ids -> Timer] /\ timers \in [Targets -> Seq(Ids)]
      /\ KeysApart /\ RepeatKept /\ pc \in Running /\ next \in Running
      /\ \A h \in Targets : Of(h) \subseteq Ids
  BY InToSet DEF IInv, FieldsInv, Core, TypeInv, Running, Of
<1>2. /\ Core' /\ pc' \in {"after", next}
      /\ \A h \in Targets : Of(h)' \subseteq Of(h)
      /\ Exhausted => \A h \in Targets : currentTimer \notin Of(h)'
  BY <1>1, CancelOrStays
<1>3. PICK c : c = currentTimer
  OBVIOUS
<1>4. c \in Ids /\ currentTimer' = c
  BY <1>1, <1>3, CurrentIsTimer
<1>5. PICK r : r = timer[c]
  OBVIOUS
<1>6. r \in Timer /\ r.elapsed >= spent
  BY <1>1, <1>3, <1>4, <1>5
<1>7. r.elapsed \in Nat \cup {-1} /\ r.times \in Nat /\ r.repeat \in Nat \cup {Forever}
  BY <1>6 DEF Timer
<1>8. /\ timer' \in [Ids -> Timer]
      /\ \A u \in Ids : u # c => timer'[u] = timer[u]
      /\ timer'[c].key = r.key /\ timer'[c].repeat = r.repeat
      /\ timer'[c].elapsed = r.elapsed - spent
      /\ timer'[c].times = IF r.repeat = Forever THEN r.times ELSE r.times + 1
  BY <1>1, <1>3, <1>4, <1>5, <1>6, ReturnedField
<1>9. TimingInv'
  <2>1. r.elapsed - spent >= 0
    BY <1>6, <1>7
  <2>2. next = "callback" => timer'[c].elapsed >= interval'
    BY <1>3, <1>5, <1>8
  <2>3. pc' \in {"after", "while", "callback"} /\ (pc' = "callback" => next = "callback")
    BY <1>2
  <2>4. QED
    BY <1>4, <1>8, <2>1, <2>2, <2>3 DEF TimingInv
<1>10. ASSUME NEW h \in Targets, NEW t \in Of(h)'
       PROVE  /\ timer'[t].key = timer[t].key /\ timer'[t].repeat = timer[t].repeat
              /\ \/ timer'[t].times = timer[t].times
                 \/ timer'[t].repeat # Forever => timer'[t].times <= timer'[t].repeat
  <2>1. t \in Ids
    BY <1>1, <1>2
  <2>2. CASE t # c
    BY <1>8, <2>1, <2>2
  <2>3. CASE t = c
    <3>1. ~Exhausted
      BY <1>2, <1>3, <2>3
    <3>2. r.repeat = Forever \/ ~(r.times >= r.repeat)
      BY <1>3, <1>5, <3>1 DEF Exhausted
    <3>3. r.repeat # Forever => r.times + 1 <= r.repeat
      BY <1>7, <3>2
    <3>4. QED
      BY <1>5, <1>8, <2>3, <3>3
  <2>4. QED
    BY <2>2, <2>3
<1>11. FieldsInv'
  BY <1>1, <1>2, <1>8, <1>9, <1>10, FieldsKept
<1>12. QED
  BY <1>2, <1>11 DEF IInv

LEMMA DelayedReturnStep ==
  ASSUME IInv, DelayedReturn
  PROVE  IInv'
<1>1. PICK spent : spent = timer[currentTimer].delay
  OBVIOUS
<1>2. /\ pc = "delayed" /\ Returned(spent, 0) /\ CancelOr("while")
      /\ UNCHANGED <<dt, interval, currentTarget, currentTimer, skipped, again>>
  BY <1>1 DEF DelayedReturn, missed
<1>3. timer[currentTimer] \in Timer
  BY <1>2, CurrentIsTimer DEF IInv, FieldsInv, Running
<1>4. spent \in Nat /\ timer[currentTimer].elapsed >= spent
  BY <1>1, <1>2, <1>3 DEF Timer, IInv, FieldsInv, TimingInv
<1>5. QED
  BY <1>2, <1>4, ReturnStep

LEMMA CallbackReturnStep ==
  ASSUME IInv, CallbackReturn
  PROVE  IInv'
<1>1. PICK r : r = timer[currentTimer]
  OBVIOUS
<1>2. PICK spent : spent = interval
  OBVIOUS
<1>3. PICK next : next = IF r.elapsed - spent > 0 /\ ~targetSalvaged
                            /\ r.elapsed - spent >= spent
                         THEN "callback" ELSE "after"
  OBVIOUS
<1>4. /\ pc = "callback" /\ Returned(spent, r.delay) /\ CancelOr(next)
      /\ UNCHANGED <<dt, interval, currentTarget, currentTimer, skipped, again>>
  BY <1>1, <1>2, <1>3 DEF CallbackReturn, missed
<1>5. r \in Timer
  BY <1>1, <1>4, CurrentIsTimer DEF IInv, FieldsInv, Running
<1>6. r.delay \in Nat /\ spent \in Nat /\ timer[currentTimer].elapsed >= spent
  BY <1>1, <1>2, <1>4, <1>5 DEF Timer, IInv, FieldsInv, TimingInv, Core, TypeInv
<1>7. /\ next \in {"while", "callback", "after"}
      /\ next = "callback" => timer[currentTimer].elapsed - spent >= interval
  BY <1>1, <1>2, <1>3
<1>8. QED
  BY <1>4, <1>6, <1>7, ReturnStep

-----------------------------------------------------------------------------
(* The invariant holds.                                                    *)

LEMMA InitIInv == Init => IInv
<1> SUFFICES ASSUME Init PROVE IInv
  OBVIOUS
<1>1. /\ order = <<>> /\ timers = [g \in Targets |-> <<>>]
      /\ isPaused = [g \in Targets |-> FALSE] /\ timer = [t \in Ids |-> Freed]
      /\ refs = [t \in Ids |-> 0] /\ pos = 1 /\ pc = "idle" /\ dt = 0 /\ interval = 0
      /\ currentTarget = NoTarget /\ targetSalvaged = FALSE
      /\ timerIndex = 1 /\ currentTimer = None /\ timerSalvaged = FALSE
      /\ updated = {} /\ due = {} /\ skipped = {} /\ again = {}
  BY DEF Init
<1>2. \A S : <<>> \in Seq(S) /\ Len(<<>>) = 0 /\ IsInjective(<<>>)
  BY DEF IsInjective
<1>3. \A g \in Targets : timers[g] = <<>>
  BY <1>1
<1>4. ToSet(<<>>) = {}
  <2>1. PICK s : s = <<>>
    OBVIOUS
  <2>2. s \in Seq(Ids)
    BY <1>2, <2>1
  <2>3. QED
    BY <2>1, <2>2, InToSet
<1>5. \A g \in Targets : Of(g) = {}
  BY <1>3, <1>4 DEF Of
<1>6. Cardinality(Ids) \in Nat
  BY FS_CardinalityType, SchedulerAssumption
<1>7. TypeInv
  <2>1. order \in Seq(Targets) /\ IsInjective(order) /\ pos \in 1..Len(order) + 1
    BY <1>1, <1>2
  <2>2. timers \in [Targets -> Seq(Ids)] /\ isPaused \in [Targets -> BOOLEAN]
        /\ refs \in [Ids -> 0..1]
    BY <1>1
  <2>3. timerIndex \in 0..Cardinality(Ids) + 1
    BY <1>1, <1>6
  <2>4. QED
    BY <1>1, <2>1, <2>2, <2>3 DEF TypeInv
<1>8. ListsApart
  BY <1>2, <1>3, <1>5 DEF ListsApart
<1>9. RefsInv
  BY <1>1, <1>5 DEF RefsInv, Listed
<1>10. CurrentInv
  BY <1>1 DEF CurrentInv, Running, Visiting
<1>11. IteratorValid
  <2>1. \A g \in ToSet(order) : FALSE
    BY <1>1, <1>4
  <2>2. QED
    BY <1>1, <1>3, <2>1 DEF IteratorValid
<1>12. HistoryInv /\ WalkInv /\ PlaceInv
  BY <1>1 DEF HistoryInv, WalkInv, PlaceInv, Running
<1>13. Core
  BY <1>7, <1>8, <1>9, <1>10, <1>11, <1>12 DEF Core
<1>14. timer \in [Ids -> Timer]
  <2>1. PICK k : k = CHOOSE x \in Keys : TRUE
    OBVIOUS
  <2>2. k \in Keys
    BY <2>1, SchedulerAssumption
  <2>3. [key |-> k, times |-> 0, elapsed |-> -1, interval |-> 0, repeat |-> 0,
         delay |-> 0] \in Timer
    BY <2>2 DEF Timer
  <2>4. Freed \in Timer
    BY <2>1, <2>3 DEF Freed
  <2>5. QED
    BY <1>1, <2>4
<1>15. KeysApart /\ RepeatKept
  BY <1>5 DEF KeysApart, RepeatKept, Of
<1>16. TimingInv
  BY <1>1 DEF TimingInv
<1>17. QED
  BY <1>13, <1>14, <1>15, <1>16 DEF IInv, FieldsInv

LEMMA StutterIInv ==
  ASSUME IInv, UNCHANGED vars
  PROVE  IInv'
<1>1. UNCHANGED <<order, timers, isPaused, timer, refs, pos, dt, interval, pc,
                  currentTarget, targetSalvaged, timerIndex, currentTimer,
                  timerSalvaged, updated, due, skipped, again>>
  BY DEF vars, tables, walk, current, history, missed
<1>2. \A g : Of(g)' = Of(g)
  BY <1>1 DEF Of
<1>3. \A t : Listed(t)' <=> Listed(t)
  BY <1>2 DEF Listed
<1>4. Behind' = Behind /\ Ahead' = Ahead /\ Reached' = Reached
  BY <1>1 DEF Behind, Ahead, Reached
<1>5. TypeInv' /\ ListsApart' /\ RefsInv'
  BY <1>1, <1>2, <1>3 DEF IInv, Core, TypeInv, ListsApart, RefsInv
<1>6. CurrentInv' /\ IteratorValid'
  BY <1>1, <1>2, <1>3 DEF IInv, Core, CurrentInv, IteratorValid, Listed, Of
<1>7. HistoryInv'
  BY <1>1, <1>2, <1>3 DEF IInv, Core, HistoryInv
<1>8. WalkInv' /\ PlaceInv'
  BY <1>1, <1>2, <1>4 DEF IInv, Core, WalkInv, PlaceInv, Done
<1>9. FieldsInv'
  BY <1>1, <1>2 DEF IInv, FieldsInv, KeysApart, TimingInv, RepeatKept
<1>10. QED
  BY <1>5, <1>6, <1>7, <1>8, <1>9 DEF IInv, Core

LEMMA NextIInv == IInv /\ [Next]_vars => IInv'
<1> SUFFICES ASSUME IInv, [Next]_vars PROVE IInv'
  OBVIOUS
<1>1. CASE UNCHANGED vars
  BY <1>1, StutterIInv
<1>2. CASE InUpdate
  BY <1>2, WalkStep, VisitTimerStep, DelayedReturnStep, WhileElapsedStep,
     CallbackReturnStep, NextTimerStep DEF InUpdate
<1>3. ASSUME NEW d \in Steps, Update(d) PROVE IInv'
  BY <1>3, WalkStep
<1>4. ASSUME NEW use \in Uses, Schedule(use[1], use[2], use[3]) PROVE IInv'
  BY <1>4, ScheduleStep
<1>5. ASSUME NEW g \in Targets, NEW k \in Keys, Unschedule(g, k) PROVE IInv'
  BY <1>5, UnscheduleStep
<1>6. ASSUME NEW g \in Targets,
             UnscheduleAllForTarget(g) \/ PauseTarget(g) \/ ResumeTarget(g)
      PROVE  IInv'
  BY <1>6, UnscheduleAllStep, PauseStep
<1>7. QED
  BY <1>1, <1>2, <1>3, <1>4, <1>5, <1>6 DEF Next

LEMMA IInvHolds == Spec => []IInv
  BY InitIInv, NextIInv, PTL DEF Spec

-----------------------------------------------------------------------------
(* What follows.                                                           *)

LEMMA AliveFollows == Core => TimersAlive /\ RunningAlive
<1> SUFFICES ASSUME Core PROVE TimersAlive /\ RunningAlive
  OBVIOUS
<1>1. TypeInv /\ ListsApart /\ RefsInv /\ CurrentInv
  BY DEF Core
<1>2. ASSUME NEW t \in Ids
      PROVE  refs[t] = Cardinality({g \in Targets : t \in ToSet(timers[g])})
                         + (IF t = currentTimer /\ timerSalvaged THEN 1 ELSE 0)
  <2>1. PICK own : own = {g \in Targets : t \in ToSet(timers[g])}
    OBVIOUS
  <2>2. \A g \in Targets : g \in own <=> t \in Of(g)
    BY <2>1 DEF Of
  <2>3. CASE Listed(t)
    <3>1. PICK g \in Targets : t \in Of(g)
      BY <2>3 DEF Listed
    <3>2. own = {g}
      BY <1>1, <2>1, <2>2, <3>1 DEF ListsApart
    <3>3. Cardinality(own) = 1
      BY <3>2, FS_Singleton
    <3>4. ~(t = currentTimer /\ timerSalvaged)
      BY <1>1, <2>3 DEF CurrentInv
    <3>5. refs[t] = 1
      BY <1>1, <2>3 DEF RefsInv
    <3>6. QED
      BY <2>1, <3>3, <3>4, <3>5
  <2>4. CASE ~Listed(t)
    <3>1. own = {}
      BY <2>1, <2>2, <2>4 DEF Listed
    <3>2. Cardinality(own) = 0
      BY <3>1, FS_EmptySet
    <3>3. refs[t] = IF t = currentTimer /\ timerSalvaged THEN 1 ELSE 0
      BY <1>1, <2>4 DEF RefsInv
    <3>4. QED
      BY <2>1, <3>2, <3>3
  <2>5. QED
    BY <2>3, <2>4
<1>3. RunningAlive
  <2> SUFFICES ASSUME currentTimer # None PROVE refs[currentTimer] > 0
    BY DEF RunningAlive
  <2>1. PICK c : c = currentTimer
    OBVIOUS
  <2>2. pc \in Running /\ c \in Ids
    BY <1>1, <2>1 DEF CurrentInv, TypeInv
  <2>3. Listed(c) \/ (c = currentTimer /\ timerSalvaged)
    BY <2>1, <2>2, CurrentIsTimer DEF Listed
  <2>4. refs[c] = 1
    BY <1>1, <2>2, <2>3 DEF RefsInv
  <2>5. QED
    BY <2>1, <2>4
<1>4. QED
  BY <1>2, <1>3 DEF TimersAlive

(* The greatest number of entries only grows.                              *)
MostInv == most \in Nat

LEMMA MostStep == IInv /\ MostInv /\ [Next]_vars => MostInv'
<1> SUFFICES ASSUME IInv, most \in Nat, [Next]_vars PROVE most' \in Nat
  BY DEF MostInv
<1>1. CASE UNCHANGED vars
  BY <1>1 DEF vars, tables
<1>2. CASE InUpdate
  <2>1. UNCHANGED most
    BY <1>2 DEF InUpdate, VisitTarget, VisitTimer, DelayedReturn, WhileElapsed, CallbackReturn,
                NextTimer, LastTimer, LeaveTarget, UpdateEnd, tables
  <2>2. QED
    BY <2>1
<1>3. ASSUME NEW d \in Steps, Update(d) PROVE most' \in Nat
  BY <1>3 DEF Update, tables
<1>4. ASSUME NEW use \in Uses, Schedule(use[1], use[2], use[3]) PROVE most' \in Nat
  <2>1. CASE UNCHANGED most
    BY <2>1
  <2>2. CASE most' = Max({most, Len(order) + 1})
    <3>1. Len(order) + 1 \in Nat
      BY DEF IInv, Core, TypeInv
    <3>2. PICK n \in Nat : n = Len(order) + 1
      BY <3>1
    <3>3. most >= n \/ n >= most
      BY <3>2
    <3>4. \E x \in {most, n} : \A y \in {most, n} : x >= y
      BY <3>2, <3>3
    <3>5. Max({most, n}) \in {most, n}
      BY <3>4 DEF Max
    <3>6. QED
      BY <2>2, <3>2, <3>5
  <2>3. QED
    BY <1>4, <2>1, <2>2 DEF Schedule, InsertEntry
<1>5. ASSUME NEW g \in Targets, NEW k \in Keys, Unschedule(g, k) PROVE most' \in Nat
  BY <1>5 DEF Unschedule
<1>6. ASSUME NEW g \in Targets,
             UnscheduleAllForTarget(g) \/ PauseTarget(g) \/ ResumeTarget(g)
      PROVE  most' \in Nat
  BY <1>6 DEF UnscheduleAllForTarget, PauseTarget, ResumeTarget
<1>7. QED
  BY <1>1, <1>2, <1>3, <1>4, <1>5, <1>6 DEF Next

LEMMA MostHolds == Spec => []MostInv
<1>1. Init => MostInv
  BY DEF Init, MostInv
<1>2. QED
  BY <1>1, MostStep, IInvHolds, PTL DEF Spec

(* A timer that has been updated is no longer due.                         *)
DueInv == due \cap updated = {}

LEMMA DueStep == IInv /\ DueInv /\ [Next]_vars => DueInv'
<1> SUFFICES ASSUME IInv, DueInv, [Next]_vars PROVE DueInv'
  OBVIOUS
<1>1. CASE UNCHANGED <<updated, due>>
  BY <1>1 DEF DueInv
<1>2. ASSUME NEW g, NEW i, RemoveTimer(g, i) PROVE DueInv'
  BY <1>2 DEF RemoveTimer, TakeOut, DueInv
<1>3. CASE InUpdate
  <2>1. CASE VisitTarget \/ WhileElapsed \/ NextTimer \/ LastTimer \/ LeaveTarget
    BY <2>1, <1>1 DEF VisitTarget, WhileElapsed, NextTimer, LastTimer, LeaveTarget, history
  <2>2. CASE VisitTimer
    BY <2>2 DEF VisitTimer, StartTimer, DueInv
  <2>3. ASSUME NEW next, CancelOr(next) PROVE DueInv'
    BY <2>3, <1>1, <1>2 DEF CancelOr, Cancel
  <2>4. CASE DelayedReturn
    BY <2>4, <2>3 DEF DelayedReturn
  <2>5. CASE CallbackReturn
    BY <2>5, <2>3 DEF CallbackReturn
  <2>6. CASE UpdateEnd
    BY <2>6 DEF UpdateEnd, DueInv
  <2>7. QED
    BY <1>3, <2>1, <2>2, <2>4, <2>5, <2>6 DEF InUpdate
<1>4. ASSUME NEW d \in Steps, Update(d) PROVE DueInv'
  <2>1. updated = {}
    BY <1>4 DEF Update, IInv, Core, HistoryInv
  <2>2. QED
    BY <1>4, <2>1 DEF Update, DueInv
<1>5. ASSUME NEW use \in Uses, Schedule(use[1], use[2], use[3]) PROVE DueInv'
  BY <1>5, <1>1 DEF Schedule
<1>6. ASSUME NEW g \in Targets, NEW k \in Keys, Unschedule(g, k) PROVE DueInv'
  BY <1>6, <1>2 DEF Unschedule
<1>7. ASSUME NEW g \in Targets, UnscheduleAllForTarget(g) PROVE DueInv'
  BY <1>7 DEF UnscheduleAllForTarget, DueInv
<1>8. ASSUME NEW g \in Targets, PauseTarget(g) \/ ResumeTarget(g) PROVE DueInv'
  BY <1>8 DEF PauseTarget, ResumeTarget, history, DueInv
<1>9. CASE UNCHANGED vars
  BY <1>9, <1>1 DEF vars, history
<1>10. QED
  BY <1>3, <1>4, <1>5, <1>6, <1>7, <1>8, <1>9 DEF Next

LEMMA DueHolds == Spec => []DueInv
<1>1. Init => DueInv
  BY DEF Init, DueInv
<1>2. QED
  BY <1>1, DueStep, IInvHolds, PTL DEF Spec

LEMMA TypeFollows == IInv /\ MostInv => TypeOK
<1> SUFFICES ASSUME IInv, MostInv PROVE TypeOK
  OBVIOUS
<1>1. TypeInv /\ timer \in [Ids -> Timer]
  BY DEF IInv, Core, FieldsInv
<1>2. refs \in [Ids -> 0..2]
  BY <1>1 DEF TypeInv
<1>3. ASSUME NEW t \in Ids PROVE timer[t].elapsed >= -1 /\ timer[t].key \in Keys
  <2>1. timer[t] \in Timer
    BY <1>1
  <2>2. timer[t].elapsed \in Nat \cup {-1} /\ timer[t].key \in Keys
    BY <2>1 DEF Timer
  <2>3. QED
    BY <2>2
<1>4. pc \in {"idle", "target", "timer", "delayed", "while", "callback", "after", "leave"}
  BY <1>1 DEF TypeInv, Visiting, Running
<1>5. QED
  BY <1>1, <1>2, <1>3, <1>4 DEF TypeInv, TypeOK, MostInv

(* A frame that has reached the end has passed every target in the map.    *)
LEMMA FrameFollows == Core /\ DueInv => FrameUpdatesAll
<1> SUFFICES ASSUME Core, DueInv, pc = "target", pos > Len(order), NEW t \in due
             PROVE  \E g \in skipped : t \in ToSet(timers[g])
  BY DEF FrameUpdatesAll
<1>1. TypeInv /\ IteratorValid /\ HistoryInv /\ WalkInv
  BY DEF Core
<1>2. PICK g \in Targets : t \in Of(g)
  BY <1>1 DEF HistoryInv, Listed
<1>3. timers[g] # <<>>
  <2>1. PICK s : s = timers[g]
    OBVIOUS
  <2>2. s \in Seq(Ids) /\ t \in ToSet(s)
    BY <1>1, <1>2, <2>1 DEF TypeInv, Of
  <2>3. s # <<>>
    BY <2>2, InToSet
  <2>4. QED
    BY <2>1, <2>3
<1>4. g \in ToSet(order)
  BY <1>1, <1>3 DEF IteratorValid
<1>5. PICK j \in 1..Len(order) : order[j] = g
  BY <1>1, <1>4, InToSet DEF TypeInv
<1>6. j \in 1..pos - 1
  BY <1>1, <1>5 DEF TypeInv
<1>7. g \in Behind
  BY <1>5, <1>6 DEF Behind, Before
<1>8. CASE g \in skipped
  BY <1>2, <1>8 DEF Of
<1>9. CASE g \notin skipped
  BY <1>1, <1>2, <1>7, <1>9 DEF WalkInv, Done, DueInv
<1>10. QED
  BY <1>8, <1>9

(* Only the visit of a timer makes it the current one, and it is one that  *)
(* the walk has not reached.                                               *)
LEMMA VisitFollows ==
  ASSUME Core, Next, currentTimer = None, currentTimer' # None
  PROVE  currentTimer' \notin updated \/ currentTarget \in again
<1>1. VisitTimer
  <2>1. CASE InUpdate
    BY <2>1 DEF InUpdate, VisitTarget, DelayedReturn, WhileElapsed, CallbackReturn,
                NextTimer, LastTimer, LeaveTarget, UpdateEnd, current
  <2>2. ASSUME NEW d \in Steps, Update(d) PROVE currentTimer' = currentTimer
    BY <2>2 DEF Update, current
  <2>3. ASSUME NEW use \in Uses, Schedule(use[1], use[2], use[3])
        PROVE  currentTimer' = currentTimer
    BY <2>3 DEF Schedule, current
  <2>4. ASSUME NEW g \in Targets, NEW k \in Keys, Unschedule(g, k)
        PROVE  currentTimer' = currentTimer
    BY <2>4 DEF Unschedule
  <2>5. ASSUME NEW g \in Targets,
               UnscheduleAllForTarget(g) \/ PauseTarget(g) \/ ResumeTarget(g)
        PROVE  currentTimer' = currentTimer
    BY <2>5 DEF UnscheduleAllForTarget, PauseTarget, ResumeTarget, current
  <2>6. QED
    BY <2>1, <2>2, <2>3, <2>4, <2>5 DEF Next
<1>2. PICK i : i = timerIndex
  OBVIOUS
<1>3. /\ pc = "timer" /\ i <= Len(timers[currentTarget])
      /\ currentTimer' = timers[currentTarget][i]
  BY <1>1, <1>2 DEF VisitTimer, StartTimer
<1>4. i \in Nat /\ i > 0 /\ Reached = i - 1
  <2>1. Cardinality(Ids) \in Nat
    BY FS_CardinalityType, SchedulerAssumption
  <2>2. QED
    BY <1>2, <1>3, <2>1 DEF Core, TypeInv, CurrentInv, Reached
<1>5. currentTarget \in Targets /\ timers[currentTarget] \in Seq(Ids)
  BY <1>3 DEF Core, TypeInv, CurrentInv, Visiting
<1>6. i \in 1..Len(timers[currentTarget]) /\ ~(i <= Reached)
  BY <1>3, <1>4, <1>5
<1>7. QED
  BY <1>3, <1>6 DEF Core, PlaceInv

-----------------------------------------------------------------------------
(* The theorems.                                                           *)

(* A timer is freed when, and only when, no target and no running update   *)
(* uses it, and one with a limit is not called past it, whatever the       *)
(* call-backs of a frame schedule and unschedule (unschedule, cancel).     *)
THEOREM TimersInvCorrect == Spec => []TimersInv
<1>1. IInv /\ MostInv => TimersInv
  BY AliveFollows, TypeFollows DEF IInv, FieldsInv, TimersInv
<1>2. QED
  BY <1>1, IInvHolds, MostHolds, PTL

(* The entry under update's iterator is not erased while its target is     *)
(* visited, and no target with timers falls out of the map, over any       *)
(* sequence of insertions, rehashes and removals that call-backs cause.    *)
THEOREM IteratorValidCorrect == Spec => []IteratorValid
<1>1. IInv => IteratorValid
  BY DEF IInv, Core
<1>2. QED
  BY <1>1, IInvHolds, PTL

(* A frame updates every timer that was there, and not paused, all along   *)
(* it, but for those of a target that update stepped over (lines 399-403)  *)
(* or that a rehash has put behind the iterator: nothing else loses one.   *)
THEOREM FrameUpdatesAllCorrect == Spec => []FrameUpdatesAll
<1>1. IInv /\ DueInv => FrameUpdatesAll
  BY FrameFollows DEF IInv
<1>2. QED
  BY <1>1, IInvHolds, DueHolds, PTL

(* A frame updates no timer twice, however its list is shortened and       *)
(* extended while update goes through it, but for those of a target that a *)
(* rehash has put before the iterator again.                               *)
THEOREM UpdatedOnceCorrect == Spec => UpdatedOnce
<1>1. IInv /\ [Next]_vars
        => [currentTimer = None /\ currentTimer' # None =>
              currentTimer' \notin updated \/ currentTarget \in again]_vars
  <2> SUFFICES ASSUME IInv, Next, currentTimer = None, currentTimer' # None
               PROVE  currentTimer' \notin updated \/ currentTarget \in again
    OBVIOUS
  <2>1. QED
    BY VisitFollows DEF IInv
<1>2. QED
  BY <1>1, IInvHolds, PTL DEF Spec, UpdatedOnce
=============================================================================
