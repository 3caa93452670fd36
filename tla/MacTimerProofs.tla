--------------------------- MODULE MacTimerProofs ---------------------------
(***************************************************************************)
(* What TLAPS proves of CppTime for every number of events and owners, and *)
(* of the two threads above it.  MacTimer drives CppTime as CppTime        *)
(* expects: whatever the interleaving of the two threads, what happens to  *)
(* the queue is a behaviour of CppTime, so what is proved of the queue     *)
(* holds in the composition.  And a timer removes no other timer's event,  *)
(* as long as nothing but the heartbeat expires.                           *)
(***************************************************************************)
EXTENDS MacTimer, SequencesExt, SequenceTheorems, TLAPS

(* What removing the i-th element of a sequence leaves.                    *)
LEMMA RemoveAtElements ==
    ASSUME NEW S, NEW s \in Seq(S), NEW i \in DOMAIN s
    PROVE  /\ RemoveAt(s, i) \in Seq(S)
           /\ Len(RemoveAt(s, i)) = Len(s) - 1
           /\ \A j \in 1..(Len(s) - 1) :
                  RemoveAt(s, i)[j] = IF j < i THEN s[j] ELSE s[j + 1]
<1>1. Len(s) \in Nat /\ DOMAIN s = 1..Len(s) /\ i \in 1..Len(s)
  BY LenProperties
<1> DEFINE front == SubSeq(s, 1, i - 1)
           back == SubSeq(s, i + 1, Len(s))
<1>2. /\ front \in Seq(S)
      /\ Len(front) = i - 1
      /\ \A j \in 1..(i - 1) : front[j] = s[j]
  BY <1>1
<1>3. /\ back \in Seq(S)
      /\ Len(back) = Len(s) - i
      /\ \A j \in 1..(Len(s) - i) : back[j] = s[i + j]
  BY <1>1
<1>4. RemoveAt(s, i) = front \o back
  BY DEF RemoveAt
<1> HIDE DEF front, back
<1>5. /\ front \o back \in Seq(S)
      /\ Len(front \o back) = (i - 1) + (Len(s) - i)
      /\ \A j \in 1..((i - 1) + (Len(s) - i)) :
            (front \o back)[j] = IF j <= i - 1 THEN front[j] ELSE back[j - (i - 1)]
  <2>1. /\ front \o back \in Seq(S)
        /\ Len(front \o back) = Len(front) + Len(back)
        /\ \A j \in 1..(Len(front) + Len(back)) :
              (front \o back)[j] = IF j <= Len(front) THEN front[j] ELSE back[j - Len(front)]
    BY <1>2, <1>3, ConcatProperties, Zenon
  <2> QED BY <1>2, <1>3, <2>1
<1>6. ASSUME NEW j \in 1..(Len(s) - 1)
      PROVE  (front \o back)[j] = IF j < i THEN s[j] ELSE s[j + 1]
  <2>1. CASE j < i
    BY <1>1, <1>2, <1>5, <2>1
  <2>2. CASE ~(j < i)
    <3>0. j - (i - 1) \in 1..(Len(s) - i) /\ i + (j - (i - 1)) = j + 1
      BY <1>1, <2>2
    <3>1. PICK x \in 1..(Len(s) - i) : x = j - (i - 1) /\ i + x = j + 1
      BY <3>0
    <3>2. (front \o back)[j] = back[x]
      BY <1>1, <1>5, <2>2, <3>1
    <3> QED BY <1>3, <2>2, <3>1, <3>2
  <2> QED BY <2>1, <2>2
<1> QED BY <1>1, <1>4, <1>5, <1>6

(* Removing an element of a sequence without duplicates takes exactly that *)
(* element out of the set of its elements.                                 *)
LEMMA RemoveAtInjective ==
    ASSUME NEW S, NEW s \in Seq(S), NEW i \in DOMAIN s, IsInjective(s)
    PROVE  /\ IsInjective(RemoveAt(s, i))
           /\ ToSet(RemoveAt(s, i)) = ToSet(s) \ {s[i]}
<1> DEFINE r == RemoveAt(s, i)
<1>1. /\ Len(s) \in Nat /\ DOMAIN s = 1..Len(s) /\ i \in 1..Len(s)
      /\ DOMAIN r = 1..(Len(s) - 1)
  BY LenProperties, RemoveAtElements
<1>2. \A j \in 1..(Len(s) - 1) : r[j] = IF j < i THEN s[j] ELSE s[j + 1]
  BY RemoveAtElements
<1>3. \A j, k \in 1..Len(s) : s[j] = s[k] => j = k
  BY <1>1 DEF IsInjective
<1> HIDE DEF r
<1>4. IsInjective(r)
  <2> SUFFICES ASSUME NEW j \in 1..(Len(s) - 1), NEW k \in 1..(Len(s) - 1), r[j] = r[k]
               PROVE  j = k
    BY <1>1 DEF IsInjective
  <2> DEFINE from(m) == IF m < i THEN m ELSE m + 1
  <2>1. \A m \in 1..(Len(s) - 1) : from(m) \in 1..Len(s) /\ r[m] = s[from(m)]
    BY <1>1, <1>2
  <2>2. from(j) = from(k)
    <3> HIDE DEF from
    <3> QED BY <1>3, <2>1
  <2> QED BY <1>1, <2>2
<1>5. ToSet(r) = {r[j] : j \in 1..(Len(s) - 1)} /\ ToSet(s) = {s[j] : j \in 1..Len(s)}
  BY <1>1 DEF ToSet
<1>6. ASSUME NEW j \in 1..(Len(s) - 1)
      PROVE  r[j] \in {s[k] : k \in 1..Len(s)} \ {s[i]}
  <2>1. CASE j < i
    BY <1>1, <1>2, <1>3, <2>1
  <2>2. CASE ~(j < i)
    <3>1. j + 1 \in 1..Len(s) /\ j + 1 # i /\ r[j] = s[j + 1]
      BY <1>1, <1>2, <2>2
    <3> QED BY <1>1, <1>3, <3>1
  <2> QED BY <2>1, <2>2
<1>7. ASSUME NEW k \in 1..Len(s), s[k] # s[i]
      PROVE  \E j \in 1..(Len(s) - 1) : s[k] = r[j]
  <2>1. CASE k < i
    <3>1. k \in 1..(Len(s) - 1) /\ r[k] = s[k]
      BY <1>1, <1>2, <2>1
    <3> QED BY <3>1
  <2>2. CASE k > i
    <3>1. k - 1 \in 1..(Len(s) - 1) /\ ~(k - 1 < i) /\ (k - 1) + 1 = k
      BY <1>1, <2>2
    <3>2. r[k - 1] = s[k]
      BY <1>2, <3>1
    <3> QED BY <3>1, <3>2
  <2>3. k # i
    BY <1>7
  <2> QED BY <1>1, <2>1, <2>2, <2>3
<1>8. ToSet(r) = ToSet(s) \ {s[i]}
  BY <1>5, <1>6, <1>7, Zenon
<1> QED BY <1>4, <1>8 DEF r

(* Appending a new element keeps a sequence free of duplicates.            *)
LEMMA AppendInjectiveElement ==
    ASSUME NEW S, NEW s \in Seq(S), NEW e \in S, e \notin ToSet(s), IsInjective(s)
    PROVE  /\ Append(s, e) \in Seq(S)
           /\ IsInjective(Append(s, e))
           /\ ToSet(Append(s, e)) = ToSet(s) \cup {e}
<1> DEFINE r == Append(s, e)
<1>1. /\ Len(s) \in Nat /\ DOMAIN s = 1..Len(s)
      /\ r \in Seq(S) /\ DOMAIN r = 1..(Len(s) + 1)
      /\ \A j \in 1..Len(s) : r[j] = s[j]
      /\ r[Len(s) + 1] = e
  BY LenProperties, AppendProperties
<1>2. \A j \in 1..Len(s) : s[j] # e
  BY <1>1 DEF ToSet
<1>3. \A j, k \in 1..Len(s) : s[j] = s[k] => j = k
  BY <1>1 DEF IsInjective
<1> HIDE DEF r
<1>4. \A j \in 1..(Len(s) + 1) : j \in 1..Len(s) \/ j = Len(s) + 1
  BY <1>1
<1>5. IsInjective(r)
  BY <1>1, <1>2, <1>3, <1>4 DEF IsInjective
<1>6. ToSet(r) = ToSet(s) \cup {e}
  <2>1. ToSet(r) = {r[j] : j \in 1..(Len(s) + 1)} /\ ToSet(s) = {s[j] : j \in 1..Len(s)}
    BY <1>1 DEF ToSet
  <2>2. ASSUME NEW j \in 1..(Len(s) + 1)
        PROVE  r[j] \in {s[k] : k \in 1..Len(s)} \cup {e}
    BY <1>1, <1>4
  <2>3. ASSUME NEW j \in 1..Len(s)
        PROVE  s[j] \in {r[k] : k \in 1..(Len(s) + 1)}
    <3>1. j \in 1..(Len(s) + 1)
      BY <1>1
    <3> QED BY <1>1, <3>1
  <2>4. e \in {r[k] : k \in 1..(Len(s) + 1)}
    BY <1>1
  <2> QED BY <2>1, <2>2, <2>3, <2>4, Zenon
<1> QED BY <1>1, <1>5, <1>6 DEF r

-----------------------------------------------------------------------------
(* The inductive invariant: where an id is, what that says of the event's  *)
(* validity, and that a one-shot event that has fired is not queued.       *)
IInv ==
    /\ TimeTypeOK
    /\ IdsConserved
    /\ OnlyValidEventsAreQueued
    /\ OneShotFiresOnce

LEMMA TimeInitIInv == TimeInit => IInv
<1> SUFFICES ASSUME TimeInit PROVE IInv
  OBVIOUS
<1>1. freeIds = <<>> /\ ToSet(freeIds) = {} /\ IsInjective(freeIds) /\ freeIds \in Seq(Ids)
  BY EmptySeq DEF TimeInit, ToSet, IsInjective
<1> QED
  BY <1>1, CppTimeAssumption
     DEF TimeInit, IInv, TimeTypeOK, IdsConserved, OnlyValidEventsAreQueued, OneShotFiresOnce,
         Known, Event, NoEvent, Ids, NoId

(* Popping the top of a stack without duplicates takes out that id only.   *)
LEMMA PopInjective ==
    ASSUME NEW S, NEW s \in Seq(S), s # <<>>, IsInjective(s)
    PROVE  /\ s[Len(s)] \in ToSet(s)
           /\ s[Len(s)] \in S
           /\ RemoveAt(s, Len(s)) \in Seq(S)
           /\ IsInjective(RemoveAt(s, Len(s)))
           /\ ToSet(RemoveAt(s, Len(s))) = ToSet(s) \ {s[Len(s)]}
<1>1. Len(s) \in DOMAIN s
  BY EmptySeq, LenProperties
<1>2. s[Len(s)] \in S
  BY <1>1, LenProperties
<1>3. s[Len(s)] \in ToSet(s)
  BY <1>1 DEF ToSet
<1> QED BY <1>1, <1>2, <1>3, RemoveAtElements, RemoveAtInjective

(* The id that add() uses is new: it is neither queued nor the one whose   *)
(* handler is running, and it is no longer free.                           *)
LEMMA NextIdIsNew ==
    ASSUME IInv, NEW owner \in Owners, NEW periodic \in BOOLEAN, AddEvent(owner, periodic)
    PROVE  /\ freeIds' \in Seq(Ids) /\ IsInjective(freeIds')
           /\ ToSet(freeIds') = ToSet(freeIds) \ {NextId}
           /\ NextId \notin ToSet(freeIds')
           /\ size' \in 0..MaxIds
           /\ \A i \in Ids : i < size' <=> i < size \/ i = NextId
           /\ due[NextId] = 0
           /\ NextId # firing
<1> USE DEF IInv, TimeTypeOK
<1> DEFINE id == NextId
<1>1. id \in Ids
  BY DEF AddEvent
<1>2. CASE freeIds = <<>>
  <2>1. id = size /\ size' = size + 1 /\ freeIds' = freeIds /\ ToSet(freeIds) = {}
    BY <1>2 DEF AddEvent, NextId, ToSet
  <2>2. size \in Ids
    BY <1>1, <2>1
  <2>3. size' \in 0..MaxIds /\ \A i \in Ids : i < size' <=> i < size \/ i = size
    BY <2>1, <2>2, CppTimeAssumption DEF Ids
  <2>4. due[size] = 0 /\ size # firing
    BY <2>2 DEF IdsConserved, Known, Ids, NoId
  <2> QED BY <2>1, <2>3, <2>4 DEF IdsConserved
<1>3. CASE freeIds # <<>>
  <2>1. id = freeIds[Len(freeIds)] /\ size' = size
        /\ freeIds' = RemoveAt(freeIds, Len(freeIds))
    BY <1>3 DEF AddEvent, NextId
  <2>2. /\ id \in ToSet(freeIds)
        /\ freeIds' \in Seq(Ids) /\ IsInjective(freeIds')
        /\ ToSet(freeIds') = ToSet(freeIds) \ {id}
    BY <1>3, <2>1, PopInjective DEF IdsConserved
  <2>3. Known(id) /\ id # firing /\ due[id] = 0
    BY <1>1, <2>2 DEF IdsConserved, Ids, NoId
  <2> QED BY <2>1, <2>2, <2>3 DEF Known
<1> QED BY <1>2, <1>3

LEMMA AddKeepsIInv ==
    ASSUME IInv, NEW owner \in Owners, NEW periodic \in BOOLEAN, AddEvent(owner, periodic)
    PROVE  IInv'
<1> USE DEF IInv, TimeTypeOK
<1> DEFINE id == NextId
           new == [owner |-> owner, periodic |-> periodic, valid |-> TRUE, fired |-> FALSE]
<1>1. id \in Ids /\ new \in Event
  BY DEF AddEvent, Event
<1>2. /\ freeIds' \in Seq(Ids) /\ IsInjective(freeIds')
      /\ ToSet(freeIds') = ToSet(freeIds) \ {id}
      /\ id \notin ToSet(freeIds')
      /\ size' \in 0..MaxIds
      /\ \A i \in Ids : i < size' <=> i < size \/ i = id
      /\ due[id] = 0
      /\ id # firing
  BY NextIdIsNew
<1> HIDE DEF id, new
<1>3. /\ events' = [events EXCEPT ![id] = new]
      /\ due' = [due EXCEPT ![id] = @ + 1]
      /\ firing' = firing
      /\ new.valid = TRUE /\ new.fired = FALSE
  BY DEF AddEvent, id, new
<1>4. TimeTypeOK'
  BY <1>1, <1>2, <1>3
<1>5. IdsConserved'
  <2>1. \A i \in ToSet(freeIds') : i \in Ids
    BY <1>2 DEF ToSet
  <2>2. \A i \in ToSet(freeIds') : Known(i)'
    BY <1>2, <2>1 DEF IdsConserved, Known
  <2>3. firing' # NoId => Known(firing)' /\ firing' \notin ToSet(freeIds')
    BY <1>2, <1>3 DEF IdsConserved, Known
  <2>4. ASSUME NEW i \in Ids
        PROVE  due'[i] = IF Known(i)' /\ i # firing' /\ i \notin ToSet(freeIds')
                         THEN 1 ELSE 0
    <3>1. CASE i = id
      BY <1>1, <1>2, <1>3, <3>1 DEF Known
    <3>2. CASE i # id
      <4>1. due'[i] = due[i]
        BY <1>3, <3>2
      <4>2. Known(i)' <=> Known(i)
        BY <1>2, <3>2 DEF Known
      <4>3. i \in ToSet(freeIds') <=> i \in ToSet(freeIds)
        BY <1>2, <3>2
      <4> QED BY <1>3, <4>1, <4>2, <4>3 DEF IdsConserved
    <3> QED BY <3>1, <3>2
  <2> QED BY <1>2, <2>2, <2>3, <2>4 DEF IdsConserved
<1>6. OnlyValidEventsAreQueued' /\ OneShotFiresOnce'
  BY <1>1, <1>2, <1>3 DEF OnlyValidEventsAreQueued, OneShotFiresOnce
<1> QED BY <1>4, <1>5, <1>6

(* Giving an id back: the stack gets one more id that it did not hold.     *)
LEMMA PushInjective ==
    ASSUME NEW S, NEW s \in Seq(S), NEW e \in S, e \notin ToSet(s), IsInjective(s)
    PROVE  /\ Append(s, e) \in Seq(S)
           /\ IsInjective(Append(s, e))
           /\ ToSet(Append(s, e)) = ToSet(s) \cup {e}
BY AppendInjectiveElement

LEMMA RemoveKeepsIInv ==
    ASSUME IInv, NEW id \in Ids, RemoveEvent(id)
    PROVE  IInv'
<1> USE DEF IInv, TimeTypeOK
<1>1. /\ events' = [events EXCEPT ![id].valid = FALSE]
      /\ size' = size /\ firing' = firing /\ id < size
  BY DEF RemoveEvent
<1>2. /\ events' \in [Ids -> Event]
      /\ \A i \in Ids : /\ events'[i].valid = (IF i = id THEN FALSE ELSE events[i].valid)
                        /\ events'[i].fired = events[i].fired
                        /\ events'[i].periodic = events[i].periodic
  BY <1>1 DEF Event
<1>3. CASE due[id] > 0
  <2>1. due' = [due EXCEPT ![id] = @ - 1] /\ freeIds' = Append(freeIds, id)
    BY <1>3 DEF RemoveEvent
  <2>2. id # firing /\ id \notin ToSet(freeIds) /\ due[id] = 1
    BY <1>3 DEF IdsConserved
  <2>3. /\ freeIds' \in Seq(Ids) /\ IsInjective(freeIds')
        /\ ToSet(freeIds') = ToSet(freeIds) \cup {id}
    BY <2>1, <2>2, PushInjective DEF IdsConserved
  <2>4. TimeTypeOK'
    BY <1>1, <1>2, <2>1, <2>2, <2>3
  <2>5. IdsConserved'
    BY <1>1, <2>1, <2>2, <2>3 DEF IdsConserved, Known
  <2>6. due' \in [Ids -> Int] /\ \A i \in Ids : due'[i] = (IF i = id THEN 0 ELSE due[i])
    BY <2>1, <2>2
  <2>7. OnlyValidEventsAreQueued'
    <3> SUFFICES ASSUME NEW i \in Ids
                 PROVE  /\ due'[i] > 0 => events'[i].valid
                        /\ i \in ToSet(freeIds') => ~events'[i].valid
      BY DEF OnlyValidEventsAreQueued
    <3>1. CASE i = id
      <4>1. due'[i] = 0 /\ events'[i].valid = FALSE
        BY <1>2, <2>6, <3>1
      <4> QED BY <4>1
    <3>2. CASE i # id
      <4>1. due'[i] = due[i] /\ events'[i].valid = events[i].valid
        BY <1>2, <2>6, <3>2
      <4>2. i \in ToSet(freeIds') => i \in ToSet(freeIds)
        BY <2>3, <3>2
      <4> QED BY <4>1, <4>2 DEF OnlyValidEventsAreQueued
    <3> QED BY <3>1, <3>2
  <2>8. OneShotFiresOnce'
    BY <1>2, <2>6 DEF OneShotFiresOnce
  <2> QED BY <2>4, <2>5, <2>7, <2>8
<1>4. CASE ~(due[id] > 0)
  <2>1. due' = due /\ freeIds' = freeIds
    BY <1>4 DEF RemoveEvent
  <2>2. TimeTypeOK' /\ IdsConserved'
    BY <1>1, <1>2, <2>1 DEF IdsConserved, Known
  <2>3. OnlyValidEventsAreQueued' /\ OneShotFiresOnce'
    BY <1>2, <1>4, <2>1 DEF OnlyValidEventsAreQueued, OneShotFiresOnce
  <2> QED BY <2>2, <2>3
<1> QED BY <1>3, <1>4

LEMMA FireBeginKeepsIInv ==
    ASSUME IInv, NEW id \in Ids, FireBegin(id)
    PROVE  IInv'
<1> USE DEF IInv, TimeTypeOK
<1>1. /\ events' = [events EXCEPT ![id].fired = TRUE]
      /\ due' = [due EXCEPT ![id] = @ - 1]
      /\ firing = NoId /\ firing' = id
      /\ size' = size /\ freeIds' = freeIds
      /\ due[id] > 0
  BY DEF FireBegin
<1>2. /\ events' \in [Ids -> Event]
      /\ \A i \in Ids : /\ events'[i].valid = events[i].valid
                        /\ events'[i].fired = (IF i = id THEN TRUE ELSE events[i].fired)
                        /\ events'[i].periodic = events[i].periodic
  BY <1>1 DEF Event
<1>3. Known(id) /\ id \notin ToSet(freeIds) /\ due[id] = 1
  BY <1>1 DEF IdsConserved
<1>4. TimeTypeOK' /\ IdsConserved'
  BY <1>1, <1>2, <1>3 DEF IdsConserved, Known, Ids, NoId
<1>5. OnlyValidEventsAreQueued' /\ OneShotFiresOnce'
  BY <1>1, <1>2, <1>3 DEF OnlyValidEventsAreQueued, OneShotFiresOnce
<1> QED BY <1>4, <1>5

LEMMA FireEndKeepsIInv ==
    ASSUME IInv, FireEnd
    PROVE  IInv'
<1> USE DEF IInv, TimeTypeOK
<1>1. /\ firing # NoId /\ firing' = NoId /\ size' = size
      /\ firing \in Ids /\ Known(firing) /\ firing \notin ToSet(freeIds)
      /\ due[firing] = 0
  BY DEF FireEnd, IdsConserved, Ids, NoId
<1>2. CASE events[firing].valid /\ events[firing].periodic
  <2>1. /\ due' = [due EXCEPT ![firing] = @ + 1]
        /\ events' = events /\ freeIds' = freeIds
    BY <1>2 DEF FireEnd
  <2>2. TimeTypeOK' /\ IdsConserved'
    BY <1>1, <2>1 DEF IdsConserved, Known, NoId, Ids
  <2>3. OnlyValidEventsAreQueued' /\ OneShotFiresOnce'
    BY <1>1, <1>2, <2>1 DEF OnlyValidEventsAreQueued, OneShotFiresOnce
  <2> QED BY <2>2, <2>3
<1>3. CASE ~(events[firing].valid /\ events[firing].periodic)
  <2>1. /\ events' = [events EXCEPT ![firing].valid = FALSE]
        /\ freeIds' = Append(freeIds, firing)
        /\ due' = due
    BY <1>3 DEF FireEnd
  <2>2. /\ events' \in [Ids -> Event]
        /\ \A i \in Ids : /\ events'[i].valid = (IF i = firing THEN FALSE ELSE events[i].valid)
                          /\ events'[i].fired = events[i].fired
                          /\ events'[i].periodic = events[i].periodic
    BY <1>1, <2>1 DEF Event
  <2>3. /\ freeIds' \in Seq(Ids) /\ IsInjective(freeIds')
        /\ ToSet(freeIds') = ToSet(freeIds) \cup {firing}
    BY <1>1, <2>1, PushInjective DEF IdsConserved
  <2>4. TimeTypeOK' /\ IdsConserved'
    BY <1>1, <2>1, <2>2, <2>3 DEF IdsConserved, Known, NoId, Ids
  <2>5. OnlyValidEventsAreQueued' /\ OneShotFiresOnce'
    BY <1>1, <2>1, <2>2, <2>3 DEF OnlyValidEventsAreQueued, OneShotFiresOnce
  <2> QED BY <2>4, <2>5
<1> QED BY <1>2, <1>3

LEMMA TimeNextIInv == IInv /\ [TimeNext]_timeVars => IInv'
<1> SUFFICES ASSUME IInv, [TimeNext]_timeVars PROVE IInv'
  OBVIOUS
<1>1. CASE UNCHANGED timeVars
  BY <1>1 DEF timeVars, IInv, TimeTypeOK, IdsConserved, OnlyValidEventsAreQueued,
              OneShotFiresOnce, Known
<1> QED
  BY <1>1, AddKeepsIInv, RemoveKeepsIInv, FireBeginKeepsIInv, FireEndKeepsIInv DEF TimeNext

THEOREM TimeInvariance == TimeSpec => []IInv
BY TimeInitIInv, TimeNextIInv, PTL DEF TimeSpec

(* No id is lost, queued twice or free twice (add, remove, run).           *)
THEOREM NoIdIsLost == TimeSpec => []IdsConserved
BY TimeInvariance, PTL DEF IInv

(* A removed handler is not invoked (remove, run).                         *)
THEOREM QueuedEventsAreValid == TimeSpec => []OnlyValidEventsAreQueued
BY TimeInvariance, PTL DEF IInv

(* An event without a period is invoked once (run).                        *)
THEOREM OneShotEventsFireOnce == TimeSpec => []OneShotFiresOnce
BY TimeInvariance, PTL DEF IInv

-----------------------------------------------------------------------------
Steps == {"read", "remove", "clear", "add", "store"}

LEMMA StepsSeq == StopSteps \in Seq(Steps) /\ StartSteps \in Seq(Steps)
                  /\ StartSteps \o StartSteps \in Seq(Steps)
<1>1. StopSteps \in Seq(Steps) /\ <<"add", "store">> \in Seq(Steps)
  BY DEF StopSteps, Steps
<1> QED BY <1>1, ConcatProperties DEF StartSteps

LEMMA RestSeq ==
    ASSUME NEW S, NEW s \in Seq(S), NEW n \in Nat \ {0}
    PROVE  SubSeq(s, n, Len(s)) \in Seq(S)
OBVIOUS

(* What the two threads know of Timer is well formed.                      *)
MacInv ==
    /\ data \in [Owners -> Ids]
    /\ todo \in [Threads -> Seq(Steps)]
    /\ timer \in [Threads -> Owners]
    /\ local \in [Threads -> Ids]

LEMMA MacInitInv == MacInit => MacInv /\ TimeInit
<1>1. 0 \in Ids /\ Heartbeat \in Owners /\ <<>> \in Seq(Steps)
  BY CppTimeAssumption, MacTimerAssumption, EmptySeq DEF Ids
<1> QED BY <1>1, StepsSeq DEF MacInit, SetHeartrateCalls, MacInv, Null

(* One step of either thread: the types last, and the queue takes a step   *)
(* of CppTime or none.                                                     *)
LEMMA MacStep ==
    ASSUME MacInv, [MacNext]_allVars
    PROVE  MacInv' /\ [TimeNext]_timeVars
<1> USE DEF MacInv
<1>1. ASSUME NEW t \in Owners, MainStart(t) \/ MainStop(t)
      PROVE  MacInv' /\ UNCHANGED timeVars
  BY <1>1, StepsSeq DEF MainStart, MainStop, Call, Threads
<1>2. ASSUME NEW p \in Threads, Step(p) PROVE MacInv' /\ [TimeNext]_timeVars
  <2>1. ~Idle(p) => Tail(todo[p]) \in Seq(Steps)
    BY HeadTailProperties DEF Idle
  <2>2. CASE Read(p)
    <3>1. SubSeq(todo[p], Len(StopSteps) + 1, Len(todo[p])) \in Seq(Steps)
      BY RestSeq, StepsSeq, LenProperties
    <3> QED BY <2>1, <2>2, <3>1 DEF Read
  <2>3. CASE Remove_(p)
    <3>1. RemoveEvent(local[p]) /\ local[p] \in Ids
      BY <2>3 DEF Remove_
    <3> QED BY <2>1, <2>3, <3>1 DEF Remove_, DoNext, TimeNext
  <2>4. CASE Clear(p)
    <3>1. Null \in Ids
      BY CppTimeAssumption DEF Null, Ids
    <3> QED BY <2>1, <2>4, <3>1 DEF Clear, DoNext
  <2>5. CASE Add_(p)
    <3>1. PICK periodic \in OncePeriods : AddEvent(timer[p], periodic)
      BY <2>5 DEF Add_
    <3>2. periodic \in BOOLEAN /\ timer[p] \in Owners /\ NextId \in Ids
      BY <3>1, MacTimerAssumption DEF AddEvent
    <3>3. TimeNext
      BY <3>1, <3>2 DEF TimeNext
    <3> QED BY <2>1, <2>5, <3>2, <3>3 DEF Add_, DoNext
  <2>6. CASE Store(p)
    BY <2>1, <2>6 DEF Store, DoNext
  <2> QED BY <1>2, <2>2, <2>3, <2>4, <2>5, <2>6 DEF Step
<1>3. ASSUME NEW id \in Ids, Fire(id) PROVE MacInv' /\ TimeNext
  BY <1>3, StepsSeq, MacTimerAssumption DEF Fire, Call, macVars, Threads, TimeNext
<1>4. ASSUME Return PROVE MacInv' /\ TimeNext
  BY <1>4 DEF Return, macVars, TimeNext
<1>5. ASSUME UNCHANGED allVars PROVE MacInv' /\ UNCHANGED timeVars
  BY <1>5 DEF allVars, macVars, timeVars
<1> QED BY <1>1, <1>2, <1>3, <1>4, <1>5 DEF MacNext

(* Timer.start, Timer.stop and the callbacks use the queue as add, remove  *)
(* and run allow.                                                          *)
THEOREM MacTimerImplementsCppTime == MacSpec => TimeSpec
<1>1. MacSpec => []MacInv
  BY MacInitInv, MacStep, PTL DEF MacSpec
<1>2. MacSpec => [][TimeNext]_timeVars
  BY <1>1, MacStep, PTL DEF MacSpec
<1> QED BY MacInitInv, <1>2, PTL DEF MacSpec, TimeSpec

(* So the timers keep the queue's ids, whatever stale id they remove.      *)
THEOREM MacIdsConserved == MacSpec => []IdsConserved
BY MacTimerImplementsCppTime, NoIdIsLost, PTL

(* Types of the whole state (MacSystemInterface.cpp and cpptime.h).        *)
THEOREM MacTypeCorrect == MacSpec => []MacTypeOK
<1>1. MacSpec => []MacInv
  BY MacInitInv, MacStep, PTL DEF MacSpec
<1>2. IInv /\ MacInv => MacTypeOK
  BY DEF IInv, MacInv, MacTypeOK, Steps
<1> QED BY <1>1, <1>2, MacTimerImplementsCppTime, TimeInvariance, PTL


-----------------------------------------------------------------------------
(* What follows is about timers of which only the heartbeat is left to     *)
(* expire: the others are stopped before their time, as the time slice is. *)
OnlyHeartbeatExpires == Expiring = {Heartbeat}

At(s, step) == s # <<>> /\ Head(s) = step

Doing(p, step) == At(todo[p], step)

(* stop() and start() have their steps in this order.                      *)
Ordered(s) ==
    \A k \in DOMAIN s :
        /\ s[k] = "read" => k + 2 \in DOMAIN s /\ s[k + 1] = "remove" /\ s[k + 2] = "clear"
        /\ s[k] = "remove" => k + 1 \in DOMAIN s /\ s[k + 1] = "clear"
        /\ s[k] = "clear" /\ k + 1 \in DOMAIN s => s[k + 1] = "add"
        /\ s[k] = "add" => k + 1 \in DOMAIN s /\ s[k + 1] = "store"
        /\ s[k] = "store" /\ k + 1 \in DOMAIN s => s[k + 1] = "read"

(* The worker calls Timer only from the heartbeat's callback; the main     *)
(* thread does so for the heartbeat only before an event has expired.      *)
OneThreadForEachTimer ==
    /\ \A p \in Threads : Ordered(todo[p])
    /\ ~Idle("worker") => timer["worker"] = Heartbeat /\ firing # NoId
    /\ ~Idle("main") /\ timer["main"] = Heartbeat => firing = NoId

(* Once stop() has given the event back and until it clears the id, the id *)
(* may be another's.                                                       *)
Clearing(t) == \E p \in Threads : Doing(p, "clear") /\ timer[p] = t

(* At any other time the id that a Timer keeps is of an event of its own   *)
(* that is queued or, for the heartbeat, running.                          *)
KeptIds ==
    \A t \in Owners : data[t] # Null /\ ~Clearing(t) =>
        /\ events[data[t]].owner = t
        /\ \/ due[data[t]] > 0
           \/ /\ t = Heartbeat /\ firing = data[t]
              /\ Doing("worker", "read") \/ Doing("worker", "remove")

(* So is the id a thread has in hand.                                      *)
HeldIds ==
    \A p \in Threads :
        /\ Doing(p, "remove") => local[p] = data[timer[p]] /\ local[p] # Null
        /\ Doing(p, "store") /\ local[p] # Null =>
              events[local[p]].owner = timer[p] /\ due[local[p]] > 0

TimerInv == MacInv /\ IInv /\ OneThreadForEachTimer /\ KeptIds /\ HeldIds

(* The end of a sequence in order is in order.                             *)
LEMMA OrderedShift ==
    ASSUME NEW s \in Seq(Steps), Ordered(s), NEW n \in Nat, NEW r \in Seq(Steps),
           Len(s) = Len(r) + n, \A k \in 1..Len(r) : r[k] = s[k + n]
    PROVE  Ordered(r)
<1> USE LenProperties
<1> SUFFICES ASSUME NEW k \in DOMAIN r
             PROVE  /\ r[k] = "read" => k + 2 \in DOMAIN r /\ r[k + 1] = "remove" /\ r[k + 2] = "clear"
                    /\ r[k] = "remove" => k + 1 \in DOMAIN r /\ r[k + 1] = "clear"
                    /\ r[k] = "clear" /\ k + 1 \in DOMAIN r => r[k + 1] = "add"
                    /\ r[k] = "add" => k + 1 \in DOMAIN r /\ r[k + 1] = "store"
                    /\ r[k] = "store" /\ k + 1 \in DOMAIN r => r[k + 1] = "read"
  BY DEF Ordered
<1>1. /\ DOMAIN r = 1..Len(r) /\ DOMAIN s = 1..Len(s) /\ Len(r) \in Nat /\ Len(s) \in Nat
      /\ k \in Nat
  OBVIOUS
<1> DEFINE m == k + n
<1>2. m \in DOMAIN s /\ r[k] = s[m]
  BY <1>1
<1>3. /\ k + 1 \in DOMAIN r <=> m + 1 \in DOMAIN s
      /\ k + 2 \in DOMAIN r <=> m + 2 \in DOMAIN s
  <2>1. Len(s) = Len(r) + n /\ k > 0
    BY <1>1
  <2>2. k + 1 \in 1..Len(r) <=> m + 1 \in 1..Len(s)
    BY <1>1, <2>1
  <2>3. k + 2 \in 1..Len(r) <=> m + 2 \in 1..Len(s)
    BY <1>1, <2>1
  <2> QED BY <1>1, <2>2, <2>3
<1>4. k + 1 \in DOMAIN r => r[k + 1] = s[m + 1]
  <2>1. (k + 1) + n = m + 1
    BY <1>1
  <2> QED BY <1>1, <2>1
<1>5. k + 2 \in DOMAIN r => r[k + 2] = s[m + 2] /\ k + 1 \in DOMAIN r
  <2>1. (k + 2) + n = m + 2
    BY <1>1
  <2> QED BY <1>1, <2>1
<1> HIDE DEF m
<1>6. /\ s[m] = "read" => m + 2 \in DOMAIN s /\ s[m + 1] = "remove" /\ s[m + 2] = "clear"
      /\ s[m] = "remove" => m + 1 \in DOMAIN s /\ s[m + 1] = "clear"
      /\ s[m] = "clear" /\ m + 1 \in DOMAIN s => s[m + 1] = "add"
      /\ s[m] = "add" => m + 1 \in DOMAIN s /\ s[m + 1] = "store"
      /\ s[m] = "store" /\ m + 1 \in DOMAIN s => s[m + 1] = "read"
  BY <1>2 DEF Ordered
<1> QED BY <1>2, <1>3, <1>4, <1>5, <1>6

LEMMA OrderedSteps ==
    ASSUME NEW s \in Seq(Steps), Ordered(s), s # <<>>
    PROVE  /\ Ordered(Tail(s))
           /\ Head(s) = "read" => At(Tail(s), "remove")
           /\ Head(s) = "remove" => At(Tail(s), "clear")
           /\ Head(s) = "clear" /\ Tail(s) # <<>> => At(Tail(s), "add")
           /\ Head(s) = "add" => At(Tail(s), "store")
           /\ Head(s) = "store" /\ Tail(s) # <<>> => At(Tail(s), "read")
<1>1. /\ Len(s) \in Nat /\ Len(s) > 0 /\ DOMAIN s = 1..Len(s) /\ Head(s) = s[1]
      /\ Tail(s) \in Seq(Steps) /\ Len(Tail(s)) = Len(s) - 1
      /\ \A k \in 1..Len(Tail(s)) : Tail(s)[k] = s[k + 1]
  BY HeadTailProperties, LenProperties, EmptySeq
<1> DEFINE r == Tail(s)
<1> HIDE DEF r
<1>2. /\ DOMAIN r = 1..(Len(s) - 1) /\ r \in Seq(Steps)
      /\ \A k \in DOMAIN r : r[k] = s[k + 1]
      /\ r # <<>> => Head(r) = r[1] /\ 1 \in DOMAIN r
      /\ 1 \in DOMAIN r => r # <<>>
  BY <1>1, LenProperties, EmptySeq, HeadTailProperties DEF r
<1>3. Ordered(r)
  <2>1. Len(s) = Len(r) + 1
    BY <1>1 DEF r
  <2>2. \A k \in 1..Len(r) : r[k] = s[k + 1]
    BY <1>1 DEF r
  <2> QED BY <1>2, <2>1, <2>2, OrderedShift
<1>4. /\ 1 \in DOMAIN s /\ 1 + 1 = 2 /\ 1 + 2 = 3
      /\ 2 \in DOMAIN s \/ 3 \in DOMAIN s => 1 \in DOMAIN r
      /\ 1 \in DOMAIN r => 2 \in DOMAIN s /\ r[1] = s[2]
  BY <1>1, <1>2
<1>5. /\ s[1] = "read" => 1 \in DOMAIN r /\ r[1] = "remove"
      /\ s[1] = "remove" => 1 \in DOMAIN r /\ r[1] = "clear"
      /\ s[1] = "clear" /\ 1 \in DOMAIN r => r[1] = "add"
      /\ s[1] = "add" => 1 \in DOMAIN r /\ r[1] = "store"
      /\ s[1] = "store" /\ 1 \in DOMAIN r => r[1] = "read"
  BY <1>4 DEF Ordered
<1> QED BY <1>1, <1>2, <1>3, <1>5 DEF At, r

(* What is left once stop() has found no id.                               *)
LEMMA OrderedRest ==
    ASSUME NEW s \in Seq(Steps), Ordered(s), At(s, "read")
    PROVE  LET r == SubSeq(s, Len(StopSteps) + 1, Len(s))
           IN  Ordered(r) /\ (r # <<>> => At(r, "add"))
<1>1. Len(StopSteps) = 3
  BY DEF StopSteps
<1> DEFINE r == SubSeq(s, 4, Len(s))
<1>2. /\ Len(s) \in Nat /\ Len(s) >= 3 /\ DOMAIN s = 1..Len(s) /\ s[3] = "clear"
  <2>1. /\ Len(s) \in Nat /\ DOMAIN s = 1..Len(s) /\ 1 \in DOMAIN s /\ s[1] = "read"
        /\ 1 + 2 = 3
    BY HeadTailProperties, LenProperties, EmptySeq DEF At
  <2>2. 3 \in DOMAIN s /\ s[3] = "clear"
    BY <2>1 DEF Ordered
  <2> QED BY <2>1, <2>2
<1>3. /\ r \in Seq(Steps) /\ DOMAIN r = 1..(Len(s) - 3) /\ Len(s) = Len(r) + 3
      /\ \A k \in DOMAIN r : r[k] = s[k + 3]
  BY <1>2
<1> HIDE DEF r
<1>4. r # <<>> => Head(r) = r[1] /\ 1 \in DOMAIN r
  BY <1>3, LenProperties, EmptySeq, HeadTailProperties
<1>5. Ordered(r)
  <2>1. \A k \in 1..Len(r) : r[k] = s[k + 3]
    BY <1>3, LenProperties
  <2> QED BY <1>2, <1>3, <2>1, OrderedShift
<1>6. r # <<>> => r[1] = "add"
  <2> SUFFICES ASSUME r # <<>> PROVE r[1] = "add"
    OBVIOUS
  <2>1. 3 \in DOMAIN s /\ 3 + 1 = 4 /\ 4 \in DOMAIN s /\ r[1] = s[4]
    BY <1>2, <1>3, <1>4
  <2> QED BY <1>2, <2>1 DEF Ordered
<1> QED BY <1>1, <1>4, <1>5, <1>6 DEF At, r

LEMMA OrderedCalls ==
    /\ Ordered(StopSteps) /\ At(StopSteps, "read")
    /\ Ordered(StartSteps) /\ At(StartSteps, "read")
    /\ Ordered(StartSteps \o StartSteps) /\ At(StartSteps \o StartSteps, "read")
<1>1. StopSteps = <<"read", "remove", "clear">>
  BY DEF StopSteps
<1>2. Ordered(StopSteps) /\ At(StopSteps, "read")
  BY <1>1 DEF Ordered, At
<1> DEFINE s == StartSteps
           r == s \o s
<1>3. /\ s \in Seq(Steps) /\ Len(s) = 5
      /\ s[1] = "read" /\ s[2] = "remove" /\ s[3] = "clear" /\ s[4] = "add" /\ s[5] = "store"
  BY <1>1, StepsSeq DEF StartSteps
<1> HIDE DEF s
<1>4. /\ r \in Seq(Steps) /\ Len(r) = 10
      /\ \A k \in 1..5 : r[k] = s[k] /\ r[k + 5] = s[k]
  <2>1. /\ r \in Seq(Steps) /\ Len(r) = Len(s) + Len(s)
        /\ \A k \in 1..(Len(s) + Len(s)) : r[k] = IF k <= Len(s) THEN s[k] ELSE s[k - Len(s)]
    BY <1>3, ConcatProperties
  <2> HIDE DEF r
  <2>2. Len(r) = 10 /\ \A k \in 1..10 : r[k] = IF k <= 5 THEN s[k] ELSE s[k - 5]
    BY <1>3, <2>1
  <2>3. \A k \in 1..5 : r[k] = s[k] /\ r[k + 5] = s[(k + 5) - 5] /\ (k + 5) - 5 = k
    BY <2>2
  <2> QED BY <2>1, <2>2, <2>3
<1>5. /\ r[1] = "read" /\ r[2] = "remove" /\ r[3] = "clear" /\ r[4] = "add" /\ r[5] = "store"
      /\ r[6] = "read" /\ r[7] = "remove" /\ r[8] = "clear" /\ r[9] = "add" /\ r[10] = "store"
  BY <1>3, <1>4
<1> HIDE DEF r
<1>6. Ordered(s) /\ At(s, "read")
  <2>1. DOMAIN s = 1..5 /\ s # <<>>
    <3>1. DOMAIN s = 1..5
      BY <1>3, LenProperties
    <3>2. s # <<>>
      BY <1>3
    <3> QED BY <3>1, <3>2
  <2>2. Head(s) = s[1]
    BY <1>3, <2>1, HeadTailProperties
  <2> QED BY <1>3, <2>1, <2>2 DEF Ordered, At
<1>7. Ordered(r) /\ At(r, "read")
  <2>1. DOMAIN r = 1..10 /\ r # <<>>
    <3>1. DOMAIN r = 1..10
      BY <1>4, LenProperties
    <3>2. r # <<>>
      BY <1>4
    <3> QED BY <3>1, <3>2
  <2>2. Head(r) = r[1]
    BY <1>4, <2>1, HeadTailProperties
  <2> QED BY <1>5, <2>1, <2>2 DEF Ordered, At
<1> QED BY <1>2, <1>6, <1>7 DEF r, s


LEMMA TimerInit == ASSUME MacInit PROVE TimerInv
<1>1. MacInv /\ IInv
  BY MacInitInv, TimeInitIInv
<1>2. /\ todo["main"] = StartSteps \/ todo["main"] = StartSteps \o StartSteps
      /\ todo["worker"] = <<>> /\ firing = NoId
      /\ \A t \in Owners : data[t] = Null
  BY DEF MacInit, SetHeartrateCalls, Threads, TimeInit
<1>3. /\ \A p \in Threads : Ordered(todo[p])
      /\ \A p \in Threads : ~Idle(p) => At(todo[p], "read")
  <2>1. Ordered(<<>>)
    BY DEF Ordered
  <2> QED BY <1>2, <2>1, OrderedCalls DEF Threads, Idle
<1>4. OneThreadForEachTimer
  BY <1>2, <1>3 DEF OneThreadForEachTimer, Idle
<1>5. KeptIds
  BY <1>2 DEF KeptIds
<1>6. HeldIds
  BY <1>3 DEF HeldIds, Doing, At, Idle
<1> QED BY <1>1, <1>4, <1>5, <1>6 DEF TimerInv

(* The two threads are never in a call of the same Timer.                  *)
LEMMA OwnTimers ==
    ASSUME OneThreadForEachTimer, NEW p \in Threads, NEW q \in Threads, p # q, ~Idle(p), ~Idle(q)
    PROVE  timer[p] # timer[q]
BY DEF OneThreadForEachTimer, Threads

(* What any step of a call does to the calls.                              *)
LEMMA StepMoves ==
    ASSUME TimerInv, NEW p \in Threads, Step(p)
    PROVE  /\ timer' = timer /\ firing' = firing
           /\ \A q \in Threads : q # p => todo'[q] = todo[q] /\ local'[q] = local[q]
           /\ OneThreadForEachTimer'
<1> USE DEF MacInv, TimerInv
<1>1. timer' = timer /\ firing' = firing
  <2>1. CASE Read(p) \/ Clear(p) \/ Store(p)
    BY <2>1 DEF Read, Clear, Store, DoNext, timeVars
  <2>2. CASE Remove_(p)
    BY <2>2 DEF Remove_, DoNext, RemoveEvent
  <2>3. CASE Add_(p)
    BY <2>3 DEF Add_, DoNext, AddEvent
  <2> QED BY <2>1, <2>2, <2>3 DEF Step
<1>2. ~Idle(p)
  BY DEF Step, Read, Remove_, Clear, Add_, Store, DoNext
<1>3. PICK rest : todo' = [todo EXCEPT ![p] = rest] /\ Ordered(rest)
  <2>1. Ordered(todo[p]) /\ todo[p] \in Seq(Steps) /\ todo[p] # <<>>
    BY <1>2 DEF OneThreadForEachTimer, Idle
  <2>2. Ordered(Tail(todo[p]))
    BY <2>1, OrderedSteps
  <2>3. Head(todo[p]) = "read" => Ordered(SubSeq(todo[p], Len(StopSteps) + 1, Len(todo[p])))
    BY <2>1, OrderedRest DEF At
  <2>4. CASE Read(p)
    BY <2>2, <2>3, <2>4 DEF Read
  <2>5. CASE Remove_(p) \/ Clear(p) \/ Add_(p) \/ Store(p)
    BY <2>2, <2>5 DEF Remove_, Clear, Add_, Store, DoNext
  <2> QED BY <2>4, <2>5 DEF Step
<1>4. \A q \in Threads : q # p => todo'[q] = todo[q] /\ local'[q] = local[q]
  <2>1. local' = local \/ \E id : local' = [local EXCEPT ![p] = id]
    BY DEF Step, Read, Remove_, Clear, Add_, Store
  <2> QED BY <1>3, <2>1
<1>5. \A q \in Threads : Ordered(todo'[q])
  BY <1>3 DEF OneThreadForEachTimer
<1>6. \A q \in Threads : todo'[q] # <<>> => ~Idle(q)
  BY <1>2, <1>4 DEF Idle
<1>7. OneThreadForEachTimer'
  BY <1>1, <1>5, <1>6 DEF OneThreadForEachTimer, Idle, Threads
<1> QED BY <1>1, <1>4, <1>7

(* stop() reads the id, and skips the rest if there is none.               *)
LEMMA ReadKeepsIds ==
    ASSUME TimerInv, NEW p \in Threads, Read(p)
    PROVE  KeptIds' /\ HeldIds'
<1> USE DEF MacInv, TimerInv
<1>1. /\ timer' = timer /\ firing' = firing
      /\ \A q \in Threads : q # p => todo'[q] = todo[q] /\ local'[q] = local[q]
      /\ OneThreadForEachTimer'
  BY StepMoves DEF Step
<1>2. /\ data' = data /\ events' = events /\ due' = due
      /\ todo[p] # <<>> /\ At(todo[p], "read") /\ timer[p] \in Owners
  BY DEF Read, Idle, timeVars, At
<1>3. todo[p] \in Seq(Steps) /\ Ordered(todo[p])
  BY DEF OneThreadForEachTimer
<1>4. CASE data[timer[p]] = Null
  <2>1. /\ local' = local
        /\ todo'[p] # <<>> => At(todo'[p], "add")
    BY <1>2, <1>3, <1>4, OrderedRest DEF Read
  <2>2. HeldIds'
    BY <1>1, <1>2, <2>1 DEF HeldIds, Doing, At
  <2>3. KeptIds'
    <3> SUFFICES ASSUME NEW t \in Owners, data[t] # Null, ~Clearing(t)'
                 PROVE  /\ events[data[t]].owner = t
                        /\ \/ due[data[t]] > 0
                           \/ /\ t = Heartbeat /\ firing = data[t]
                              /\ At(todo'["worker"], "read") \/ At(todo'["worker"], "remove")
      BY <1>1, <1>2 DEF KeptIds, Doing
    <3>1. ~Clearing(t)
      BY <1>1, <1>2 DEF Clearing, Doing, At
    <3>2. CASE due[data[t]] > 0
      BY <3>1, <3>2 DEF KeptIds
    <3>3. CASE ~(due[data[t]] > 0)
      <4>1. /\ t = Heartbeat /\ firing = data[t] /\ events[data[t]].owner = t
            /\ At(todo["worker"], "read") \/ At(todo["worker"], "remove")
        BY <3>1, <3>3 DEF KeptIds, Doing
      <4>2. timer["worker"] = Heartbeat
        BY <4>1 DEF OneThreadForEachTimer, Idle, At
      <4>3. p # "worker"
        BY <1>4, <4>1, <4>2
      <4> QED BY <1>1, <4>1, <4>3 DEF Threads
    <3> QED BY <3>2, <3>3
  <2> QED BY <2>2, <2>3
<1>5. CASE data[timer[p]] # Null
  <2>1. local'[p] = data[timer[p]] /\ At(todo'[p], "remove")
    BY <1>2, <1>3, <1>5, OrderedSteps DEF Read, At
  <2>2. HeldIds'
    BY <1>1, <1>2, <1>5, <2>1 DEF HeldIds, Doing, At
  <2>3. KeptIds'
    <3> SUFFICES ASSUME NEW t \in Owners, data[t] # Null, ~Clearing(t)'
                 PROVE  /\ events[data[t]].owner = t
                        /\ \/ due[data[t]] > 0
                           \/ /\ t = Heartbeat /\ firing = data[t]
                              /\ At(todo'["worker"], "read") \/ At(todo'["worker"], "remove")
      BY <1>1, <1>2 DEF KeptIds, Doing
    <3>1. ~Clearing(t)
      BY <1>1, <1>2 DEF Clearing, Doing, At
    <3>2. CASE p = "worker"
      BY <2>1, <3>1, <3>2 DEF KeptIds
    <3>3. CASE p # "worker"
      <4>1. todo'["worker"] = todo["worker"]
        BY <1>1, <3>3 DEF Threads
      <4> QED BY <3>1, <4>1 DEF KeptIds, Doing
    <3> QED BY <3>2, <3>3
  <2> QED BY <2>2, <2>3
<1> QED BY <1>4, <1>5


(* stop() gives its own timer's event back, or nobody's.                   *)
LEMMA RemoveKeepsIds ==
    ASSUME TimerInv, NEW p \in Threads, Remove_(p)
    PROVE  /\ KeptIds' /\ HeldIds'
           /\ due[local[p]] > 0 => events[local[p]].owner = timer[p]
           /\ \A id \in Ids : id # local[p] => due'[id] = due[id]
<1> USE DEF MacInv, TimerInv
<1>1. /\ timer' = timer /\ firing' = firing
      /\ \A q \in Threads : q # p => todo'[q] = todo[q] /\ local'[q] = local[q]
  BY StepMoves DEF Step
<1>2. /\ data' = data /\ RemoveEvent(local[p]) /\ local[p] \in Ids /\ timer[p] \in Owners
      /\ todo[p] # <<>> /\ At(todo[p], "remove") /\ At(todo'[p], "clear")
  <2>1. todo[p] # <<>> /\ Head(todo[p]) = "remove" /\ todo'[p] = Tail(todo[p])
    BY DEF Remove_, DoNext, Idle
  <2> QED BY <2>1, OrderedSteps DEF Remove_, At, OneThreadForEachTimer
<1>3. /\ \A id \in Ids : events'[id].owner = events[id].owner
      /\ \A id \in Ids : id # local[p] => due'[id] = due[id]
      /\ events \in [Ids -> Event] /\ due \in [Ids -> Nat]
  BY <1>2 DEF RemoveEvent, IInv, TimeTypeOK, Event
<1>4. local[p] = data[timer[p]] /\ local[p] # Null
  BY <1>2 DEF HeldIds, Doing
<1>5. \A q \in Threads : q # p /\ todo[q] # <<>> => timer[q] # timer[p]
  BY <1>2, OwnTimers DEF Idle
<1>6. ~Clearing(timer[p])
  BY <1>2, <1>5 DEF Clearing, Doing, At
<1>7. events[local[p]].owner = timer[p]
  BY <1>2, <1>4, <1>6 DEF KeptIds
<1>8. KeptIds'
  <2> SUFFICES ASSUME NEW t \in Owners, data[t] # Null, ~Clearing(t)'
               PROVE  /\ events'[data[t]].owner = t
                      /\ \/ due'[data[t]] > 0
                         \/ /\ t = Heartbeat /\ firing = data[t]
                            /\ At(todo'["worker"], "read") \/ At(todo'["worker"], "remove")
    BY <1>1, <1>2 DEF KeptIds, Doing
  <2>1. t # timer[p]
    BY <1>1, <1>2 DEF Clearing, Doing
  <2>2. ~Clearing(t)
    BY <1>1, <1>2 DEF Clearing, Doing, At
  <2>3. data[t] \in Ids /\ events[data[t]].owner = t
    BY <2>2 DEF KeptIds
  <2>4. data[t] # local[p]
    BY <1>7, <2>1, <2>3
  <2>5. events'[data[t]].owner = t /\ due'[data[t]] = due[data[t]]
    BY <1>3, <2>3, <2>4
  <2>6. CASE due[data[t]] > 0
    BY <2>5, <2>6
  <2>7. CASE ~(due[data[t]] > 0)
    <3>1. /\ t = Heartbeat /\ firing = data[t]
          /\ At(todo["worker"], "read") \/ At(todo["worker"], "remove")
      BY <2>2, <2>7 DEF KeptIds, Doing
    <3>2. p # "worker"
      BY <2>1, <3>1 DEF OneThreadForEachTimer, Idle, At
    <3> QED BY <1>1, <2>5, <3>1, <3>2 DEF Threads
  <2> QED BY <2>6, <2>7
<1>9. HeldIds'
  <2>1. \A q \in Threads : q # p /\ At(todo'[q], "store") /\ local[q] # Null =>
            /\ events'[local[q]].owner = timer[q] /\ due'[local[q]] > 0
    <3> SUFFICES ASSUME NEW q \in Threads, q # p, At(todo[q], "store"), local[q] # Null
                 PROVE  events'[local[q]].owner = timer[q] /\ due'[local[q]] > 0
      BY <1>1
    <3>1. local[q] \in Ids /\ events[local[q]].owner = timer[q] /\ due[local[q]] > 0
      BY DEF HeldIds, Doing
    <3>2. local[q] # local[p]
      BY <1>5, <1>7, <3>1 DEF At
    <3> QED BY <1>3, <3>1, <3>2
  <2> QED BY <1>1, <1>2, <2>1 DEF HeldIds, Doing, At
<1> QED BY <1>3, <1>7, <1>8, <1>9

LEMMA ClearKeepsIds ==
    ASSUME TimerInv, NEW p \in Threads, Clear(p)
    PROVE  KeptIds' /\ HeldIds'
<1> USE DEF MacInv, TimerInv
<1>1. /\ timer' = timer /\ firing' = firing
      /\ \A q \in Threads : q # p => todo'[q] = todo[q] /\ local'[q] = local[q]
  BY StepMoves DEF Step
<1>2. /\ data' = [data EXCEPT ![timer[p]] = Null] /\ local' = local
      /\ events' = events /\ due' = due /\ timer[p] \in Owners
      /\ At(todo[p], "clear")
      /\ todo'[p] # <<>> => At(todo'[p], "add")
  <2>1. todo[p] # <<>> /\ Head(todo[p]) = "clear" /\ todo'[p] = Tail(todo[p])
    BY DEF Clear, DoNext, Idle
  <2> QED BY <2>1, OrderedSteps DEF Clear, At, OneThreadForEachTimer, timeVars
<1>3. \A q \in Threads : q # p /\ todo[q] # <<>> => timer[q] # timer[p]
  BY <1>2, OwnTimers DEF Idle, At
<1>4. KeptIds'
  <2> SUFFICES ASSUME NEW t \in Owners, data'[t] # Null, ~Clearing(t)'
               PROVE  /\ events[data'[t]].owner = t
                      /\ \/ due[data'[t]] > 0
                         \/ /\ t = Heartbeat /\ firing = data'[t]
                            /\ At(todo'["worker"], "read") \/ At(todo'["worker"], "remove")
    BY <1>1, <1>2 DEF KeptIds, Doing
  <2>1. t # timer[p] /\ data'[t] = data[t]
    BY <1>2
  <2>2. ~Clearing(t)
    BY <1>1, <2>1 DEF Clearing, Doing, At
  <2>3. At(todo["worker"], "read") \/ At(todo["worker"], "remove") => p # "worker"
    BY <1>2 DEF At
  <2> QED BY <1>1, <2>1, <2>2, <2>3 DEF KeptIds, Doing, Threads
<1>5. HeldIds'
  <2>1. \A q \in Threads : q # p /\ todo[q] # <<>> => data'[timer[q]] = data[timer[q]]
    BY <1>2, <1>3
  <2> QED BY <1>1, <1>2, <2>1 DEF HeldIds, Doing, At
<1> QED BY <1>4, <1>5

(* add() hands out an id that no Timer keeps and no thread has in hand.    *)
LEMMA AddKeepsIds ==
    ASSUME TimerInv, NEW p \in Threads, Add_(p)
    PROVE  KeptIds' /\ HeldIds' /\ \A id \in Ids : due[id] > 0 => due'[id] > 0
<1> USE DEF MacInv, TimerInv
<1>1. /\ timer' = timer /\ firing' = firing
      /\ \A q \in Threads : q # p => todo'[q] = todo[q] /\ local'[q] = local[q]
  BY StepMoves DEF Step
<1>2. PICK periodic \in BOOLEAN : AddEvent(timer[p], periodic)
  BY MacTimerAssumption DEF Add_
<1>3. /\ data' = data /\ local'[p] = NextId /\ timer[p] \in Owners
      /\ At(todo[p], "add") /\ At(todo'[p], "store")
  <2>1. todo[p] # <<>> /\ Head(todo[p]) = "add" /\ todo'[p] = Tail(todo[p])
    BY DEF Add_, DoNext, Idle
  <2> QED BY <2>1, OrderedSteps DEF Add_, At, OneThreadForEachTimer
<1>4. NextId \in Ids /\ due[NextId] = 0 /\ NextId # firing
  BY <1>2, <1>3, NextIdIsNew DEF AddEvent
<1>5. PICK new \in Ids : new = NextId
  BY <1>4
<1>6. /\ events'[new].owner = timer[p] /\ due'[new] = 1
      /\ \A id \in Ids : id # new => events'[id] = events[id] /\ due'[id] = due[id]
  BY <1>2, <1>4, <1>5 DEF AddEvent, IInv, TimeTypeOK
<1>7. KeptIds'
  <2> SUFFICES ASSUME NEW t \in Owners, data[t] # Null, ~Clearing(t)'
               PROVE  /\ events'[data[t]].owner = t
                      /\ \/ due'[data[t]] > 0
                         \/ /\ t = Heartbeat /\ firing = data[t]
                            /\ At(todo'["worker"], "read") \/ At(todo'["worker"], "remove")
    BY <1>1, <1>3 DEF KeptIds, Doing
  <2>1. ~Clearing(t)
    BY <1>1, <1>3 DEF Clearing, Doing, At
  <2>2. data[t] \in Ids /\ data[t] # new
    BY <1>4, <1>5, <2>1 DEF KeptIds
  <2>3. events'[data[t]] = events[data[t]] /\ due'[data[t]] = due[data[t]]
    BY <1>6, <2>2
  <2>4. At(todo["worker"], "read") \/ At(todo["worker"], "remove") => p # "worker"
    BY <1>3 DEF At
  <2> QED BY <1>1, <2>1, <2>3, <2>4 DEF KeptIds, Doing, Threads
<1>8. HeldIds'
  <2> SUFFICES ASSUME NEW q \in Threads
               PROVE  /\ At(todo'[q], "remove") => local'[q] = data[timer[q]] /\ local'[q] # Null
                      /\ At(todo'[q], "store") /\ local'[q] # Null =>
                            events'[local'[q]].owner = timer[q] /\ due'[local'[q]] > 0
    BY <1>1, <1>3 DEF HeldIds, Doing
  <2>1. CASE q = p
    BY <1>3, <1>5, <1>6, <2>1 DEF At
  <2>2. CASE q # p
    <3>1. local[q] \in Ids /\ todo'[q] = todo[q] /\ local'[q] = local[q]
      BY <1>1, <2>2
    <3>2. At(todo[q], "store") /\ local[q] # Null => local[q] # new
      BY <1>4, <1>5 DEF HeldIds, Doing
    <3> QED BY <1>6, <3>1, <3>2 DEF HeldIds, Doing
  <2> QED BY <2>1, <2>2
<1>9. \A id \in Ids : due[id] > 0 => due'[id] > 0
  BY <1>4, <1>5, <1>6
<1> QED BY <1>7, <1>8, <1>9

LEMMA StoreKeepsIds ==
    ASSUME TimerInv, NEW p \in Threads, Store(p)
    PROVE  KeptIds' /\ HeldIds'
<1> USE DEF MacInv, TimerInv
<1>1. /\ timer' = timer /\ firing' = firing
      /\ \A q \in Threads : q # p => todo'[q] = todo[q] /\ local'[q] = local[q]
  BY StepMoves DEF Step
<1>2. /\ data' = [data EXCEPT ![timer[p]] = local[p]] /\ local' = local
      /\ events' = events /\ due' = due /\ timer[p] \in Owners
      /\ At(todo[p], "store")
      /\ todo'[p] # <<>> => At(todo'[p], "read")
  <2>1. todo[p] # <<>> /\ Head(todo[p]) = "store" /\ todo'[p] = Tail(todo[p])
    BY DEF Store, DoNext, Idle
  <2> QED BY <2>1, OrderedSteps DEF Store, At, OneThreadForEachTimer, timeVars
<1>3. \A q \in Threads : q # p /\ todo[q] # <<>> => timer[q] # timer[p]
  BY <1>2, OwnTimers DEF Idle, At
<1>4. KeptIds'
  <2> SUFFICES ASSUME NEW t \in Owners, data'[t] # Null, ~Clearing(t)'
               PROVE  /\ events[data'[t]].owner = t
                      /\ \/ due[data'[t]] > 0
                         \/ /\ t = Heartbeat /\ firing = data'[t]
                            /\ At(todo'["worker"], "read") \/ At(todo'["worker"], "remove")
    BY <1>1, <1>2 DEF KeptIds, Doing
  <2>1. CASE t = timer[p]
    BY <1>2, <2>1 DEF HeldIds, Doing
  <2>2. CASE t # timer[p]
    <3>1. data'[t] = data[t]
      BY <1>2, <2>2
    <3>2. ~Clearing(t)
      BY <1>1, <2>2 DEF Clearing, Doing, At
    <3>3. At(todo["worker"], "read") \/ At(todo["worker"], "remove") => p # "worker"
      BY <1>2 DEF At
    <3> QED BY <1>1, <3>1, <3>2, <3>3 DEF KeptIds, Doing, Threads
  <2> QED BY <2>1, <2>2
<1>5. HeldIds'
  <2>1. \A q \in Threads : q # p /\ todo[q] # <<>> => data'[timer[q]] = data[timer[q]]
    BY <1>2, <1>3
  <2> QED BY <1>1, <1>2, <2>1 DEF HeldIds, Doing, At
<1> QED BY <1>4, <1>5


(* The main thread calls a timer other than the heartbeat.                 *)
LEMMA CallKeepsIds ==
    ASSUME TimerInv, NEW t \in Owners, MainStart(t) \/ MainStop(t)
    PROVE  OneThreadForEachTimer' /\ KeptIds' /\ HeldIds' /\ due' = due
<1> USE DEF MacInv, TimerInv
<1>1. PICK steps \in {StartSteps, StopSteps} : Call("main", t, steps)
  BY DEF MainStart, MainStop
<1>2. t # Heartbeat /\ todo["main"] = <<>> /\ UNCHANGED timeVars
  BY DEF MainStart, MainStop, Idle
<1>3. Ordered(steps) /\ At(steps, "read")
  BY OrderedCalls
<1>4. /\ todo'["main"] = steps /\ todo'["worker"] = todo["worker"]
      /\ timer'["main"] = t /\ timer'["worker"] = timer["worker"]
      /\ data' = data /\ local' = local
      /\ events' = events /\ due' = due /\ firing' = firing
  BY <1>1, <1>2 DEF Call, Threads, timeVars
<1>5. OneThreadForEachTimer'
  BY <1>2, <1>3, <1>4 DEF OneThreadForEachTimer, Threads, Idle
<1>6. \A u \in Owners : Clearing(u)' <=> Clearing(u)
  BY <1>2, <1>3, <1>4 DEF Clearing, Doing, At, Threads
<1>7. KeptIds'
  <2>1. \A step : Doing("worker", step)' <=> Doing("worker", step)
    BY <1>4 DEF Doing, At
  <2> QED BY <1>4, <1>6, <2>1 DEF KeptIds
<1>8. HeldIds'
  BY <1>2, <1>3, <1>4 DEF HeldIds, Doing, At, Threads
<1> QED BY <1>4, <1>5, <1>7, <1>8

(* An event expires: nobody's, or the heartbeat's, whose callback then     *)
(* starts the timer again.                                                 *)
LEMMA FireKeepsIds ==
    ASSUME TimerInv, OnlyHeartbeatExpires, NEW id \in Ids, Fire(id)
    PROVE  /\ OneThreadForEachTimer' /\ KeptIds' /\ HeldIds'
           /\ firing' = id
           /\ \A i \in Ids : i # id => due'[i] = due[i]
<1> USE DEF MacInv, TimerInv
<1>1. /\ firing = NoId /\ firing' = id /\ due[id] > 0
      /\ ~Idle("main") => timer["main"] # Heartbeat
      /\ events[id].owner = Heartbeat \/ id = Null
  BY DEF Fire, FireBegin, OnlyHeartbeatExpires
<1>2. /\ \A i \in Ids : events'[i].owner = events[i].owner
      /\ \A i \in Ids : i # id => due'[i] = due[i]
  BY DEF Fire, FireBegin, IInv, TimeTypeOK, Event
<1>3. todo["worker"] = <<>>
  BY <1>1 DEF OneThreadForEachTimer, Idle
<1>4. /\ data' = data /\ local' = local
      /\ todo'["main"] = todo["main"] /\ timer'["main"] = timer["main"]
  BY DEF Fire, Call, macVars, Threads
<1>5. \/ /\ events[id].owner = Heartbeat
         /\ At(todo'["worker"], "read") /\ Ordered(todo'["worker"])
         /\ timer'["worker"] = Heartbeat
      \/ /\ events[id].owner # Heartbeat
         /\ todo'["worker"] = <<>>
  BY <1>3, OrderedCalls DEF Fire, Call, macVars, Threads
<1>6. id # NoId
  BY DEF Ids, NoId
<1>7. OneThreadForEachTimer'
  <2>1. Ordered(todo'["worker"])
    BY <1>3, <1>5 DEF OneThreadForEachTimer, Threads
  <2> QED BY <1>1, <1>4, <1>5, <1>6, <2>1 DEF OneThreadForEachTimer, Threads, Idle
<1>8. KeptIds'
  <2> SUFFICES ASSUME NEW t \in Owners, data[t] # Null, ~Clearing(t)'
               PROVE  /\ events'[data[t]].owner = t
                      /\ \/ due'[data[t]] > 0
                         \/ /\ t = Heartbeat /\ id = data[t]
                            /\ At(todo'["worker"], "read") \/ At(todo'["worker"], "remove")
    BY <1>1, <1>4 DEF KeptIds, Doing
  <2>1. ~Clearing(t)
    BY <1>3, <1>4 DEF Clearing, Doing, At, Threads
  <2>2. data[t] \in Ids /\ events[data[t]].owner = t /\ due[data[t]] > 0
    BY <1>3, <2>1 DEF KeptIds, Doing, At
  <2>3. CASE data[t] = id
    BY <1>1, <1>2, <1>5, <2>2, <2>3
  <2>4. CASE data[t] # id
    BY <1>2, <2>2, <2>4
  <2> QED BY <2>3, <2>4
<1>9. HeldIds'
  <2> SUFFICES /\ At(todo["main"], "remove") => local["main"] = data[timer["main"]] /\ local["main"] # Null
               /\ At(todo["main"], "store") /\ local["main"] # Null =>
                     events'[local["main"]].owner = timer["main"] /\ due'[local["main"]] > 0
    BY <1>4, <1>5 DEF HeldIds, Doing, At, Threads
  <2>1. "main" \in Threads /\ local["main"] \in Ids
    BY DEF Threads
  <2>2. At(todo["main"], "store") /\ local["main"] # Null => local["main"] # id
    BY <1>1, <2>1 DEF HeldIds, Doing, At, Idle
  <2> QED BY <1>2, <2>1, <2>2 DEF HeldIds, Doing
<1> QED BY <1>1, <1>2, <1>7, <1>8, <1>9

(* The callback returns once it has started the timer again, so the id     *)
(* that run() gives back is no Timer's.                                    *)
LEMMA ReturnKeepsIds ==
    ASSUME TimerInv, Return
    PROVE  /\ OneThreadForEachTimer' /\ KeptIds' /\ HeldIds'
           /\ \A id \in Ids : due[id] > 0 => due'[id] > 0
<1> USE DEF MacInv, TimerInv
<1>1. /\ todo["worker"] = <<>> /\ firing' = NoId
      /\ data' = data /\ local' = local /\ todo' = todo /\ timer' = timer
  BY DEF Return, FireEnd, macVars, Idle
<1>2. /\ \A id \in Ids : events'[id].owner = events[id].owner
      /\ \A id \in Ids : due[id] > 0 => due'[id] > 0
  <2>1. firing \in Ids /\ events \in [Ids -> Event] /\ due \in [Ids -> Nat]
    BY DEF Return, FireEnd, IInv, TimeTypeOK
  <2>2. CASE due' = [due EXCEPT ![firing] = @ + 1] /\ events' = events
    BY <2>1, <2>2
  <2>3. CASE events' = [events EXCEPT ![firing].valid = FALSE] /\ due' = due
    BY <2>1, <2>3 DEF Event
  <2> QED BY <2>2, <2>3 DEF Return, FireEnd
<1>3. OneThreadForEachTimer'
  BY <1>1 DEF OneThreadForEachTimer, Idle
<1>4. KeptIds'
  <2> SUFFICES ASSUME NEW t \in Owners, data[t] # Null, ~Clearing(t)
               PROVE  events'[data[t]].owner = t /\ due'[data[t]] > 0
    BY <1>1 DEF KeptIds, Doing, Clearing
  <2>1. data[t] \in Ids /\ events[data[t]].owner = t /\ due[data[t]] > 0
    BY <1>1 DEF KeptIds, Doing, At
  <2> QED BY <1>2, <2>1
<1>5. HeldIds'
  BY <1>1, <1>2 DEF HeldIds, Doing
<1> QED BY <1>2, <1>3, <1>4, <1>5

LEMMA TimerStep ==
    ASSUME OnlyHeartbeatExpires, TimerInv, [MacNext]_allVars
    PROVE  TimerInv'
<1>1. MacInv' /\ IInv'
  BY MacStep, TimeNextIInv DEF TimerInv
<1>2. ASSUME NEW p \in Threads, Step(p)
      PROVE  OneThreadForEachTimer' /\ KeptIds' /\ HeldIds'
  BY <1>2, StepMoves, ReadKeepsIds, RemoveKeepsIds, ClearKeepsIds, AddKeepsIds, StoreKeepsIds
     DEF Step
<1>3. ASSUME UNCHANGED allVars
      PROVE  OneThreadForEachTimer' /\ KeptIds' /\ HeldIds'
  BY <1>3 DEF TimerInv, OneThreadForEachTimer, KeptIds, HeldIds, Clearing, Doing, Idle,
              allVars, macVars, timeVars
<1> QED BY <1>1, <1>2, <1>3, CallKeepsIds, FireKeepsIds, ReturnKeepsIds DEF MacNext, TimerInv

LEMMA EachRemovalIsItsTimers ==
    ASSUME OnlyHeartbeatExpires, TimerInv, [MacNext]_allVars,
           NEW id \in Ids, due[id] > 0, due'[id] = 0
    PROVE  firing' = id \/ \E p \in Threads : Remove_(p) /\ timer[p] = events[id].owner
<1>1. ASSUME NEW p \in Threads, Step(p)
      PROVE  \E q \in Threads : Remove_(q) /\ timer[q] = events[id].owner
  <2>1. CASE Remove_(p)
    BY <2>1, RemoveKeepsIds
  <2>2. CASE Add_(p)
    BY <2>2, AddKeepsIds
  <2>3. CASE Read(p) \/ Clear(p) \/ Store(p)
    BY <2>3 DEF Read, Clear, Store, timeVars
  <2> QED BY <1>1, <2>1, <2>2, <2>3 DEF Step
<1>2. ASSUME NEW i \in Ids, Fire(i) PROVE firing' = id
  BY <1>2, FireKeepsIds
<1>3. ~ Return
  BY ReturnKeepsIds
<1>4. ~ UNCHANGED allVars
  BY DEF allVars, timeVars
<1> QED BY <1>1, <1>2, <1>3, <1>4, CallKeepsIds DEF MacNext

THEOREM TimerInvariance == ASSUME OnlyHeartbeatExpires PROVE MacSpec => []TimerInv
<1>1. OnlyHeartbeatExpires => (MacInit => TimerInv)
  BY TimerInit
<1>2. OnlyHeartbeatExpires => (TimerInv /\ [MacNext]_allVars => TimerInv')
  BY TimerStep
<1> QED BY <1>1, <1>2, PTL DEF MacSpec

(* Two threads that start and stop Timers, whose ids nobody locks, never   *)
(* take each other's event out of the queue (Timer.start, Timer.stop, run  *)
(* and remove).                                                            *)
THEOREM TimersRemoveTheirOwn ==
    ASSUME OnlyHeartbeatExpires PROVE MacSpec => RemovedByItsTimer
<1>1. OnlyHeartbeatExpires => (TimerInv /\ [MacNext]_allVars =>
          [\A id \in Ids :
              due[id] > 0 /\ due'[id] = 0 =>
                  \/ firing' = id
                  \/ \E p \in Threads : Remove_(p) /\ timer[p] = events[id].owner]_allVars)
  BY EachRemovalIsItsTimers
<1> QED BY <1>1, TimerInvariance, PTL DEF MacSpec, RemovedByItsTimer
=============================================================================
