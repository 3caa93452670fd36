------------------------- MODULE TaskManagerProofs -------------------------
(***************************************************************************)
(* What TLAPS proves of TaskManager for every set of tasks, every kind of  *)
(* executable and every bound on the list, and of the Vector under it      *)
(* (TaskMemory).                                                           *)
(***************************************************************************)
EXTENDS TaskMemory, SequencesExt, SequenceTheorems, FiniteSetTheorems, WellFoundedInduction,
        TLAPS

(* What removing the i-th element of a sequence leaves.                    *)
LEMMA RemoveAtElements ==
    ASSUME NEW S, NEW s \in Seq(S), NEW i \in DOMAIN s
    PROVE  /\ RemoveAt(s, i) \in Seq(S)
           /\ Len(RemoveAt(s, i)) = Len(s) - 1
           /\ \A j \in 1..(Len(s) - 1) :
                  RemoveAt(s, i)[j] = IF j < i THEN s[j] ELSE s[j + 1]
<1>1. Len(s) \in Nat /\ DOMAIN s = 1..Len(s) /\ i \in 1..Len(s)
  BY LenProperties
<1> DEFINE front == SubSeq(s, 1, i - 1)
           back == SubSeq(s, i + 1, Len(s))
<1>2. /\ front \in Seq(S)
      /\ Len(front) = i - 1
      /\ \A j \in 1..(i - 1) : front[j] = s[j]
  BY <1>1
<1>3. /\ back \in Seq(S)
      /\ Len(back) = Len(s) - i
      /\ \A j \in 1..(Len(s) - i) : back[j] = s[i + j]
  BY <1>1
<1>4. RemoveAt(s, i) = front \o back
  BY DEF RemoveAt
<1> HIDE DEF front, back
<1>5. /\ front \o back \in Seq(S)
      /\ Len(front \o back) = (i - 1) + (Len(s) - i)
      /\ \A j \in 1..((i - 1) + (Len(s) - i)) :
            (front \o back)[j] = IF j <= i - 1 THEN front[j] ELSE back[j - (i - 1)]
  <2>1. /\ front \o back \in Seq(S)
        /\ Len(front \o back) = Len(front) + Len(back)
        /\ \A j \in 1..(Len(front) + Len(back)) :
              (front \o back)[j] = IF j <= Len(front) THEN front[j] ELSE back[j - Len(front)]
    BY <1>2, <1>3, ConcatProperties, Zenon
  <2> QED BY <1>2, <1>3, <2>1
<1>6. ASSUME NEW j \in 1..(Len(s) - 1)
      PROVE  (front \o back)[j] = IF j < i THEN s[j] ELSE s[j + 1]
  <2>1. CASE j < i
    BY <1>1, <1>2, <1>5, <2>1
  <2>2. CASE ~(j < i)
    <3>0. j - (i - 1) \in 1..(Len(s) - i) /\ i + (j - (i - 1)) = j + 1
      BY <1>1, <2>2
    <3>1. PICK x \in 1..(Len(s) - i) : x = j - (i - 1) /\ i + x = j + 1
      BY <3>0
    <3>2. (front \o back)[j] = back[x]
      BY <1>1, <1>5, <2>2, <3>1
    <3> QED BY <1>3, <2>2, <3>1, <3>2
  <2> QED BY <2>1, <2>2
<1> QED BY <1>1, <1>4, <1>5, <1>6

(* Removing an element of a sequence without duplicates takes exactly that *)
(* element out of the set of its elements.                                 *)
LEMMA RemoveAtInjective ==
    ASSUME NEW S, NEW s \in Seq(S), NEW i \in DOMAIN s, IsInjective(s)
    PROVE  /\ IsInjective(RemoveAt(s, i))
           /\ ToSet(RemoveAt(s, i)) = ToSet(s) \ {s[i]}
<1> DEFINE r == RemoveAt(s, i)
<1>1. /\ Len(s) \in Nat /\ DOMAIN s = 1..Len(s) /\ i \in 1..Len(s)
      /\ DOMAIN r = 1..(Len(s) - 1)
  BY LenProperties, RemoveAtElements
<1>2. \A j \in 1..(Len(s) - 1) : r[j] = IF j < i THEN s[j] ELSE s[j + 1]
  BY RemoveAtElements
<1>3. \A j, k \in 1..Len(s) : s[j] = s[k] => j = k
  BY <1>1 DEF IsInjective
<1> HIDE DEF r
<1>4. IsInjective(r)
  <2> SUFFICES ASSUME NEW j \in 1..(Len(s) - 1), NEW k \in 1..(Len(s) - 1), r[j] = r[k]
               PROVE  j = k
    BY <1>1 DEF IsInjective
  <2> DEFINE from(m) == IF m < i THEN m ELSE m + 1
  <2>1. \A m \in 1..(Len(s) - 1) : from(m) \in 1..Len(s) /\ r[m] = s[from(m)]
    BY <1>1, <1>2
  <2>2. from(j) = from(k)
    <3> HIDE DEF from
    <3> QED BY <1>3, <2>1
  <2> QED BY <1>1, <2>2
<1>5. ToSet(r) = {r[j] : j \in 1..(Len(s) - 1)} /\ ToSet(s) = {s[j] : j \in 1..Len(s)}
  BY <1>1 DEF ToSet
<1>6. ASSUME NEW j \in 1..(Len(s) - 1)
      PROVE  r[j] \in {s[k] : k \in 1..Len(s)} \ {s[i]}
  <2>1. CASE j < i
    BY <1>1, <1>2, <1>3, <2>1
  <2>2. CASE ~(j < i)
    <3>1. j + 1 \in 1..Len(s) /\ j + 1 # i /\ r[j] = s[j + 1]
      BY <1>1, <1>2, <2>2
    <3> QED BY <1>1, <1>3, <3>1
  <2> QED BY <2>1, <2>2
<1>7. ASSUME NEW k \in 1..Len(s), s[k] # s[i]
      PROVE  \E j \in 1..(Len(s) - 1) : s[k] = r[j]
  <2>1. CASE k < i
    <3>1. k \in 1..(Len(s) - 1) /\ r[k] = s[k]
      BY <1>1, <1>2, <2>1
    <3> QED BY <3>1
  <2>2. CASE k > i
    <3>1. k - 1 \in 1..(Len(s) - 1) /\ ~(k - 1 < i) /\ (k - 1) + 1 = k
      BY <1>1, <2>2
    <3>2. r[k - 1] = s[k]
      BY <1>2, <3>1
    <3> QED BY <3>1, <3>2
  <2>3. k # i
    BY <1>7
  <2> QED BY <1>1, <2>1, <2>2, <2>3
<1>8. ToSet(r) = ToSet(s) \ {s[i]}
  BY <1>5, <1>6, <1>7, Zenon
<1> QED BY <1>4, <1>8 DEF r

(* Appending a new element keeps a sequence free of duplicates.            *)
LEMMA AppendInjectiveElement ==
    ASSUME NEW S, NEW s \in Seq(S), NEW e \in S, e \notin ToSet(s), IsInjective(s)
    PROVE  /\ Append(s, e) \in Seq(S)
           /\ IsInjective(Append(s, e))
           /\ ToSet(Append(s, e)) = ToSet(s) \cup {e}
<1> DEFINE r == Append(s, e)
<1>1. /\ Len(s) \in Nat /\ DOMAIN s = 1..Len(s)
      /\ r \in Seq(S) /\ DOMAIN r = 1..(Len(s) + 1)
      /\ \A j \in 1..Len(s) : r[j] = s[j]
      /\ r[Len(s) + 1] = e
  BY LenProperties, AppendProperties
<1>2. \A j \in 1..Len(s) : s[j] # e
  BY <1>1 DEF ToSet
<1>3. \A j, k \in 1..Len(s) : s[j] = s[k] => j = k
  BY <1>1 DEF IsInjective
<1> HIDE DEF r
<1>4. \A j \in 1..(Len(s) + 1) : j \in 1..Len(s) \/ j = Len(s) + 1
  BY <1>1
<1>5. IsInjective(r)
  BY <1>1, <1>2, <1>3, <1>4 DEF IsInjective
<1>6. ToSet(r) = ToSet(s) \cup {e}
  <2>1. ToSet(r) = {r[j] : j \in 1..(Len(s) + 1)} /\ ToSet(s) = {s[j] : j \in 1..Len(s)}
    BY <1>1 DEF ToSet
  <2>2. ASSUME NEW j \in 1..(Len(s) + 1)
        PROVE  r[j] \in {s[k] : k \in 1..Len(s)} \cup {e}
    BY <1>1, <1>4
  <2>3. ASSUME NEW j \in 1..Len(s)
        PROVE  s[j] \in {r[k] : k \in 1..(Len(s) + 1)}
    <3>1. j \in 1..(Len(s) + 1)
      BY <1>1
    <3> QED BY <1>1, <3>1
  <2>4. e \in {r[k] : k \in 1..(Len(s) + 1)}
    BY <1>1
  <2> QED BY <2>1, <2>2, <2>3, <2>4, Zenon
<1> QED BY <1>1, <1>5, <1>6 DEF r

(* Rotation: the i-th element goes to the back and none is lost or doubled.*)
LEMMA RotateInjective ==
    ASSUME NEW S, NEW s \in Seq(S), NEW i \in DOMAIN s, IsInjective(s)
    PROVE  /\ Append(RemoveAt(s, i), s[i]) \in Seq(S)
           /\ Len(Append(RemoveAt(s, i), s[i])) = Len(s)
           /\ IsInjective(Append(RemoveAt(s, i), s[i]))
           /\ ToSet(Append(RemoveAt(s, i), s[i])) = ToSet(s)
<1>1. /\ s[i] \in S /\ s[i] \in ToSet(s)
      /\ Len(s) \in Nat
  BY LenProperties DEF ToSet
<1>2. /\ RemoveAt(s, i) \in Seq(S)
      /\ Len(RemoveAt(s, i)) = Len(s) - 1
      /\ IsInjective(RemoveAt(s, i))
      /\ ToSet(RemoveAt(s, i)) = ToSet(s) \ {s[i]}
  BY RemoveAtElements, RemoveAtInjective
<1>3. s[i] \notin ToSet(RemoveAt(s, i))
  BY <1>2
<1> DEFINE r == RemoveAt(s, i)
<1> HIDE DEF r
<1>4. /\ Append(r, s[i]) \in Seq(S)
      /\ IsInjective(Append(r, s[i]))
      /\ ToSet(Append(r, s[i])) = ToSet(r) \cup {s[i]}
  BY <1>1, <1>2, <1>3, AppendInjectiveElement DEF r
<1>5. Len(Append(r, s[i])) = Len(s)
  BY <1>1, <1>2, AppendProperties DEF r
<1> QED BY <1>1, <1>2, <1>4, <1>5 DEF r

(* A set of numbers has a least element, which is how an induction over    *)
(* numbers is written here: the least counterexample has none before it.   *)
LEMMA LeastElement ==
    ASSUME NEW S \in SUBSET Nat, S # {}
    PROVE  \E x \in S : \A y \in S : x <= y
<1> DEFINE upTo == {1..x : x \in S}
<1>1. upTo \subseteq FiniteSubsetsOf(Nat) /\ upTo # {}
  <2>1. ASSUME NEW x \in S PROVE 1..x \in SUBSET Nat /\ IsFiniteSet(1..x)
    BY FS_Interval
  <2> QED BY <2>1 DEF FiniteSubsetsOf
<1>2. PICK T \in upTo : \A U \in upTo : ~(<<U, T>> \in StrictSubsetOrdering(Nat))
  BY <1>1, FS_StrictSubsetOrderingWellFounded, WFMin, Zenon
<1>3. PICK x \in S : T = 1..x
  OBVIOUS
<1>4. ASSUME NEW y \in S, y < x PROVE FALSE
  <2>1. 1..y \subseteq 1..x /\ x \in 1..x /\ x \notin 1..y /\ 1..y \in upTo
    BY <1>4
  <2>2. <<1..y, 1..x>> \in StrictSubsetOrdering(Nat)
    BY <2>1 DEF StrictSubsetOrdering
  <2> QED BY <1>2, <1>3, <2>1, <2>2
<1>5. \A y \in S : x <= y
  BY <1>4
<1> QED BY <1>5

(* Counting with one element more or less.                                 *)
LEMMA OneMoreOneLess ==
    ASSUME NEW S, IsFiniteSet(S), NEW x
    PROVE  /\ Cardinality(S) \in Nat
           /\ IsFiniteSet(S \ {x}) /\ Cardinality(S \ {x}) \in Nat
           /\ Cardinality(S \ {x}) \in {Cardinality(S), Cardinality(S) - 1}
           /\ x \in S => Cardinality(S \ {x}) = Cardinality(S) - 1
           /\ IsFiniteSet(S \cup {x}) /\ Cardinality(S \cup {x}) \in Nat
           /\ Cardinality(S \cup {x}) \in {Cardinality(S), Cardinality(S) + 1}
           /\ x \notin S => Cardinality(S \cup {x}) = Cardinality(S) + 1
BY FS_AddElement, FS_RemoveElement, FS_CardinalityType

-----------------------------------------------------------------------------
(* Vector::remove keeps the list free of duplicates and adds nothing.      *)
LEMMA RemoveTaskInjective ==
    ASSUME list \in Seq(Tasks), IsInjective(list), NEW t
    PROVE  /\ RemoveTask(t) \in Seq(Tasks)
           /\ IsInjective(RemoveTask(t))
           /\ ToSet(RemoveTask(t)) \subseteq ToSet(list)
<1>1. CASE list = <<>>
  BY <1>1 DEF RemoveTask
<1>2. CASE list # <<>>
  <2>1. 1 \in DOMAIN list
    BY <1>2, LenProperties, EmptySeq
  <2> QED BY <1>2, <2>1, RemoveAtElements, RemoveAtInjective DEF RemoveTask
<1> QED BY <1>1, <1>2

-----------------------------------------------------------------------------
(* The inductive invariant: a task is handed to run() only once, so what   *)
(* run() appends is new only because the list holds nothing but tasks that *)
(* were run.                                                               *)
IInv ==
    /\ TypeOK
    /\ NoDuplicates
    /\ Listed \subseteq started
    /\ OwnTimers => DelayNeverLost

LEMMA InitIInv == Init => IInv
<1> SUFFICES ASSUME Init PROVE IInv
  OBVIOUS
<1>1. TypeOK
  BY EmptySeq DEF Init, TypeOK, States, Places
<1>2. NoDuplicates /\ Listed \subseteq started
  BY EmptySeq DEF Init, NoDuplicates, Listed, IsInjective, ToSet
<1>3. DelayNeverLost
  BY DEF Init, DelayNeverLost
<1> QED BY <1>1, <1>2, <1>3 DEF IInv

LEMMA NextIInv == IInv /\ [Next]_vars => IInv'
<1> SUFFICES ASSUME IInv, [Next]_vars PROVE IInv'
  OBVIOUS
<1> USE DEF IInv, NoDuplicates, Listed
<1>1. ASSUME NEW t \in Tasks, Run(t) PROVE IInv'
  <2>1. /\ Append(list, t) \in Seq(Tasks)
        /\ IsInjective(Append(list, t))
        /\ ToSet(Append(list, t)) = ToSet(list) \cup {t}
    BY <1>1, AppendInjectiveElement DEF Run, TypeOK
  <2>2. TypeOK' /\ (OwnTimers => DelayNeverLost')
    BY <1>1, <2>1 DEF Run, TypeOK, States, DelayNeverLost
  <2> QED BY <1>1, <2>1, <2>2 DEF Run
<1>2. ASSUME NEW t \in Tasks, Terminate(t) PROVE IInv'
  <2>1. /\ RemoveTask(t) \in Seq(Tasks)
        /\ IsInjective(RemoveTask(t))
        /\ ToSet(RemoveTask(t)) \subseteq ToSet(list)
    BY RemoveTaskInjective DEF TypeOK
  <2>2. TypeOK' /\ (OwnTimers => DelayNeverLost')
    BY <1>2, <2>1 DEF Terminate, TypeOK, States, DelayNeverLost
  <2> QED BY <1>2, <2>1, <2>2 DEF Terminate
<1>3. ASSUME NEW t \in Tasks, DelayFires(t) PROVE IInv'
  BY <1>3 DEF DelayFires, TypeOK, DelayNeverLost
<1>4. CASE Dispatch
  <2> PICK i \in DOMAIN list :
        /\ current' = list[i]
        /\ list' = Rotated(i)
    BY <1>4 DEF Dispatch
  <2>1. list[i] \in Tasks
    BY LenProperties DEF TypeOK
  <2>2. list' \in Seq(Tasks) /\ IsInjective(list') /\ ToSet(list') = ToSet(list)
    BY RotateInjective DEF TypeOK, Rotated
  <2>3. TypeOK' /\ (OwnTimers => DelayNeverLost')
    BY <1>4, <2>1, <2>2 DEF Dispatch, TypeOK, Places, DelayNeverLost
  <2> QED BY <1>4, <2>2, <2>3 DEF Dispatch
<1>5. CASE Crash
  BY <1>5 DEF Crash, TypeOK, Places, DelayNeverLost
<1>6. CASE StartDelay
  <2>1. /\ list' = list /\ current' = current /\ current \in Tasks
        /\ UNCHANGED <<state, started>> /\ pc \in {"executing", "starting"}
    BY <1>6 DEF StartDelay, TypeOK
  <2>2. CASE pc = "executing"
    BY <1>6, <2>1, <2>2 DEF StartDelay, TypeOK, Places, DelayNeverLost
  <2>3. CASE pc = "starting"
    <3> DEFINE running == {u \in armed : timerId[u] # timerId[current]}
    <3>1. /\ StartTimer(current) /\ pc' = "executing" /\ UNCHANGED delayComplete
      BY <1>6, <2>3 DEF StartDelay
    <3>2. PICK id \in TimerIds[current] : timerId' = [timerId EXCEPT ![current] = id]
      BY <3>1 DEF StartTimer
    <3>3. armed' = running \cup {current}
      BY <3>1 DEF StartTimer
    <3>4. id # NoId /\ id \in UNION {TimerIds[t] : t \in Tasks}
      BY <2>1, <3>2, TasksAssumption
    <3>5. TypeOK'
      BY <2>1, <3>1, <3>2, <3>3, <3>4 DEF TypeOK, Places
    <3>6. ASSUME OwnTimers PROVE DelayNeverLost'
      <4>1. \A u \in armed : u # current => u \in running
        <5> SUFFICES ASSUME NEW u \in armed, u # current PROVE timerId[u] # timerId[current]
          OBVIOUS
        <5>1. /\ u \in Tasks /\ timerId[u] \in TimerIds[u]
              /\ timerId[current] \in TimerIds[current] \cup {NoId}
          BY <2>1 DEF TypeOK
        <5> QED BY <2>1, <3>6, <5>1, TasksAssumption DEF OwnTimers
      <4> QED BY <2>1, <2>3, <3>1, <3>3, <3>6, <4>1 DEF DelayNeverLost, IInv
    <3> QED BY <2>1, <3>5, <3>6
  <2> QED BY <2>1, <2>2, <2>3
<1>7. CASE ReturnEnd
  <2>1. /\ RemoveTask(current) \in Seq(Tasks)
        /\ IsInjective(RemoveTask(current))
        /\ ToSet(RemoveTask(current)) \subseteq ToSet(list)
    BY RemoveTaskInjective DEF TypeOK
  <2>2. TypeOK' /\ (OwnTimers => DelayNeverLost')
    BY <1>7, <2>1 DEF ReturnEnd, TypeOK, States, Places, DelayNeverLost
  <2> QED BY <1>7, <2>1, <2>2 DEF ReturnEnd
<1>8. CASE ReturnOn
  <2>1. PICK kind \in ReturnKinds \ {"End"} :
            state' = [state EXCEPT ![current] = NextState(kind)]
    BY <1>8 DEF ReturnOn
  <2>2. current \in Tasks
    BY <1>8 DEF ReturnOn, TypeOK
  <2>3. NextState(kind) \in States
    BY <2>2 DEF NextState, ReturnKinds, TypeOK, States
  <2>4. TypeOK' /\ (OwnTimers => DelayNeverLost')
    BY <1>8, <2>1, <2>2, <2>3 DEF ReturnOn, TypeOK, Places, DelayNeverLost
  <2> QED BY <1>8, <2>4 DEF ReturnOn
<1>9. CASE UNCHANGED vars
  BY <1>9 DEF vars, TypeOK, DelayNeverLost
<1> QED BY <1>1, <1>2, <1>3, <1>4, <1>5, <1>6, <1>7, <1>8, <1>9 DEF Next, Return

(* The inductive invariant holds in every behaviour.                       *)
THEOREM Invariance == Spec => []IInv
BY InitIInv, NextIInv, PTL DEF Spec

(* Every variable keeps its type (TaskManager, Task, Executable).          *)
THEOREM TypeCorrect == Spec => []TypeOK
BY Invariance, PTL DEF IInv

(* _list never holds a task twice (run, runOneIteration, terminate).       *)
THEOREM ListHasNoDuplicates == Spec => []NoDuplicates
BY Invariance, PTL DEF IInv

(* Where each Timer has an id of its own, as on the ESP, a task whose      *)
(* delay is not complete has a timer that will complete it, wherever the   *)
(* timer thread runs (Executable::startDelay, Timer::start).               *)
THEOREM NoDelayIsLost ==
    ASSUME OwnTimers PROVE Spec => []DelayNeverLost
<1>1. IInv => DelayNeverLost
  BY DEF IInv
<1> QED BY <1>1, Invariance, PTL
-----------------------------------------------------------------------------
(* A deployment that runs one task at a time and has no TCP server: the    *)
(* application's autostart task alone.                                     *)
OneTaskAtATime == MaxListed = 1 /\ Owned = {}

(* With at most one task in the list, the head that Vector::remove takes   *)
(* is the task it was asked for, and the list is the live tasks.  A task   *)
(* without executable is Ready until its only execution ends it.           *)
OneTaskInv ==
    /\ IInv
    /\ Len(list) <= 1
    /\ ListIsLiveTasks
    /\ pc \in {"executing", "starting"} => current \in Listed
    /\ \A t \in Tasks \ Loaded : state[t] \in {"Ready", "Terminated"}
    /\ NeverFaults

LEMMA InitOneTaskInv == Init => OneTaskInv
BY InitIInv, EmptySeq DEF Init, OneTaskInv, ListIsLiveTasks, Listed, Live, ToSet, NeverFaults

LEMMA OnlyElement ==
    ASSUME TypeOK, Len(list) <= 1, NEW t \in Listed
    PROVE  /\ list # <<>>
           /\ 1 \in DOMAIN list
           /\ list[1] = t
           /\ Listed = {t}
<1>1. /\ Len(list) \in Nat /\ DOMAIN list = 1..Len(list)
  BY LenProperties DEF TypeOK
<1>2. PICK i \in DOMAIN list : t = list[i]
  BY DEF Listed, ToSet
<1>3. i = 1 /\ Len(list) = 1 /\ DOMAIN list = {1}
  BY <1>1, <1>2
<1> QED BY <1>2, <1>3, EmptySeq DEF Listed, ToSet

LEMMA NextOneTaskInv ==
    ASSUME OneTaskAtATime, OneTaskInv, [Next]_vars
    PROVE  OneTaskInv'
<1>1. IInv' /\ IInv /\ TypeOK /\ TypeOK'
  BY NextIInv DEF OneTaskInv, IInv
<1>2. Len(list) \in Nat
  BY <1>1, LenProperties DEF TypeOK
<1> USE DEF OneTaskInv, ListIsLiveTasks
<1>3. ASSUME NEW t \in Tasks, Run(t) PROVE OneTaskInv'
  <2>1. Len(list) = 0
    BY <1>2, <1>3 DEF Run, OneTaskAtATime
  <2>2. /\ Len(list') = 1
        /\ Listed' = Listed \cup {t}
    <3>1. list \in Seq(Tasks) /\ t \notin ToSet(list) /\ IsInjective(list)
      BY <1>1, <1>3 DEF Run, TypeOK, Listed, IInv, NoDuplicates
    <3>2. Len(Append(list, t)) = 1
      BY <2>1, <3>1, AppendProperties
    <3>3. ToSet(Append(list, t)) = ToSet(list) \cup {t}
      BY <3>1, AppendInjectiveElement
    <3> QED BY <1>3, <3>2, <3>3 DEF Run, Listed
  <2>3. Live' = Live \cup {t}
    BY <1>1, <1>3 DEF Run, Live, TypeOK
  <2> QED BY <1>1, <1>3, <2>2, <2>3 DEF Run, NeverFaults, TypeOK
<1>4. ASSUME NEW t \in Tasks, Terminate(t) PROVE FALSE
  BY <1>4 DEF Terminate, OneTaskAtATime
<1>5. ASSUME NEW t \in Tasks, DelayFires(t) PROVE OneTaskInv'
  BY <1>1, <1>5 DEF DelayFires, Listed, Live, NeverFaults
<1>6. CASE Dispatch
  <2> PICK i \in DOMAIN list :
        /\ current' = list[i]
        /\ list' = Rotated(i)
    BY <1>6 DEF Dispatch
  <2>1. Len(list') = Len(list) /\ ToSet(list') = ToSet(list)
    BY <1>1, RotateInjective DEF TypeOK, IInv, NoDuplicates, Rotated
  <2>2. current' \in Listed'
    BY <2>1 DEF Listed, ToSet
  <2> QED BY <1>1, <1>6, <2>1, <2>2 DEF Dispatch, Listed, Live, NeverFaults
<1>7. CASE Crash
  <2>1. PICK i \in DOMAIN list : Faults(list[i])
    BY <1>7 DEF Crash
  <2>2. list[i] \in Live
    BY DEF Listed, ToSet
  <2>3. list[i] \in Tasks \ Loaded /\ state[list[i]] = "Terminated"
    BY <1>1, <2>1, <2>2 DEF Faults, Live, TypeOK
  <2> QED BY <2>2, <2>3 DEF Live
<1>8. CASE StartDelay
  BY <1>1, <1>8 DEF StartDelay, Listed, Live, NeverFaults
<1>9. CASE ReturnEnd
  <2>1. current \in Listed /\ current \in Tasks
    BY <1>1, <1>9 DEF ReturnEnd, TypeOK
  <2>2. /\ Listed' = Listed \ {current}
        /\ Len(list') = Len(list) - 1
    BY <1>1, <1>9, <2>1, OnlyElement, RemoveAtElements, RemoveAtInjective
       DEF ReturnEnd, RemoveTask, TypeOK, Listed, IInv, NoDuplicates
  <2>3. Live' = Live \ {current}
    BY <1>1, <1>9, <2>1 DEF ReturnEnd, Live, TypeOK
  <2> QED BY <1>1, <1>2, <1>9, <2>2, <2>3 DEF ReturnEnd, NeverFaults, TypeOK
<1>10. CASE ReturnOn
  <2>1. PICK kind \in ReturnKinds \ {"End"} :
            /\ MayReturn(current, kind)
            /\ state' = [state EXCEPT ![current] = NextState(kind)]
    BY <1>10 DEF ReturnOn
  <2>2. current \in Tasks /\ current \in Listed /\ current \in Loaded
    BY <1>1, <1>10, <2>1 DEF ReturnOn, TypeOK, MayReturn
  <2>3. state[current] # "Terminated" /\ current \in started
    BY <2>2 DEF Live
  <2>4. NextState(kind) # "Terminated"
    BY <2>3 DEF NextState, ReturnKinds
  <2>5. Live' = Live /\ Listed' = Listed
    BY <1>1, <1>10, <2>1, <2>2, <2>3, <2>4 DEF ReturnOn, Live, Listed, TypeOK
  <2> QED BY <1>1, <1>10, <2>1, <2>2, <2>5 DEF ReturnOn, NeverFaults, TypeOK
<1>11. CASE UNCHANGED vars
  BY <1>1, <1>11 DEF vars, Listed, Live, NeverFaults
<1> QED
  BY <1>3, <1>4, <1>5, <1>6, <1>7, <1>8, <1>9, <1>10, <1>11 DEF Next, Return

LEMMA OneTaskInvariance ==
    ASSUME OneTaskAtATime PROVE Spec => []OneTaskInv
<1>1. OneTaskInv /\ [Next]_vars => OneTaskInv'
  BY NextOneTaskInv
<1> QED BY <1>1, InitOneTaskInv, PTL DEF Spec

(* While one task is run at a time, the list is exactly the live tasks:    *)
(* TaskManager::run and the removal in runOneIteration.                    *)
THEOREM OneTaskListIsLive ==
    ASSUME OneTaskAtATime PROVE Spec => []ListIsLiveTasks
BY OneTaskInvariance, PTL DEF OneTaskInv

(* While one task is run at a time, a task without executable is executed  *)
(* once and its null pointer is never followed (Task::readyToRun).         *)
THEOREM OneTaskNeverFaults ==
    ASSUME OneTaskAtATime PROVE Spec => []NeverFaults
BY OneTaskInvariance, PTL DEF OneTaskInv
-----------------------------------------------------------------------------
(* The refinement mapping of TaskManager!Promise, by name.                 *)
Ended == {t \in started : state[t] = "Terminated"}
Running == IF pc \in {"executing", "starting"} THEN current ELSE NoTask

LEMMA InitPromise == Init => Promise!Init
BY EmptySeq DEF Init, Promise!Init, Listed, ToSet

LEMMA NextPromise ==
    ASSUME OneTaskAtATime, OneTaskInv, OneTaskInv', [Next]_vars
    PROVE  [Promise!Next]_(Promise!vars)
<1>1. /\ TypeOK /\ TypeOK'
      /\ Listed = Live /\ Listed' = Live'
      /\ pc \in {"executing", "starting"} => current \in Listed
  BY DEF OneTaskInv, IInv, ListIsLiveTasks
<1>2. /\ \A t \in Tasks : Running = NoTask /\ t \notin Listed \cup Ended
                            /\ Listed' = Listed \cup {t} /\ Ended' = Ended
                            /\ Running' = Running => Promise!Submit(t)
      /\ \A t \in Tasks : Running = NoTask /\ t \in Listed /\ Running' = t
                            /\ Listed' = Listed /\ Ended' = Ended => Promise!Execute(t)
      /\ Running # NoTask /\ Running' = NoTask /\ Listed' = Listed /\ Ended' = Ended
            => Promise!Suspend
      /\ Running # NoTask /\ Listed' = Listed \ {Running}
            /\ Ended' = Ended \cup {Running} /\ Running' = NoTask => Promise!End
      /\ Listed' = Listed /\ Ended' = Ended /\ Running' = Running
            => UNCHANGED Promise!vars
  BY DEF Promise!Submit, Promise!Execute, Promise!Suspend, Promise!End,
         Promise!vars, Ended, Running
<1>3. ASSUME NEW t \in Tasks, Run(t) PROVE Promise!Next
  <2>1. t \notin Live \cup Ended /\ Live' = Live \cup {t} /\ Ended' = Ended
    BY <1>1, <1>3 DEF Run, Live, Ended, TypeOK
  <2>2. Running = NoTask /\ Running' = Running
    BY <1>3 DEF Run, Running
  <2> QED BY <1>1, <1>2, <2>1, <2>2 DEF Promise!Next
<1>4. ASSUME NEW t \in Tasks, Terminate(t) PROVE FALSE
  BY <1>4 DEF Terminate, OneTaskAtATime
<1>5. ASSUME NEW t \in Tasks, DelayFires(t) PROVE UNCHANGED Promise!vars
  BY <1>2, <1>5 DEF DelayFires, Listed, Ended, Running
<1>6. CASE Dispatch
  <2>1. Live' = Live /\ Ended' = Ended
    BY <1>6 DEF Dispatch, Live, Ended
  <2>2. Running = NoTask /\ Running' = current' /\ current' \in Listed'
    BY <1>6 DEF Dispatch, Running, OneTaskInv
  <2>3. current' \in Tasks
    BY <1>1, <2>2 DEF Live, TypeOK
  <2> QED BY <1>1, <1>2, <2>1, <2>2, <2>3 DEF Promise!Next
<1>7. CASE Crash
  BY <1>7 DEF Crash, OneTaskInv, NeverFaults
<1>8. CASE StartDelay
  BY <1>2, <1>8 DEF StartDelay, Listed, Ended, Running
<1>9. CASE ReturnEnd
  <2>1. current \in Live /\ current \in Tasks /\ current # NoTask
    BY <1>1, <1>9, TasksAssumption DEF ReturnEnd, TypeOK
  <2>2. Live' = Live \ {current} /\ Ended' = Ended \cup {current}
    BY <1>1, <1>9, <2>1 DEF ReturnEnd, Live, Ended, TypeOK
  <2>3. Running = current /\ Running' = NoTask
    BY <1>9 DEF ReturnEnd, Running
  <2> QED BY <1>1, <1>2, <2>1, <2>2, <2>3 DEF Promise!Next
<1>10. CASE ReturnOn
  <2>1. PICK kind \in ReturnKinds \ {"End"} :
            state' = [state EXCEPT ![current] = NextState(kind)]
    BY <1>10 DEF ReturnOn
  <2>2. current \in Live /\ current \in Tasks /\ current # NoTask
    BY <1>1, <1>10, TasksAssumption DEF ReturnOn, TypeOK
  <2>3. NextState(kind) # "Terminated"
    BY <2>2 DEF NextState, ReturnKinds, Live
  <2>4. Listed' = Listed /\ Ended' = Ended
    BY <1>1, <1>10, <2>1, <2>2, <2>3 DEF ReturnOn, Listed, Live, Ended, TypeOK
  <2>5. Running = current /\ Running' = NoTask
    BY <1>10 DEF ReturnOn, Running
  <2> QED BY <1>2, <2>2, <2>4, <2>5 DEF Promise!Next
<1>11. CASE UNCHANGED vars
  BY <1>2, <1>11 DEF vars, Listed, Ended, Running
<1> QED
  BY <1>3, <1>4, <1>5, <1>6, <1>7, <1>8, <1>9, <1>10, <1>11 DEF Next, Return

(* While one task is run at a time, TaskManager implements Scheduler: the  *)
(* task that ends leaves, no other does, and it is not executed again.     *)
THEOREM OneTaskKeepsPromise ==
    ASSUME OneTaskAtATime PROVE Spec => KeepsPromise
<1>1. OneTaskInv /\ OneTaskInv' /\ [Next]_vars => [Promise!Next]_(Promise!vars)
  BY NextPromise
<1>2. Spec => []OneTaskInv
  BY OneTaskInvariance
<1> QED BY <1>1, <1>2, InitPromise, PTL DEF Spec, KeepsPromise, Promise!Spec

-----------------------------------------------------------------------------
(* Counting the tasks that Vector::remove has taken for others: they are   *)
(* finitely many, since run() has been called finitely often.              *)
CountInv == IInv /\ IsFiniteSet(started) /\ ZombiesReplaceLostTasks

LEMMA FiniteTasks ==
    ASSUME IInv, IsFiniteSet(started)
    PROVE  /\ IsFiniteSet(Zombies) /\ IsFiniteSet(Lost)
           /\ Cardinality(Zombies) \in Nat /\ Cardinality(Lost) \in Nat
<1>1. Zombies \subseteq started /\ Lost \subseteq started
  BY DEF IInv, Zombies, Lost
<1> QED BY <1>1, FS_Subset, FS_CardinalityType

(* A task ends and the head of the list goes.  Either the head was to end  *)
(* before, or it is the task, or it is lost in the task's place.           *)
LEMMA DropHeadCounts ==
    ASSUME CountInv, NEW t \in Tasks, list' = RemoveTask(t), started' = started,
           state' = [state EXCEPT ![t] = "Terminated"]
    PROVE  Cardinality(Zombies') <= Cardinality(Lost')
<1> DEFINE Z == Zombies
           L == Lost
<1>1. /\ IsFiniteSet(Z) /\ IsFiniteSet(L) /\ Cardinality(Z) \in Nat /\ Cardinality(L) \in Nat
      /\ Cardinality(Z) <= Cardinality(L)
  BY FiniteTasks DEF CountInv, ZombiesReplaceLostTasks
<1>2. TypeOK /\ Listed \subseteq started /\ IsInjective(list) /\ list \in Seq(Tasks)
  BY DEF CountInv, IInv, TypeOK, NoDuplicates
<1>3. CASE list = <<>>
  <2>1. Zombies' = {}
    BY <1>3 DEF Zombies, Listed, RemoveTask, ToSet
  <2>2. Lost' \subseteq L
    BY <1>2, <1>3 DEF Lost, Listed, RemoveTask, TypeOK
  <2> QED BY <1>1, <2>1, <2>2, FS_Subset, FS_EmptySet, FS_CardinalityType
<1>4. CASE list # <<>>
  <2> DEFINE h == list[1]
  <2>1. h \in Listed /\ Listed' = Listed \ {h}
    <3>1. 1 \in DOMAIN list
      BY <1>2, <1>4, LenProperties, EmptySeq
    <3> QED BY <1>2, <1>4, <3>1, RemoveAtInjective DEF Listed, RemoveTask, ToSet
  <2>2. /\ h \in started /\ h \in Tasks
        /\ \A u \in Tasks : state'[u] = IF u = t THEN "Terminated" ELSE state[u]
        /\ Listed \subseteq Tasks /\ started \subseteq Tasks
    BY <1>2, <2>1 DEF TypeOK
  <2> HIDE DEF h
  <2>3. CASE h = t
    <3>1. Zombies' = Z \ {t} /\ Lost' = L
      BY <2>1, <2>2, <2>3 DEF Zombies, Lost
    <3> HIDE DEF Z, L
    <3>2. Cardinality(Z \ {t}) \in {Cardinality(Z), Cardinality(Z) - 1}
      BY <1>1, OneMoreOneLess
    <3> QED BY <1>1, <3>1, <3>2
  <2>4. CASE h # t /\ h \in Z
    <3>1. CASE t \in Listed
      <4>1. Zombies' = (Z \ {h}) \cup {t} /\ Lost' = L
        BY <2>1, <2>2, <2>4, <3>1 DEF Zombies, Lost
      <4> HIDE DEF Z, L
      <4>2. IsFiniteSet(Z \ {h}) /\ Cardinality(Z \ {h}) = Cardinality(Z) - 1
        BY <1>1, <2>4, OneMoreOneLess
      <4>3. Cardinality((Z \ {h}) \cup {t}) \in {Cardinality(Z) - 1, Cardinality(Z) - 1 + 1}
        BY <4>2, OneMoreOneLess
      <4> QED BY <1>1, <4>1, <4>3
    <3>2. CASE t \notin Listed
      <4>1. Zombies' = Z \ {h} /\ Lost' = L \ {t}
        BY <2>1, <2>2, <2>4, <3>2 DEF Zombies, Lost
      <4> HIDE DEF Z, L
      <4>2. Cardinality(Z \ {h}) = Cardinality(Z) - 1
        BY <1>1, <2>4, OneMoreOneLess
      <4>3. Cardinality(L \ {t}) \in {Cardinality(L), Cardinality(L) - 1}
        BY <1>1, OneMoreOneLess
      <4> QED BY <1>1, <4>1, <4>2, <4>3
    <3> QED BY <3>1, <3>2
  <2>5. CASE h # t /\ h \notin Z
    <3>1. h \notin L
      BY <2>1 DEF Lost
    <3>2. CASE t \in Listed
      <4>1. Zombies' = Z \cup {t} /\ Lost' = L \cup {h}
        BY <2>1, <2>2, <2>5, <3>2 DEF Zombies, Lost
      <4> HIDE DEF Z, L
      <4>2. Cardinality(Z \cup {t}) \in {Cardinality(Z), Cardinality(Z) + 1}
        BY <1>1, OneMoreOneLess
      <4>3. Cardinality(L \cup {h}) = Cardinality(L) + 1
        BY <1>1, <3>1, OneMoreOneLess
      <4> QED BY <1>1, <4>1, <4>2, <4>3
    <3>3. CASE t \notin Listed
      <4>1. Zombies' = Z /\ Lost' = (L \ {t}) \cup {h}
        BY <2>1, <2>2, <2>5, <3>3 DEF Zombies, Lost
      <4> HIDE DEF Z, L
      <4>2. /\ IsFiniteSet(L \ {t}) /\ h \notin L \ {t}
            /\ Cardinality(L \ {t}) \in {Cardinality(L), Cardinality(L) - 1}
        BY <1>1, <3>1, OneMoreOneLess
      <4>3. Cardinality((L \ {t}) \cup {h}) = Cardinality(L \ {t}) + 1
        BY <4>2, OneMoreOneLess
      <4> QED BY <1>1, <4>1, <4>2, <4>3
    <3> QED BY <3>2, <3>3
  <2> QED BY <2>3, <2>4, <2>5
<1> QED BY <1>3, <1>4

(* A step that ends no task and takes none out of the list.                *)
LEMMA KeepingCounts ==
    ASSUME CountInv, Zombies' \subseteq Zombies, Lost \subseteq Lost', IsFiniteSet(Lost')
    PROVE  Cardinality(Zombies') <= Cardinality(Lost')
<1>1. /\ IsFiniteSet(Zombies) /\ Cardinality(Zombies) \in Nat /\ Cardinality(Lost) \in Nat
      /\ Cardinality(Zombies) <= Cardinality(Lost)
  BY FiniteTasks DEF CountInv, ZombiesReplaceLostTasks
<1>2. Cardinality(Zombies') <= Cardinality(Zombies) /\ Cardinality(Zombies') \in Nat
  BY <1>1, FS_Subset, FS_CardinalityType
<1>3. Cardinality(Lost) <= Cardinality(Lost') /\ Cardinality(Lost') \in Nat
  BY FS_Subset, FS_CardinalityType
<1> QED BY <1>1, <1>2, <1>3

LEMMA InitCountInv == Init => CountInv
<1> SUFFICES ASSUME Init PROVE CountInv
  OBVIOUS
<1>1. IsFiniteSet(started) /\ Zombies = {} /\ Lost = {}
  BY FS_EmptySet DEF Init, Zombies, Lost, Listed, ToSet
<1> QED BY <1>1, InitIInv, FS_EmptySet DEF CountInv, ZombiesReplaceLostTasks

LEMMA NextCountInv == ASSUME CountInv, [Next]_vars PROVE CountInv'
<1>1. IInv /\ IInv' /\ TypeOK /\ Listed \subseteq started
  BY NextIInv DEF CountInv, IInv
<1>2. IsFiniteSet(started')
  <2>1. started' = started \/ \E t \in Tasks : started' = started \cup {t}
    BY DEF Next, Run, Terminate, DelayFires, Dispatch, Crash, StartDelay, Return, ReturnEnd,
           ReturnOn, vars
  <2> QED BY <2>1, FS_AddElement DEF CountInv
<1>3. IsFiniteSet(Lost')
  BY <1>2, FS_Subset DEF Lost
<1>4. ASSUME NEW t \in Tasks, Run(t) PROVE ZombiesReplaceLostTasks'
  <2>1. Listed' = Listed \cup {t} /\ t \notin started /\ started' = started \cup {t}
    BY <1>1, <1>4, AppendInjectiveElement DEF Run, TypeOK, IInv, NoDuplicates, Listed
  <2>2. \A u \in Tasks : state'[u] = IF u = t THEN "Ready" ELSE state[u]
    BY <1>1, <1>4 DEF Run, TypeOK
  <2>3. Zombies' \subseteq Zombies /\ Lost \subseteq Lost'
    BY <1>1, <2>1, <2>2 DEF Zombies, Lost, TypeOK
  <2> QED BY <1>3, <2>3, KeepingCounts DEF ZombiesReplaceLostTasks
<1>5. ASSUME NEW t \in Tasks, Terminate(t) PROVE ZombiesReplaceLostTasks'
  BY <1>5, DropHeadCounts DEF Terminate, ZombiesReplaceLostTasks
<1>6. ASSUME Dispatch PROVE ZombiesReplaceLostTasks'
  <2> PICK i \in DOMAIN list : list' = Rotated(i)
    BY <1>6 DEF Dispatch
  <2>1. ToSet(list') = ToSet(list)
    BY <1>1, RotateInjective DEF TypeOK, IInv, NoDuplicates, Rotated
  <2>2. Zombies' = Zombies /\ Lost' = Lost
    BY <1>6, <2>1 DEF Dispatch, Zombies, Lost, Listed
  <2> QED BY <1>3, <2>2, KeepingCounts DEF ZombiesReplaceLostTasks
<1>7. ASSUME ReturnEnd PROVE ZombiesReplaceLostTasks'
  <2>1. current \in Tasks
    BY <1>1, <1>7 DEF ReturnEnd, TypeOK
  <2> QED BY <1>7, <2>1, DropHeadCounts DEF ReturnEnd, ZombiesReplaceLostTasks
<1>8. ASSUME ReturnOn PROVE ZombiesReplaceLostTasks'
  <2>1. PICK kind \in ReturnKinds \ {"End"} :
            state' = [state EXCEPT ![current] = NextState(kind)]
    BY <1>8 DEF ReturnOn
  <2>2. NextState(kind) = "Terminated" => state[current] = "Terminated"
    BY DEF NextState, ReturnKinds
  <2>3. \A u \in Tasks : state'[u] = "Terminated" => state[u] = "Terminated"
    BY <1>1, <2>1, <2>2 DEF TypeOK
  <2>4. list' = list /\ started' = started /\ Listed \subseteq Tasks /\ started \subseteq Tasks
    BY <1>1, <1>8 DEF ReturnOn, TypeOK
  <2>5. Zombies' \subseteq Zombies /\ Lost \subseteq Lost'
    BY <2>3, <2>4 DEF Zombies, Lost, Listed
  <2> QED BY <1>3, <2>5, KeepingCounts DEF ZombiesReplaceLostTasks
<1>9. ASSUME list' = list, state' = state, started' = started
      PROVE  ZombiesReplaceLostTasks'
  <2>1. Zombies' = Zombies /\ Lost' = Lost
    BY <1>9 DEF Zombies, Lost, Listed
  <2> QED BY <1>3, <2>1, KeepingCounts DEF ZombiesReplaceLostTasks
<1>10. ZombiesReplaceLostTasks'
  BY <1>4, <1>5, <1>6, <1>7, <1>8, <1>9
     DEF Next, DelayFires, Crash, StartDelay, Return, vars
<1> QED BY <1>1, <1>2, <1>10 DEF CountInv

(* Every task that has ended and is still scheduled stands for a live one  *)
(* that Vector::remove took in its place (runOneIteration, terminate).     *)
THEOREM EachZombieCostsATask == Spec => []ZombiesReplaceLostTasks
<1>1. Spec => []CountInv
  BY InitCountInv, NextCountInv, PTL DEF Spec
<1> QED BY <1>1, PTL DEF CountInv

-----------------------------------------------------------------------------
(* The reference counts stay of their type through every operation on a    *)
(* pointer (SharedPtr.h), and none of them is an access past the vector.   *)
HeapType == [count : [Tasks -> Nat], deleted : SUBSET Tasks,
             fault : {"none", "assert", "dangling"}]

LEMMA FaultIs ==
    ASSUME NEW h \in HeapType, NEW kind \in {"assert", "dangling"}
    PROVE  Fault(h, kind) \in HeapType
BY DEF Fault, HeapType

LEMMA TouchIs ==
    ASSUME NEW h \in HeapType, NEW p
    PROVE  Touch(h, p) \in HeapType
BY FaultIs DEF Touch

LEMMA ReleaseIs ==
    ASSUME NEW h \in HeapType, NEW p \in Tasks \cup {NoTask}
    PROVE  Release(h, p) \in HeapType
<1>1. CASE p = NoTask
  BY <1>1 DEF Release
<1>2. CASE p # NoTask /\ h.count[p] = 0
  BY <1>2, FaultIs DEF Release
<1>3. CASE p # NoTask /\ h.count[p] # 0
  <2>1. PICK n : n = h.count[p] - 1
    OBVIOUS
  <2>2. n \in Nat
    BY <1>3, <2>1 DEF HeapType
  <2>3. PICK gone : gone = IF h.count[p] = 1 THEN h.deleted \cup {p} ELSE h.deleted
    OBVIOUS
  <2>4. gone \in SUBSET Tasks
    BY <1>3, <2>3 DEF HeapType
  <2>5. Release(h, p) = [h EXCEPT !.count[p] = n, !.deleted = gone]
    BY <1>3, <2>1, <2>3 DEF Release
  <2> QED BY <2>2, <2>4, <2>5 DEF HeapType
<1> QED BY <1>1, <1>2, <1>3

LEMMA RetainIs ==
    ASSUME NEW h \in HeapType, NEW p \in Tasks
    PROVE  Retain(h, p) \in HeapType
<1>1. PICK n : n = (h.count[p] + 1) % CountLimit
  OBVIOUS
<1>2. n \in Nat
  BY <1>1, CountAssumption DEF HeapType
<1>3. [h EXCEPT !.count[p] = n] \in HeapType
  BY <1>2 DEF HeapType
<1> QED BY <1>1, <1>3, TouchIs DEF Retain

LEMMA AssignIs ==
    ASSUME NEW h \in HeapType, NEW old \in Tasks \cup {NoTask}, NEW new \in Tasks
    PROVE  Assign(h, old, new) \in HeapType
BY ReleaseIs, RetainIs DEF Assign

(* The search copies and drops a pointer at every slot up to the one it    *)
(* finds: the recursive function is the one that follows its own equation, *)
(* which exists, and its least value of another type has none before it.   *)
LEMMA SearchedIs ==
    ASSUME heap \in HeapType, NEW i \in Nat, \A k \in 1..i : slots[k] \in Tasks
    PROVE  Searched(i) \in HeapType
<1> DEFINE Step(g, k) == IF k = 0 THEN heap ELSE CopyAndDrop(g[k - 1], slots[k])
<1> DEFINE Follows(g, n) == g = [k \in 0..n |-> Step(g, k)]
<1>1. ASSUME NEW g, NEW n \in 0..i, Follows(g, n)
      PROVE  \A k \in 0..n : g[k] \in HeapType
  <2> DEFINE S == {k \in 0..n : g[k] \notin HeapType}
  <2> SUFFICES ASSUME S # {} PROVE FALSE
    OBVIOUS
  <2>0. S \in SUBSET Nat
    OBVIOUS
  <2>1. PICK k \in S : \A j \in S : k <= j
    <3> HIDE DEF S
    <3> QED BY <2>0, LeastElement
  <2>2. k \in 0..n /\ g[k] = Step(g, k)
    BY <1>1
  <2>3. k # 0
    BY <2>2
  <2>4. k \in 1..i /\ k - 1 \in 0..n /\ k - 1 \notin S
    BY <2>1, <2>2, <2>3
  <2>5. g[k] = CopyAndDrop(g[k - 1], slots[k]) /\ g[k - 1] \in HeapType
    BY <2>2, <2>3, <2>4
  <2> QED BY <2>4, <2>5, RetainIs, ReleaseIs DEF CopyAndDrop
<1>2. \E g : Follows(g, i)
  <2> DEFINE S == {n \in 0..i : ~\E g : Follows(g, n)}
  <2> SUFFICES ASSUME S # {} PROVE FALSE
    OBVIOUS
  <2>0. S \in SUBSET Nat
    OBVIOUS
  <2>1. PICK n \in S : \A m \in S : n <= m
    <3> HIDE DEF S
    <3> QED BY <2>0, LeastElement
  <2>2. n # 0
    <3>1. Follows([k \in 0..0 |-> heap], 0)
      OBVIOUS
    <3> QED BY <3>1
  <2>3. n - 1 \in 0..i /\ n - 1 \notin S
    BY <2>1, <2>2
  <2>4. PICK g : Follows(g, n - 1)
    BY <2>3
  <2> DEFINE f == [k \in 0..n |-> IF k = n THEN Step(g, n) ELSE g[k]]
  <2>5. \A k \in 0..n : f[k] = Step(f, k)
    <3>1. ASSUME NEW k \in 0..(n - 1) PROVE f[k] = Step(f, k)
      <4>1. f[k] = g[k] /\ g[k] = Step(g, k)
        BY <2>4
      <4>2. k # 0 => f[k - 1] = g[k - 1]
        OBVIOUS
      <4> QED BY <4>1, <4>2
    <3>2. f[n] = Step(f, n)
      <4>1. f[n - 1] = g[n - 1]
        BY <2>2
      <4> QED BY <2>2, <4>1
    <3>3. \A k \in 0..n : k \in 0..(n - 1) \/ k = n
      BY <2>2
    <3> HIDE DEF f, Step
    <3> QED BY <3>1, <3>2, <3>3
  <2>6. Follows(f, n)
    BY <2>5
  <2> QED BY <2>6
<1> HIDE DEF Step
<1> DEFINE after == CHOOSE g : g = [k \in 0..i |-> IF k = 0 THEN heap ELSE CopyAndDrop(g[k - 1], slots[k])]
<1>3. Searched(i) = after[i]
  BY DEF Searched
<1>4. Follows(after, i)
  BY <1>2 DEF Step
<1>5. i \in 0..i
  OBVIOUS
<1>6. after[i] \in HeapType
  <2> HIDE DEF after, Follows
  <2> QED BY <1>1, <1>4, <1>5
<1> QED BY <1>3, <1>6

(* Vector::erase moves the elements behind the gap down, and leaves what   *)
(* it pleases behind the end.                                              *)
LEMMA EraseIs ==
    ASSUME NEW S, NoTask \in S, NEW s \in Seq(S), NEW n \in 1..Len(s), NEW i \in 1..n
    PROVE  /\ Erase(s, n, i) \in Seq(S) /\ Len(Erase(s, n, i)) = Len(s)
           /\ \A j \in 1..(n - 1) : Erase(s, n, i)[j] = IF j < i THEN s[j] ELSE s[j + 1]
<1> DEFINE emptied == [s EXCEPT ![i] = NoTask]
<1> DEFINE e == [j \in 1..Len(s) |->
                   IF i < n /\ j \in i..(i + n - 2) /\ j < Len(s) THEN emptied[j + 1] ELSE emptied[j]]
<1>1. Len(s) \in Nat /\ s \in [1..Len(s) -> S] /\ n \in Nat /\ i \in Nat
  BY LenProperties
<1>2. /\ \A j \in 1..Len(s) : emptied[j] \in S
      /\ \A j \in 1..Len(s) : j # i => emptied[j] = s[j]
  BY <1>1
<1>3. \A j \in 1..Len(s) : j < Len(s) => j + 1 \in 1..Len(s)
  BY <1>1
<1>4. e \in [1..Len(s) -> S]
  <2> HIDE DEF emptied
  <2> QED BY <1>2, <1>3
<1>5. e \in Seq(S) /\ Len(e) = Len(s)
  <2> HIDE DEF e
  <2> QED BY <1>1, <1>4, LenProperties
<1>6. ASSUME NEW j \in 1..(n - 1) PROVE e[j] = IF j < i THEN s[j] ELSE s[j + 1]
  <2>1. j \in 1..Len(s) /\ j + 1 \in 1..Len(s) /\ j < Len(s)
    BY <1>1
  <2>2. CASE j < i
    <3>1. e[j] = emptied[j]
      BY <1>1, <2>1, <2>2
    <3> QED BY <1>2, <2>1, <2>2, <3>1
  <2>3. CASE j >= i
    <3>1. e[j] = emptied[j + 1] /\ j + 1 # i
      BY <1>1, <2>1, <2>3
    <3> QED BY <1>1, <1>2, <2>1, <2>3, <3>1
  <2> QED BY <1>1, <2>2, <2>3
<1>7. Erase(s, n, i) = e
  BY <1>1, LenProperties DEF Erase
<1> HIDE DEF e
<1> QED BY <1>5, <1>6, <1>7

(* A vector that is full is grown.                                         *)
LEMMA GrownIs ==
    ASSUME NEW S, NoTask \in S, slots \in Seq(S), size \in Nat, size <= Len(slots)
    PROVE  /\ Grown \in Seq(S) /\ Len(Grown) \in Nat /\ size < Len(Grown)
           /\ \A j \in 1..size : Grown[j] = slots[j]
           /\ Len(Grown) = IF size < Len(slots) THEN Len(slots)
                           ELSE IF size = 0 THEN 1 ELSE 2 * size
<1>1. Len(slots) \in Nat /\ (slots = <<>> <=> Len(slots) = 0)
  BY LenProperties, EmptySeq
<1>2. CASE size < Len(slots)
  BY <1>1, <1>2 DEF Grown
<1>3. CASE size = Len(slots)
  <2>1. PICK n : n = IF slots = <<>> THEN 1 ELSE Len(slots)
    OBVIOUS
  <2>2. n \in Nat /\ n > 0
    BY <1>1, <2>1
  <2>3. [j \in 1..n |-> NoTask] \in Seq(S) /\ Len([j \in 1..n |-> NoTask]) = n
    BY <2>2, LenProperties
  <2>4. Grown = slots \o [j \in 1..n |-> NoTask]
    BY <1>3, <2>1 DEF Grown
  <2> QED BY <1>1, <1>3, <2>1, <2>2, <2>3, <2>4, ConcatProperties
<1> QED BY <1>1, <1>2, <1>3

-----------------------------------------------------------------------------
(* The slots in use hold the list.                                         *)
Holds(s, n, l) == n = Len(l) /\ n <= Len(s) /\ \A j \in 1..n : s[j] = l[j]

Pointers == Tasks \cup {NoTask}

(* Vector::push_back writes the first slot that is not in use.             *)
LEMMA PushBackIs ==
    ASSUME NEW s \in Seq(Pointers), NEW n \in Nat, n < Len(s), NEW t \in Pointers
    PROVE  /\ PushBack(s, n, t) \in Seq(Pointers) /\ Len(PushBack(s, n, t)) = Len(s)
           /\ PushBack(s, n, t)[n + 1] = t
           /\ \A j \in 1..n : PushBack(s, n, t)[j] = s[j]
<1>1. Len(s) \in Nat /\ n + 1 \in 1..Len(s)
  BY LenProperties
<1> QED BY <1>1, ExceptSeq, LenProperties DEF PushBack

MemInv ==
    /\ IInv
    /\ slots \in Seq(Pointers)
    /\ size \in Nat
    /\ Holds(slots, size, list)

(* Three tasks fit in four slots, whose erasures stay within them.         *)
FewTasks == MaxListed <= 3

FewInv == MemInv /\ heap \in HeapType /\ size <= 3 /\ Len(slots) \in {0, 1, 2, 4}

(* Vector::remove erases the first slot of the list it shortens.           *)
LEMMA RemoveHeadIs ==
    ASSUME MemInv, NEW h, RemoveHead(h), NEW t, list' = RemoveTask(t)
    PROVE  /\ slots' \in Seq(Pointers) /\ Len(slots') = Len(slots)
           /\ size' \in Nat /\ size' <= size /\ Holds(slots', size', list') /\ heap' = h
<1>1. /\ list \in Seq(Tasks) /\ slots \in Seq(Pointers) /\ size \in Nat /\ Len(slots) \in Nat
      /\ size = Len(list) /\ size <= Len(slots) /\ \A j \in 1..size : slots[j] = list[j]
  BY LenProperties DEF MemInv, IInv, TypeOK, Holds
<1>2. CASE size = 0
  <2>1. list = <<>>
    BY <1>1, <1>2, EmptySeq
  <2>2. list' = list /\ slots' = slots /\ size' = size /\ heap' = h
    BY <1>2, <2>1 DEF RemoveTask, RemoveHead
  <2> QED BY <1>1, <2>2 DEF Holds
<1>3. CASE size # 0
  <2>1. /\ list' = RemoveAt(list, 1) /\ slots' = Erase(slots, size, 1) /\ size' = size - 1
        /\ heap' = h
    BY <1>1, <1>3, EmptySeq DEF RemoveTask, RemoveHead
  <2>2. NoTask \in Pointers /\ size \in 1..Len(slots) /\ 1 \in 1..size
    BY <1>1, <1>3 DEF Pointers
  <2>3. /\ slots' \in Seq(Pointers) /\ Len(slots') = Len(slots)
        /\ \A j \in 1..(size - 1) : slots'[j] = slots[j + 1]
    BY <1>1, <2>1, <2>2, EraseIs
  <2>4. Len(list') = size - 1 /\ \A j \in 1..(size - 1) : list'[j] = list[j + 1]
    <3>1. 1 \in DOMAIN list
      BY <1>1, <1>3
    <3>2. /\ Len(RemoveAt(list, 1)) = Len(list) - 1
          /\ \A j \in 1..(Len(list) - 1) :
                RemoveAt(list, 1)[j] = IF j < 1 THEN list[j] ELSE list[j + 1]
      BY <1>1, <3>1, RemoveAtElements
    <3> QED BY <1>1, <2>1, <3>2
  <2>5. \A j \in 1..(size - 1) : j + 1 \in 1..size
    BY <1>1
  <2> QED BY <1>1, <1>3, <2>1, <2>3, <2>4, <2>5 DEF Holds
<1> QED BY <1>2, <1>3

(* run() pushes the task behind the slots in use, which grow by one.       *)
LEMMA MemRunStep ==
    ASSUME MemInv, NEW t \in Tasks, MemRun(t)
    PROVE  /\ slots' \in Seq(Pointers) /\ size' = size + 1 /\ Holds(slots', size', list')
           /\ size < MaxListed /\ Len(slots') = Len(Grown)
           /\ Len(Grown) = IF size < Len(slots) THEN Len(slots)
                           ELSE IF size = 0 THEN 1 ELSE 2 * size
           /\ heap \in HeapType => heap' \in HeapType
<1>1. /\ list \in Seq(Tasks) /\ slots \in Seq(Pointers) /\ size \in Nat
      /\ size = Len(list) /\ size <= Len(slots) /\ \A j \in 1..size : slots[j] = list[j]
  BY DEF MemInv, IInv, TypeOK, Holds
<1>2. /\ list' = Append(list, t) /\ size < MaxListed /\ size' = size + 1
      /\ slots' = PushBack(Grown, size, t)
  BY <1>1 DEF MemRun, Run
<1>3. /\ Grown \in Seq(Pointers) /\ Len(Grown) \in Nat /\ size < Len(Grown)
      /\ \A j \in 1..size : Grown[j] = slots[j]
      /\ Len(Grown) = IF size < Len(slots) THEN Len(slots) ELSE IF size = 0 THEN 1 ELSE 2 * size
  BY <1>1, GrownIs DEF Pointers
<1>4. /\ slots' \in Seq(Pointers) /\ Len(slots') = Len(Grown) /\ slots'[size + 1] = t
      /\ \A j \in 1..size : slots'[j] = Grown[j]
  <2>1. t \in Pointers /\ NoTask \in Pointers
    BY DEF Pointers
  <2>2. PICK s \in Seq(Pointers) : s = Grown /\ size < Len(s)
    BY <1>3
  <2>3. /\ PushBack(s, size, t) \in Seq(Pointers) /\ Len(PushBack(s, size, t)) = Len(s)
        /\ PushBack(s, size, t)[size + 1] = t
        /\ \A j \in 1..size : PushBack(s, size, t)[j] = s[j]
    BY <1>1, <2>1, <2>2, PushBackIs
  <2> QED BY <1>2, <2>2, <2>3
<1>5. /\ Len(list') = size + 1 /\ list'[size + 1] = t
      /\ \A j \in 1..size : list'[j] = list[j]
  BY <1>1, <1>2, AppendProperties
<1>6. Holds(slots', size', list')
  <2>1. \A j \in 1..(size + 1) : j \in 1..size \/ j = size + 1
    BY <1>1
  <2>2. \A j \in 1..(size + 1) : slots'[j] = list'[j]
    BY <1>1, <1>3, <1>4, <1>5, <2>1
  <2>3. size + 1 <= Len(Grown)
    BY <1>1, <1>3
  <2> QED BY <1>2, <1>4, <1>5, <2>2, <2>3 DEF Holds
<1>7. ASSUME heap \in HeapType PROVE heap' \in HeapType
  <2>1. [heap EXCEPT !.count[t] = 1] \in HeapType
    BY <1>7 DEF HeapType
  <2>2. Grown[size + 1] \in Pointers
    BY <1>1, <1>3, ElementOfSeq
  <2> QED BY <2>1, <2>2, AssignIs DEF MemRun, Pointers
<1> QED BY <1>2, <1>3, <1>4, <1>6, <1>7

(* The pick finds in the slots the task it finds in the list; a Ready one  *)
(* is erased there and pushed back.                                        *)
LEMMA MemDispatchStep ==
    ASSUME MemInv, MemDispatch
    PROVE  /\ slots' \in Seq(Pointers) /\ Len(slots') = Len(slots)
           /\ size' = size /\ Holds(slots', size', list')
           /\ FewInv => heap' \in HeapType
<1>1. /\ list \in Seq(Tasks) /\ slots \in Seq(Pointers) /\ size \in Nat /\ Len(slots) \in Nat
      /\ size = Len(list) /\ size <= Len(slots) /\ \A j \in 1..size : slots[j] = list[j]
      /\ current \in Pointers /\ NoTask \in Pointers
  BY LenProperties DEF MemInv, IInv, TypeOK, Holds, Pointers
<1>2. PICK i \in 1..size :
        /\ StopsAt(i)
        /\ LET found   == slots[i]
               chosen  == Assign(Searched(i), current, found)
               gap     == IF Overruns(slots, size, i) THEN Fault(chosen, "overrun") ELSE chosen
               shifted == Erase(slots, size, i)
           IN  IF state[found] = "Ready"
               THEN /\ slots' = PushBack(shifted, size - 1, found)
                    /\ heap' = Assign(gap, shifted[size], found)
               ELSE /\ heap' = chosen
                    /\ UNCHANGED slots
  BY DEF MemDispatch
<1>3. PICK k \in DOMAIN list : StopsAt(k) /\ Runnable(list[k]) /\ list' = Rotated(k)
  BY DEF MemDispatch, Dispatch
<1>4. i = k
  <2>1. k \in 1..size /\ (i < k => i \in 1..(k - 1)) /\ (k < i => k \in 1..(i - 1))
    BY <1>1
  <2> QED BY <1>1, <1>2, <1>3, <2>1 DEF StopsAt
<1>5. size' = size
  BY DEF MemDispatch
<1>6. PICK found \in Tasks : found = list[i] /\ found = slots[i]
  BY <1>1, <1>2, ElementOfSeq
<1>7. PICK chosen : chosen = Assign(Searched(i), current, found)
  OBVIOUS
<1>8. FewInv => chosen \in HeapType
  <2>1. \A j \in 1..i : slots[j] \in Tasks
    BY <1>1, ElementOfSeq
  <2>2. FewInv => Searched(i) \in HeapType
    BY <1>1, <2>1, SearchedIs DEF FewInv
  <2> QED BY <1>1, <1>6, <1>7, <2>2, AssignIs DEF Pointers
<1>9. CASE state[found] = "Ready"
  <2>1. PICK shifted : shifted = Erase(slots, size, i)
    OBVIOUS
  <2>2. /\ shifted \in Seq(Pointers) /\ Len(shifted) = Len(slots)
        /\ \A j \in 1..(size - 1) : shifted[j] = IF j < i THEN slots[j] ELSE slots[j + 1]
    <3>1. size \in 1..Len(slots)
      BY <1>1
    <3> QED BY <1>1, <2>1, <3>1, EraseIs
  <2>3. slots' = PushBack(shifted, size - 1, found)
    BY <1>2, <1>6, <1>9, <2>1
  <2>4. /\ slots' \in Seq(Pointers) /\ Len(slots') = Len(slots) /\ slots'[size] = found
        /\ \A j \in 1..(size - 1) : slots'[j] = shifted[j]
    <3>1. size - 1 \in Nat /\ size - 1 < Len(shifted) /\ found \in Pointers /\ (size - 1) + 1 = size
      BY <1>1, <2>2 DEF Pointers
    <3>2. /\ slots' \in Seq(Pointers) /\ Len(slots') = Len(shifted) /\ slots'[(size - 1) + 1] = found
          /\ \A j \in 1..(size - 1) : slots'[j] = shifted[j]
      <4>1. PICK n \in Nat : n = size - 1 /\ n < Len(shifted)
        BY <3>1
      <4>2. /\ PushBack(shifted, n, found) \in Seq(Pointers)
            /\ Len(PushBack(shifted, n, found)) = Len(shifted)
            /\ PushBack(shifted, n, found)[n + 1] = found
            /\ \A j \in 1..n : PushBack(shifted, n, found)[j] = shifted[j]
        BY <2>2, <3>1, <4>1, PushBackIs
      <4> QED BY <2>3, <4>1, <4>2
    <3> QED BY <2>2, <3>1, <3>2
  <2>5. list' = Append(RemoveAt(list, i), found)
    BY <1>3, <1>4, <1>6, <1>9 DEF Rotated
  <2>6. /\ RemoveAt(list, i) \in Seq(Tasks) /\ Len(RemoveAt(list, i)) = size - 1
        /\ \A j \in 1..(size - 1) : RemoveAt(list, i)[j] = IF j < i THEN list[j] ELSE list[j + 1]
    BY <1>1, <1>3, <1>4, RemoveAtElements
  <2>7. /\ Len(list') = size /\ list'[size] = found
        /\ \A j \in 1..(size - 1) : list'[j] = IF j < i THEN list[j] ELSE list[j + 1]
    BY <1>1, <2>5, <2>6, AppendProperties
  <2>8. Holds(slots', size', list')
    <3>1. \A j \in 1..size : j \in 1..(size - 1) \/ j = size
      BY <1>1
    <3>2. \A j \in 1..(size - 1) : j \in 1..size /\ j + 1 \in 1..size
      BY <1>1
    <3>3. \A j \in 1..(size - 1) : slots'[j] = list'[j]
      BY <1>1, <2>2, <2>4, <2>7, <3>2
    <3>4. \A j \in 1..size : slots'[j] = list'[j]
      BY <2>4, <2>7, <3>1, <3>3
    <3> QED BY <1>1, <1>5, <2>4, <2>7, <3>4 DEF Holds
  <2>9. ASSUME FewInv PROVE heap' \in HeapType
    <3>1. ~Overruns(slots, size, i)
      <4>1. size <= 3 /\ Len(slots) \in {0, 1, 2, 4}
        BY <2>9 DEF FewInv
      <4> QED BY <1>1, <4>1 DEF Overruns
    <3>2. heap' = Assign(chosen, shifted[size], found)
      BY <1>2, <1>6, <1>7, <1>9, <2>1, <3>1
    <3>3. shifted[size] \in Pointers
      BY <1>1, <2>2, ElementOfSeq
    <3> QED BY <1>6, <1>8, <2>9, <3>2, <3>3, AssignIs DEF Pointers
  <2> QED BY <1>5, <2>4, <2>8, <2>9
<1>10. CASE state[found] # "Ready"
  <2>1. slots' = slots /\ heap' = chosen
    BY <1>2, <1>6, <1>7, <1>10
  <2>2. list' = list
    BY <1>3, <1>4, <1>6, <1>10 DEF Rotated
  <2> QED BY <1>1, <1>5, <1>8, <2>1, <2>2 DEF Holds
<1> QED BY <1>9, <1>10

LEMMA MemInitInv == MemInit => MemInv
<1> SUFFICES ASSUME MemInit PROVE MemInv
  OBVIOUS
<1>1. IInv
  BY InitIInv DEF MemInit
<1>2. list = <<>> /\ slots = <<>> /\ size = 0
  BY DEF MemInit, Init
<1> QED BY <1>1, <1>2 DEF MemInv, Holds

LEMMA MemInvHolds ==
    ASSUME MemInv PROVE list = SubSeq(slots, 1, size)
<1>1. /\ list \in Seq(Tasks) /\ slots \in Seq(Pointers) /\ size \in Nat /\ Len(slots) \in Nat
      /\ size = Len(list) /\ size <= Len(slots) /\ \A j \in 1..size : slots[j] = list[j]
  BY LenProperties DEF MemInv, IInv, TypeOK, Holds
<1>2. /\ SubSeq(slots, 1, size) \in Seq(Pointers) /\ Len(SubSeq(slots, 1, size)) = size
      /\ \A j \in 1..size : SubSeq(slots, 1, size)[j] = slots[j]
  BY <1>1, SubSeqProperties
<1>3. list \in Seq(Pointers)
  BY <1>1 DEF Pointers
<1> QED BY <1>1, <1>2, <1>3, SeqEqual

LEMMA MemStep ==
    ASSUME MemInv, [MemNext]_<<vars, memVars>>
    PROVE  MemInv'
<1>1. IInv'
  <2>1. [Next]_vars
    BY DEF MemNext, MemRun, MemTerminate, MemDispatch, MemReturnEnd, MemOther, Next, Return
  <2> QED BY <2>1, NextIInv DEF MemInv
<1>2. slots \in Seq(Pointers) /\ size \in Nat /\ Holds(slots, size, list)
  BY DEF MemInv
<1>3. ASSUME NEW t \in Tasks, MemRun(t) PROVE MemInv'
  BY <1>1, <1>2, <1>3, MemRunStep DEF MemInv
<1>4. ASSUME NEW t \in Tasks, MemTerminate(t) PROVE MemInv'
  <2>1. list' = RemoveTask(t) /\ RemoveHead(Release(Touch(heap, t), t))
    BY <1>4 DEF MemTerminate, Terminate
  <2> QED BY <1>1, <2>1, RemoveHeadIs DEF MemInv
<1>5. CASE MemDispatch
  BY <1>1, <1>2, <1>5, MemDispatchStep DEF MemInv
<1>6. CASE MemReturnEnd
  <2>1. list' = RemoveTask(current) /\ \E h : RemoveHead(h)
    BY <1>6 DEF MemReturnEnd, ReturnEnd
  <2> QED BY <1>1, <2>1, RemoveHeadIs DEF MemInv
<1>7. CASE MemOther \/ UNCHANGED <<vars, memVars>>
  <2>1. UNCHANGED <<slots, size, list>>
    BY <1>7 DEF MemOther, memVars, vars, DelayFires, Crash, StartDelay, ReturnOn
  <2> QED BY <1>1, <1>2, <2>1 DEF MemInv, Holds
<1> QED BY <1>3, <1>4, <1>5, <1>6, <1>7 DEF MemNext

LEMMA FewStep ==
    ASSUME FewTasks, FewInv, [MemNext]_<<vars, memVars>>
    PROVE  FewInv'
<1>1. MemInv /\ MemInv' /\ heap \in HeapType /\ size <= 3 /\ Len(slots) \in {0, 1, 2, 4}
  BY MemStep DEF FewInv
<1>2. size \in Nat /\ size <= Len(slots) /\ MaxListed \in Nat /\ IInv
  BY <1>1, TasksAssumption DEF MemInv, Holds
<1>3. ASSUME NEW t \in Tasks, MemRun(t) PROVE FewInv'
  <2>1. /\ size' = size + 1 /\ size < MaxListed /\ heap' \in HeapType
        /\ Len(slots') = IF size < Len(slots) THEN Len(slots) ELSE IF size = 0 THEN 1 ELSE 2 * size
    BY <1>1, <1>3, MemRunStep
  <2>2. size' <= 3 /\ Len(slots') \in {0, 1, 2, 4}
    BY <1>1, <1>2, <2>1 DEF FewTasks
  <2> QED BY <1>1, <2>1, <2>2 DEF FewInv
<1>4. ASSUME NEW h \in HeapType, NEW t, RemoveHead(h), list' = RemoveTask(t) PROVE FewInv'
  <2>1. Len(slots') = Len(slots) /\ size' \in Nat /\ size' <= size /\ heap' = h
    BY <1>1, <1>4, RemoveHeadIs
  <2>2. size' <= 3
    BY <1>1, <1>2, <2>1
  <2> QED BY <1>1, <1>4, <2>1, <2>2 DEF FewInv
<1>5. ASSUME NEW t \in Tasks, MemTerminate(t) PROVE FewInv'
  <2>1. list' = RemoveTask(t) /\ RemoveHead(Release(Touch(heap, t), t))
    BY <1>5 DEF MemTerminate, Terminate
  <2>2. Release(Touch(heap, t), t) \in HeapType
    BY <1>1, TouchIs, ReleaseIs
  <2> QED BY <1>4, <2>1, <2>2
<1>6. CASE MemDispatch
  <2>1. Len(slots') = Len(slots) /\ size' = size /\ heap' \in HeapType
    BY <1>1, <1>6, MemDispatchStep DEF FewInv
  <2> QED BY <1>1, <2>1 DEF FewInv
<1>7. CASE MemReturnEnd
  <2>1. PICK owner : /\ owner = IF current \in handle THEN Release(heap, current) ELSE heap
                     /\ RemoveHead(Release(owner, current))
    BY <1>7 DEF MemReturnEnd
  <2>2. current \in Tasks \cup {NoTask} /\ list' = RemoveTask(current)
    BY <1>2, <1>7 DEF MemReturnEnd, ReturnEnd, IInv, TypeOK
  <2>3. Release(owner, current) \in HeapType
    <3>1. owner \in HeapType
      BY <1>1, <2>1, <2>2, ReleaseIs
    <3> QED BY <2>2, <3>1, ReleaseIs
  <2> QED BY <1>4, <2>1, <2>2, <2>3
<1>8. CASE MemOther \/ UNCHANGED <<vars, memVars>>
  <2>1. UNCHANGED <<slots, size, heap>>
    BY <1>8 DEF MemOther, memVars
  <2> QED BY <1>1, <2>1 DEF FewInv
<1> QED BY <1>3, <1>5, <1>6, <1>7, <1>8 DEF MemNext

(* The slots in use are the list that the scheduler works with, for any    *)
(* number of tasks and whatever stale copies the erasures leave behind     *)
(* them (Vector::erase, Vector::push_back).                                *)
THEOREM SlotsHoldTheList == MemSpec => [](list = SubSeq(slots, 1, size))
<1>1. MemInit => MemInv
  BY MemInitInv
<1>2. MemInv /\ [MemNext]_<<vars, memVars>> => MemInv'
  BY MemStep
<1>3. MemInv => list = SubSeq(slots, 1, size)
  BY MemInvHolds
<1> QED BY <1>1, <1>2, <1>3, PTL DEF MemSpec

(* With up to three tasks no erasure leaves the vector's capacity, in any  *)
(* order of calls, yields and ends.                                        *)
THEOREM FewTasksStayInTheirSlots ==
    ASSUME FewTasks PROVE MemSpec => []ListIsSlots
<1>1. MemInit => FewInv
  <2> SUFFICES ASSUME MemInit PROVE FewInv
    OBVIOUS
  <2>1. MemInv
    BY MemInitInv
  <2>2. heap \in HeapType
    BY DEF MemInit, HeapType
  <2> QED BY <2>1, <2>2 DEF MemInit, FewInv
<1>2. FewInv /\ [MemNext]_<<vars, memVars>> => FewInv'
  BY FewStep
<1>3. FewInv => ListIsSlots
  BY MemInvHolds DEF FewInv, HeapType, ListIsSlots
<1> QED BY <1>1, <1>2, <1>3, PTL DEF MemSpec
-----------------------------------------------------------------------------
(* Shells that come and go.  What a count is bounded by from below are the *)
(* releases that are still to come: by the handle of an open connection,   *)
(* by _currentTask, and by the next push_back over the second slot,        *)
(* whether that is in use or stale; the first slot is never released.      *)
Open(t)   == IF t \in handle \ told THEN 1 ELSE 0
Chosen(t) == IF current = t THEN 1 ELSE 0
Second(t) == IF Len(slots) = 2 /\ slots[2] = t THEN 1 ELSE 0

(* A Ready shell is moved to the back once, which leaves it one reference  *)
(* that nobody has; so does the first slot.                                *)
Turned(t) == IF state[t] # "Ready" \/ (pc = "executing" /\ current = t) THEN 1 ELSE 0

Due  == [t \in Tasks |-> Open(t) + Chosen(t) + Second(t)]
Most == [t \in Tasks |-> Open(t) + Chosen(t) + 1 + Turned(t)]

(* A heap whose counts are in between, and in which what is deleted is not *)
(* counted any more and not held by an open connection.                    *)
Within(h, lo, hi, open) ==
    /\ h \in HeapType
    /\ h.fault # "assert"
    /\ \A t \in Tasks : lo[t] <= h.count[t] /\ h.count[t] <= hi[t]
    /\ h.fault = "none" => \A t \in h.deleted : h.count[t] = 0
    /\ \A t \in open : t \notin h.deleted

Less(n, p) == [t \in Tasks |-> IF t = p THEN n[t] - 1 ELSE n[t]]
More(n, p) == [t \in Tasks |-> IF t = p THEN n[t] + 1 ELSE n[t]]

(* A reference that is due may be released, unless it is the last one of   *)
(* an open connection.                                                     *)
LEMMA ReleaseWithin ==
    ASSUME NEW h, NEW lo \in [Tasks -> Int], NEW hi \in [Tasks -> Int], NEW open \in SUBSET Tasks,
           Within(h, lo, hi, open), NEW p \in Pointers,
           p # NoTask => lo[p] >= 1, p \in open => lo[p] >= 2
    PROVE  /\ Within(Release(h, p), Less(lo, p), Less(hi, p), open)
           /\ Less(lo, p) \in [Tasks -> Int] /\ Less(hi, p) \in [Tasks -> Int]
           /\ Release(h, p).deleted \subseteq h.deleted \cup {p}
<1>1. /\ h \in HeapType /\ h.fault # "assert" /\ h.count \in [Tasks -> Nat]
      /\ h.deleted \in SUBSET Tasks
      /\ \A t \in Tasks : lo[t] <= h.count[t] /\ h.count[t] <= hi[t]
      /\ h.fault = "none" => \A t \in h.deleted : h.count[t] = 0
      /\ \A t \in open : t \notin h.deleted
  BY DEF Within, HeapType
<1>2. Less(lo, p) \in [Tasks -> Int] /\ Less(hi, p) \in [Tasks -> Int]
  BY DEF Less
<1>3. CASE p = NoTask
  <2>1. NoTask \notin Tasks
    BY TasksAssumption
  <2>2. \A t \in Tasks : Less(lo, p)[t] = lo[t] /\ Less(hi, p)[t] = hi[t]
    BY <1>3, <2>1 DEF Less
  <2>3. Release(h, p) = h
    BY <1>3 DEF Release
  <2>4. Within(h, Less(lo, p), Less(hi, p), open)
    BY <1>1, <2>2 DEF Within
  <2> QED BY <1>2, <2>3, <2>4
<1>4. CASE p # NoTask
  <2>1. PICK q \in Tasks : q = p
    BY <1>4 DEF Pointers
  <2>2. lo[q] >= 1 /\ lo[q] \in Int /\ h.count[q] \in Nat /\ h.count[q] >= 1
    BY <1>1, <1>4, <2>1
  <2>3. PICK n \in Nat : n = h.count[q] - 1
    BY <2>2
  <2>4. PICK gone : gone = IF h.count[q] = 1 THEN h.deleted \cup {q} ELSE h.deleted
    OBVIOUS
  <2>5. PICK r : r = Release(h, q)
    OBVIOUS
  <2>6. r = [h EXCEPT !.count[q] = n, !.deleted = gone]
    BY <1>4, <2>1, <2>2, <2>3, <2>4, <2>5 DEF Release
  <2>7. gone \in SUBSET Tasks /\ gone \subseteq h.deleted \cup {q}
    BY <1>1, <2>4
  <2>8. r \in HeapType /\ r.deleted = gone /\ r.fault = h.fault
    BY <1>1, <2>3, <2>6, <2>7 DEF HeapType
  <2>9. /\ r.count[q] = n
        /\ \A t \in Tasks : t # q => r.count[t] = h.count[t]
    BY <1>1, <2>3, <2>6 DEF HeapType
  <2>10. ASSUME NEW t \in Tasks
         PROVE  Less(lo, p)[t] <= r.count[t] /\ r.count[t] <= Less(hi, p)[t]
    <3>1. lo[t] \in Int /\ hi[t] \in Int /\ h.count[t] \in Nat
      BY <1>1
    <3> QED BY <1>1, <2>1, <2>3, <2>9, <3>1 DEF Less
  <2>11. ASSUME r.fault = "none", NEW t \in r.deleted PROVE r.count[t] = 0
    <3>1. \A u \in h.deleted : h.count[u] = 0 /\ u # q /\ u \in Tasks
      BY <1>1, <2>2, <2>8, <2>11
    <3>2. t \in h.deleted \/ (t = q /\ h.count[q] = 1)
      BY <2>4, <2>8, <2>11
    <3> QED BY <2>3, <2>9, <3>1, <3>2
  <2>12. ASSUME NEW t \in open PROVE t \notin r.deleted
    <3>1. t = q => h.count[q] >= 2
      BY <1>1, <2>1, <2>2
    <3> QED BY <1>1, <2>4, <2>8, <3>1
  <2>13. Within(r, Less(lo, p), Less(hi, p), open)
    BY <1>1, <2>8, <2>10, <2>11, <2>12 DEF Within
  <2> QED BY <1>2, <2>1, <2>5, <2>7, <2>8, <2>13
<1> QED BY <1>3, <1>4

(* A reference is added, and using a deleted task is a fault of its own.   *)
LEMMA RetainWithin ==
    ASSUME NEW h, NEW lo \in [Tasks -> Int], NEW hi \in [Tasks -> Int], NEW open \in SUBSET Tasks,
           Within(h, lo, hi, open), NEW p \in Tasks, hi[p] + 1 < CountLimit
    PROVE  /\ Within(Retain(h, p), More(lo, p), More(hi, p), open)
           /\ More(lo, p) \in [Tasks -> Int] /\ More(hi, p) \in [Tasks -> Int]
           /\ Retain(h, p).deleted = h.deleted
<1>1. /\ h \in HeapType /\ h.fault # "assert" /\ h.count \in [Tasks -> Nat]
      /\ h.deleted \in SUBSET Tasks
      /\ \A t \in Tasks : lo[t] <= h.count[t] /\ h.count[t] <= hi[t]
      /\ h.fault = "none" => \A t \in h.deleted : h.count[t] = 0
      /\ \A t \in open : t \notin h.deleted
  BY DEF Within, HeapType
<1>2. More(lo, p) \in [Tasks -> Int] /\ More(hi, p) \in [Tasks -> Int]
  BY DEF More
<1>3. PICK n \in Nat : n = h.count[p] + 1 /\ n = (h.count[p] + 1) % CountLimit
  <2>1. h.count[p] \in Nat /\ h.count[p] + 1 < CountLimit /\ CountLimit \in Nat
    BY <1>1, CountAssumption
  <2> QED BY <2>1
<1>4. PICK g : g = [h EXCEPT !.count[p] = n]
  OBVIOUS
<1>5. /\ g \in HeapType /\ g.deleted = h.deleted /\ g.fault = h.fault /\ g.count[p] = n
      /\ \A t \in Tasks : t # p => g.count[t] = h.count[t]
  BY <1>1, <1>3, <1>4 DEF HeapType
<1>6. PICK r : r = Retain(h, p)
  OBVIOUS
<1>7. r = Touch(g, p)
  BY <1>3, <1>4, <1>6 DEF Retain
<1>8. /\ r \in HeapType /\ r.deleted = h.deleted /\ r.fault # "assert"
      /\ \A t \in Tasks : r.count[t] = g.count[t]
      /\ r.fault = "none" => h.fault = "none" /\ p \notin h.deleted
  <2>1. CASE p \in h.deleted
    <3>1. PICK f \in {"none", "dangling"} : f = IF g.fault = "none" THEN "dangling" ELSE g.fault
      BY <1>1, <1>5 DEF HeapType
    <3>2. r = [g EXCEPT !.fault = f]
      BY <1>5, <1>7, <2>1, <3>1 DEF Touch, Fault
    <3>3. f # "none"
      BY <3>1
    <3> QED BY <1>5, <3>1, <3>2, <3>3 DEF HeapType
  <2>2. CASE p \notin h.deleted
    <3>1. r = g
      BY <1>5, <1>7, <2>2 DEF Touch
    <3> QED BY <1>1, <1>5, <2>2, <3>1
  <2> QED BY <2>1, <2>2
<1>9. ASSUME NEW t \in Tasks
      PROVE  More(lo, p)[t] <= r.count[t] /\ r.count[t] <= More(hi, p)[t]
  <2>1. lo[t] \in Int /\ hi[t] \in Int /\ h.count[t] \in Nat
    BY <1>1
  <2> QED BY <1>1, <1>3, <1>5, <1>8, <2>1 DEF More
<1>10. ASSUME r.fault = "none", NEW t \in r.deleted PROVE r.count[t] = 0
  BY <1>1, <1>5, <1>8, <1>10
<1>11. Within(r, More(lo, p), More(hi, p), open)
  BY <1>1, <1>8, <1>9, <1>10 DEF Within
<1> QED BY <1>2, <1>6, <1>8, <1>11

(* What is known of shells besides.                                        *)
ShellInv ==
    /\ started \subseteq Loaded
    /\ pc \in {"idle", "executing"}
    /\ \A t \in Tasks : delayComplete[t]
    /\ armed = {}
    /\ size <= 2 /\ Len(slots) <= 2
    /\ slots # <<>> /\ size = 0 => slots[1] = NoTask
    /\ heap.deleted \subseteq started /\ handle \subseteq started /\ told \subseteq started
    /\ \A i \in 1..Len(slots) : slots[i] # NoTask => slots[i] \in started
    /\ current # NoTask => current \in started
    /\ Within(heap, Due, Most, handle \ told)

(* The largest count is five, of a shell in the search.                    *)
CountsSuffice == CountLimit >= 6

(* The two bounds of a shell's count, and their terms.                     *)
LEMMA BoundsAre ==
    ASSUME MemInv
    PROVE  /\ Due \in [Tasks -> Int] /\ Most \in [Tasks -> Int]
           /\ \A t \in Tasks :
                /\ Due[t] = Open(t) + Chosen(t) + Second(t)
                /\ Most[t] = Open(t) + Chosen(t) + 1 + Turned(t)
                /\ Open(t) \in {0, 1} /\ Chosen(t) \in {0, 1} /\ Second(t) \in {0, 1}
                /\ Turned(t) \in {0, 1}
<1>1. \A t \in Tasks : Open(t) \in {0, 1} /\ Chosen(t) \in {0, 1} /\ Second(t) \in {0, 1}
                       /\ Turned(t) \in {0, 1}
  BY DEF Open, Chosen, Second, Turned
<1>2. /\ Due = [t \in Tasks |-> Open(t) + Chosen(t) + Second(t)]
      /\ Most = [t \in Tasks |-> Open(t) + Chosen(t) + 1 + Turned(t)]
  BY DEF Due, Most
<1>3. \A t \in Tasks : Open(t) + Chosen(t) + Second(t) \in Int /\ Open(t) + Chosen(t) + 1 + Turned(t) \in Int
  BY <1>1
<1> QED BY <1>1, <1>2, <1>3

(* The bounds may be taken apart further than they were.                   *)
LEMMA WithinWider ==
    ASSUME NEW h, NEW lo \in [Tasks -> Int], NEW hi \in [Tasks -> Int], NEW open \in SUBSET Tasks,
           Within(h, lo, hi, open), NEW lo2 \in [Tasks -> Int], NEW hi2 \in [Tasks -> Int],
           \A t \in Tasks : lo2[t] <= lo[t] /\ hi[t] <= hi2[t], NEW few \in SUBSET open
    PROVE  Within(h, lo2, hi2, few)
<1>1. h \in HeapType /\ \A t \in Tasks : lo[t] <= h.count[t] /\ h.count[t] <= hi[t]
  BY DEF Within
<1>2. ASSUME NEW t \in Tasks PROVE lo2[t] <= h.count[t] /\ h.count[t] <= hi2[t]
  <2>1. lo2[t] \in Int /\ lo[t] \in Int /\ hi[t] \in Int /\ hi2[t] \in Int /\ h.count[t] \in Int
    BY <1>1 DEF HeapType
  <2> QED BY <1>1, <2>1
<1> QED BY <1>2 DEF Within

(* What moves in the bounds when a reference does.                         *)
LEMMA MovesAre ==
    ASSUME NEW n \in [Tasks -> Int], NEW p
    PROVE  /\ Less(n, p) \in [Tasks -> Int] /\ More(n, p) \in [Tasks -> Int]
           /\ \A t \in Tasks : /\ Less(n, p)[t] = n[t] - (IF t = p THEN 1 ELSE 0)
                               /\ More(n, p)[t] = n[t] + (IF t = p THEN 1 ELSE 0)
BY DEF Less, More

(* The search looks at the first slot only, which holds a shell that can   *)
(* be executed.                                                            *)
LEMMA SearchedFirst == Searched(1) = CopyAndDrop(heap, slots[1])
<1> DEFINE Follows(g) == g = [k \in 0..1 |-> IF k = 0 THEN heap ELSE CopyAndDrop(g[k - 1], slots[k])]
           f == [k \in 0..1 |-> IF k = 0 THEN heap ELSE CopyAndDrop(heap, slots[1])]
<1>1. Follows(f)
  <2>1. \A k \in 0..1 : f[k] = IF k = 0 THEN heap ELSE CopyAndDrop(f[k - 1], slots[k])
    <3>1. f[0] = heap /\ \A k \in 0..1 : k = 0 \/ k = 1
      OBVIOUS
    <3>2. f[1] = CopyAndDrop(f[0], slots[1]) /\ 1 - 1 = 0
      BY <3>1
    <3> HIDE DEF f
    <3> QED BY <3>1, <3>2
  <2> QED BY <2>1
<1> DEFINE after == CHOOSE g : Follows(g)
<1>2. Follows(after)
  <2> HIDE DEF Follows, f
  <2> QED BY <1>1
<1>3. Searched(1) = after[1]
  BY DEF Searched
<1>4. after[0] = heap /\ after[1] = CopyAndDrop(after[0], slots[1])
  <2>1. 0 \in 0..1 /\ 1 \in 0..1 /\ 1 - 1 = 0 /\ 1 # 0
    OBVIOUS
  <2>2. PICK g : g = after /\ Follows(g)
    BY <1>2
  <2>3. g[0] = heap /\ g[1] = CopyAndDrop(g[0], slots[1])
    BY <2>1, <2>2
  <2> HIDE DEF after
  <2> QED BY <2>2, <2>3
<1> HIDE DEF after
<1> QED BY <1>3, <1>4

(* The same of the next state.                                             *)
LEMMA NextBoundsAre ==
    /\ Due' \in [Tasks -> Int] /\ Most' \in [Tasks -> Int]
    /\ \A t \in Tasks :
        /\ Due'[t] = (IF t \in handle' \ told' THEN 1 ELSE 0) + (IF current' = t THEN 1 ELSE 0)
                     + (IF Len(slots') = 2 /\ slots'[2] = t THEN 1 ELSE 0)
        /\ Most'[t] = (IF t \in handle' \ told' THEN 1 ELSE 0) + (IF current' = t THEN 1 ELSE 0) + 1
                      + (IF state'[t] # "Ready" \/ (pc' = "executing" /\ current' = t) THEN 1 ELSE 0)
<1>1. /\ Due' = [t \in Tasks |-> Open(t)' + Chosen(t)' + Second(t)']
      /\ Most' = [t \in Tasks |-> Open(t)' + Chosen(t)' + 1 + Turned(t)']
  BY DEF Due, Most
<1>2. ASSUME NEW t \in Tasks
      PROVE  /\ Open(t)' = (IF t \in handle' \ told' THEN 1 ELSE 0)
             /\ Chosen(t)' = (IF current' = t THEN 1 ELSE 0)
             /\ Second(t)' = (IF Len(slots') = 2 /\ slots'[2] = t THEN 1 ELSE 0)
             /\ Turned(t)' = (IF state'[t] # "Ready" \/ (pc' = "executing" /\ current' = t) THEN 1 ELSE 0)
  BY DEF Open, Chosen, Second, Turned
<1>3. ASSUME NEW t \in Tasks
      PROVE  Open(t)' \in Int /\ Chosen(t)' \in Int /\ Second(t)' \in Int /\ Turned(t)' \in Int
  BY <1>2
<1>4. \A t \in Tasks : Open(t)' + Chosen(t)' + Second(t)' \in Int /\ Open(t)' + Chosen(t)' + 1 + Turned(t)' \in Int
  BY <1>3
<1> QED BY <1>1, <1>2, <1>4

(* What erase leaves of two slots, at the first one.                       *)
LEMMA EraseFirst ==
    ASSUME NEW s \in Seq(Pointers), Len(s) <= 2, NEW n \in 1..Len(s)
    PROVE  /\ Erase(s, n, 1) \in Seq(Pointers) /\ Len(Erase(s, n, 1)) = Len(s)
           /\ n = 1 => Erase(s, n, 1)[1] = NoTask
           /\ n = 2 => Erase(s, n, 1)[1] = s[2]
           /\ Len(s) = 2 => Erase(s, n, 1)[2] = s[2]
           /\ ~Overruns(s, n, 1)
<1>1. Len(s) \in {1, 2} /\ DOMAIN s = 1..Len(s) /\ n \in {1, 2} /\ n <= Len(s)
  <2>1. PICK m \in Nat : m = Len(s) /\ m <= 2 /\ n \in 1..m
    BY LenProperties
  <2>2. m \in {1, 2} /\ n \in {1, 2} /\ n <= m
    BY <2>1
  <2> QED BY <2>1, <2>2, LenProperties
<1>2. Erase(s, n, 1) \in Seq(Pointers) /\ Len(Erase(s, n, 1)) = Len(s)
  <2>1. NoTask \in Pointers /\ 1 \in 1..n
    BY DEF Pointers
  <2> QED BY <2>1, EraseIs
<1>3. PICK emptied : emptied = [s EXCEPT ![1] = NoTask]
  OBVIOUS
<1>4. emptied[1] = NoTask /\ (Len(s) = 2 => emptied[2] = s[2])
  BY <1>1, <1>3
<1>5. Erase(s, n, 1) = [j \in 1..Len(s) |->
        IF 1 < n /\ j \in 1..(1 + n - 2) /\ j < Len(s) THEN emptied[j + 1] ELSE emptied[j]]
  BY <1>1, <1>3 DEF Erase
<1>6. n = 1 => Erase(s, n, 1)[1] = NoTask
  BY <1>1, <1>4, <1>5
<1>7. n = 2 => Erase(s, n, 1)[1] = s[2]
  <2>1. n = 2 => 1 \in 1..Len(s) /\ 1 < n /\ 1 \in 1..(1 + n - 2) /\ 1 < Len(s) /\ 1 + 1 = 2 /\ Len(s) = 2
    BY <1>1
  <2> QED BY <1>4, <1>5, <2>1
<1>8. Len(s) = 2 => Erase(s, n, 1)[2] = s[2]
  <2>1. Len(s) = 2 => 2 \in 1..Len(s) /\ ~(2 < Len(s))
    BY <1>1
  <2> QED BY <1>4, <1>5, <2>1
<1>9. ~Overruns(s, n, 1)
  BY <1>1 DEF Overruns
<1> QED BY <1>2, <1>6, <1>7, <1>8, <1>9

(* The pick of a shell takes one reference from the last one that was      *)
(* executed, and a shell that is moved to the back takes another one from  *)
(* what was last in the list.                                              *)
LEMMA DispatchOfShells ==
    ASSUME MemInv, ShellInv, CountsSuffice, MemDispatch
    PROVE  /\ Within(heap', Due', Most', handle' \ told')
           /\ heap'.deleted \subseteq started
           /\ Len(slots') = Len(slots)
           /\ \A i \in 1..Len(slots') : slots'[i] # NoTask => slots'[i] \in started
           /\ current' \in started /\ size >= 1
<1> DEFINE open == handle \ told
<1>1. /\ list \in Seq(Tasks) /\ slots \in Seq(Pointers) /\ size \in Nat /\ Len(slots) \in Nat
      /\ size = Len(list) /\ size <= Len(slots) /\ \A j \in 1..size : slots[j] = list[j]
      /\ current \in Pointers /\ NoTask \notin Tasks /\ started \in SUBSET Tasks
      /\ \A j \in 1..size : list[j] \in started
      /\ \A j, k \in 1..size : list[j] = list[k] => j = k
  <2>1. list \in Seq(Tasks) /\ Len(list) \in Nat /\ DOMAIN list = 1..Len(list)
    BY LenProperties DEF MemInv, IInv, TypeOK
  <2>2. \A j \in 1..Len(list) : list[j] \in Listed
    BY <2>1 DEF Listed, ToSet
  <2>3. \A j, k \in 1..Len(list) : list[j] = list[k] => j = k
    BY <2>1 DEF MemInv, IInv, NoDuplicates, IsInjective
  <2>4. Listed \subseteq started /\ started \in SUBSET Tasks /\ current \in Pointers
    BY DEF MemInv, IInv, TypeOK, Pointers
  <2> QED BY <2>1, <2>2, <2>3, <2>4, LenProperties, TasksAssumption DEF MemInv, Holds
<1>2. /\ started \subseteq Loaded /\ \A t \in Tasks : delayComplete[t]
      /\ size <= 2 /\ Len(slots) <= 2 /\ heap.deleted \subseteq started
      /\ \A j \in 1..Len(slots) : slots[j] # NoTask => slots[j] \in started
      /\ current # NoTask => current \in started
      /\ Within(heap, Due, Most, open) /\ handle \subseteq started
  BY DEF ShellInv
<1>3. PICK i \in 1..size :
        /\ StopsAt(i)
        /\ LET found   == slots[i]
               chosen  == Assign(Searched(i), current, found)
               gap     == IF Overruns(slots, size, i) THEN Fault(chosen, "overrun") ELSE chosen
               shifted == Erase(slots, size, i)
           IN  IF state[found] = "Ready"
               THEN /\ slots' = PushBack(shifted, size - 1, found)
                    /\ heap' = Assign(gap, shifted[size], found)
               ELSE /\ heap' = chosen
                    /\ UNCHANGED slots
  BY DEF MemDispatch
<1>4. PICK k \in DOMAIN list : StopsAt(k) /\ current' = list[k]
  BY DEF MemDispatch, Dispatch
<1>5. Runnable(list[1]) /\ 1 \in 1..size
  <2>1. 1 \in 1..size
    BY <1>1
  <2>2. list[1] \in started
    BY <1>1, <2>1
  <2> QED BY <1>1, <1>2, <2>1, <2>2 DEF Runnable
<1>6. i = 1 /\ k = 1
  <2>1. k \in 1..size
    BY <1>1
  <2>2. ASSUME NEW j \in 1..size, StopsAt(j), j # 1 PROVE FALSE
    <3>1. 1 \in 1..(j - 1)
      BY <1>1, <2>2
    <3> QED BY <1>5, <2>2, <3>1 DEF StopsAt
  <2> QED BY <1>3, <1>4, <2>1, <2>2
<1>7. PICK x \in Tasks : x = slots[1] /\ x = list[1] /\ x \in started /\ current' = x
  BY <1>1, <1>4, <1>5, <1>6
<1>8. pc = "idle" /\ pc' = "executing" /\ UNCHANGED <<handle, told, state, size>>
  BY DEF MemDispatch, Dispatch
<1>9. /\ Due \in [Tasks -> Int] /\ Most \in [Tasks -> Int]
      /\ \A t \in Tasks :
            /\ Due[t] = Open(t) + Chosen(t) + Second(t)
            /\ Most[t] = Open(t) + Chosen(t) + 1 + Turned(t)
            /\ Open(t) \in {0, 1} /\ Chosen(t) \in {0, 1} /\ Second(t) \in {0, 1}
            /\ Turned(t) \in {0, 1}
  BY BoundsAre
<1>10. open \in SUBSET Tasks /\ CountLimit \in Nat /\ CountLimit >= 6
  BY <1>1, <1>2, CountAssumption DEF CountsSuffice
<1>11. /\ \A t \in Tasks : Open(t) = (IF t \in open THEN 1 ELSE 0)
       /\ \A t \in Tasks : Chosen(t) = (IF t = current THEN 1 ELSE 0)
       /\ \A t \in Tasks : Second(t) = (IF Len(slots) = 2 /\ slots[2] = t THEN 1 ELSE 0)
       /\ \A t \in Tasks : Turned(t) = (IF state[t] # "Ready" THEN 1 ELSE 0)
  BY <1>8 DEF Open, Chosen, Second, Turned
<1> HIDE DEF open
<1>12. PICK h1 : h1 = CopyAndDrop(heap, x)
  OBVIOUS
<1>13. Within(h1, Due, Most, open) /\ h1.deleted \subseteq started
  <2>1. PICK g : g = Retain(heap, x)
    OBVIOUS
  <2>2. PICK d \in [Tasks -> Int], u \in [Tasks -> Int] : d = More(Due, x) /\ u = More(Most, x)
    BY <1>9, MovesAre
  <2>3. Within(g, d, u, open) /\ g.deleted \subseteq started
    <3>1. Most[x] + 1 < CountLimit
      BY <1>9, <1>10
    <3>2. Within(heap, Due, Most, open) /\ heap.deleted \subseteq started
      BY <1>2
    <3>3. Due \in [Tasks -> Int] /\ Most \in [Tasks -> Int]
      BY <1>9
    <3>4. Within(g, More(Due, x), More(Most, x), open) /\ g.deleted = heap.deleted
      BY <1>10, <2>1, <3>1, <3>2, <3>3, RetainWithin
    <3> QED BY <2>2, <3>2, <3>4
  <2>4. \A t \in Tasks : /\ d[t] = Due[t] + (IF t = x THEN 1 ELSE 0)
                         /\ u[t] = Most[t] + (IF t = x THEN 1 ELSE 0)
    BY <1>9, <2>2, MovesAre
  <2>5. d[x] >= 1 /\ (x \in open => d[x] >= 2)
    BY <1>9, <1>11, <2>4
  <2>6. PICK d2 \in [Tasks -> Int], u2 \in [Tasks -> Int] : d2 = Less(d, x) /\ u2 = Less(u, x)
    BY MovesAre
  <2>7. Within(h1, d2, u2, open) /\ h1.deleted \subseteq started
    <3>1. x \in Pointers
      BY DEF Pointers
    <3>2. h1 = Release(g, x)
      BY <1>12, <2>1 DEF CopyAndDrop
    <3>3. Within(h1, Less(d, x), Less(u, x), open) /\ h1.deleted \subseteq g.deleted \cup {x}
      BY <1>10, <2>3, <2>5, <3>1, <3>2, ReleaseWithin
    <3> QED BY <1>7, <2>3, <2>6, <3>3
  <2>8. \A t \in Tasks : Due[t] <= d2[t] /\ u2[t] <= Most[t]
    <3>1. \A t \in Tasks : /\ d2[t] = d[t] - (IF t = x THEN 1 ELSE 0)
                           /\ u2[t] = u[t] - (IF t = x THEN 1 ELSE 0)
      BY <2>6, MovesAre
    <3> QED BY <1>9, <2>4, <3>1
  <2> QED BY <1>9, <1>10, <2>7, <2>8, WithinWider
<1>14. PICK lo \in [Tasks -> Int], hi \in [Tasks -> Int] :
         lo = Less(Due, current) /\ hi = Less(Most, current)
  BY <1>9, MovesAre
<1>15. PICK h2 : h2 = Release(h1, current)
  OBVIOUS
<1>16. Within(h2, lo, hi, open) /\ h2.deleted \subseteq started
  <2>1. /\ current # NoTask => Due[current] >= 1
        /\ current \in open => Due[current] >= 2
    <3>1. current # NoTask => current \in Tasks
      BY <1>1 DEF Pointers
    <3>2. current \in open => current \in Tasks
      BY <1>10
    <3> QED BY <1>9, <1>11, <3>1, <3>2
  <2>2. Within(h2, Less(Due, current), Less(Most, current), open) /\ h2.deleted \subseteq h1.deleted \cup {current}
    BY <1>1, <1>9, <1>10, <1>13, <1>15, <2>1, ReleaseWithin
  <2>3. current = NoTask => h2 = h1
    BY <1>15 DEF Release
  <2> QED BY <1>2, <1>13, <1>14, <2>2, <2>3
<1>17. PICK lo3 \in [Tasks -> Int], hi3 \in [Tasks -> Int] : lo3 = More(lo, x) /\ hi3 = More(hi, x)
  BY MovesAre
<1>18. PICK h3 : h3 = Retain(h2, x)
  OBVIOUS
<1>19. \A t \in Tasks : /\ lo[t] = Open(t) + Second(t)
                        /\ hi[t] = Open(t) + 1 + Turned(t)
  <2>1. \A t \in Tasks : /\ lo[t] = Due[t] - (IF t = current THEN 1 ELSE 0)
                         /\ hi[t] = Most[t] - (IF t = current THEN 1 ELSE 0)
    BY <1>9, <1>14, MovesAre
  <2> QED BY <1>9, <1>11, <2>1
<1>20. Within(h3, lo3, hi3, open) /\ h3.deleted \subseteq started
  <2>1. hi[x] + 1 < CountLimit
    BY <1>9, <1>10, <1>19
  <2> QED BY <1>10, <1>16, <1>17, <1>18, <2>1, RetainWithin
<1>21. \A t \in Tasks : /\ lo3[t] = Open(t) + Second(t) + (IF t = x THEN 1 ELSE 0)
                        /\ hi3[t] = Open(t) + 1 + Turned(t) + (IF t = x THEN 1 ELSE 0)
  BY <1>17, <1>19, MovesAre
<1>22. h3 = Assign(Searched(1), current, x)
  BY <1>7, <1>12, <1>15, <1>18, SearchedFirst DEF Assign
<1>23. /\ Due' \in [Tasks -> Int] /\ Most' \in [Tasks -> Int]
       /\ \A t \in Tasks :
            /\ Due'[t] = Open(t) + (IF t = x THEN 1 ELSE 0)
                         + (IF Len(slots') = 2 /\ slots'[2] = t THEN 1 ELSE 0)
            /\ Most'[t] = Open(t) + (IF t = x THEN 1 ELSE 0) + 1
                          + (IF state[t] # "Ready" \/ t = x THEN 1 ELSE 0)
  <2>1. handle' \ told' = open
    BY <1>8 DEF open
  <2>2. \A t \in Tasks : (IF t \in handle' \ told' THEN 1 ELSE 0) = Open(t)
    BY <1>11, <2>1
  <2> QED BY <1>7, <1>8, <2>2, NextBoundsAre
<1>24. Len(slots') = Len(slots)
  BY MemDispatchStep
<1>25. size >= 1 /\ handle' \ told' = open /\ size \in {1, 2} /\ Len(slots) \in {size, 2}
  <2>1. PICK m \in Nat : m = Len(slots) /\ size <= m /\ m <= 2
    BY <1>1, <1>2
  <2>2. PICK n \in Nat : n = size /\ n <= m /\ 1 \in 1..n
    BY <1>1, <1>5, <2>1
  <2>3. n >= 1 /\ n \in {1, 2} /\ m \in {n, 2}
    BY <2>1, <2>2
  <2> QED BY <1>8, <2>1, <2>2, <2>3 DEF open
<1>26. CASE state[x] # "Ready"
  <2>1. heap' = h3 /\ slots' = slots
    BY <1>3, <1>6, <1>7, <1>22, <1>26
  <2>2. \A t \in Tasks : Due'[t] <= lo3[t] /\ hi3[t] <= Most'[t]
    <3>1. \A t \in Tasks : Second(t) = (IF Len(slots') = 2 /\ slots'[2] = t THEN 1 ELSE 0)
      BY <1>11, <2>1
    <3> QED BY <1>9, <1>11, <1>21, <1>23, <3>1
  <2>3. Within(heap', Due', Most', open)
    BY <1>10, <1>17, <1>20, <1>23, <2>1, <2>2, WithinWider
  <2> QED BY <1>2, <1>7, <1>20, <1>24, <1>25, <2>1, <2>3
<1>27. CASE state[x] = "Ready"
  <2>1. PICK e : e = Erase(slots, size, 1)
    OBVIOUS
  <2>2. /\ e \in Seq(Pointers) /\ Len(e) = Len(slots) /\ ~Overruns(slots, size, 1)
        /\ size = 1 => e[1] = NoTask
        /\ size = 2 => e[1] = slots[2]
        /\ Len(slots) = 2 => e[2] = slots[2]
    <3>1. size \in 1..Len(slots)
      BY <1>1, <1>25
    <3> QED BY <1>1, <1>2, <2>1, <3>1, EraseFirst
  <2>3. slots' = PushBack(e, size - 1, x) /\ heap' = Assign(h3, e[size], x)
    BY <1>3, <1>6, <1>7, <1>22, <1>27, <2>1, <2>2
  <2>4. slots' = [e EXCEPT ![size] = x] /\ DOMAIN e = 1..Len(slots)
    <3>1. (size - 1) + 1 = size
      BY <1>1
    <3> QED BY <2>2, <2>3, <3>1, LenProperties DEF PushBack
  <2>5. heap' = Retain(Release(h3, e[size]), x)
    BY <2>3 DEF Assign
  <2>6. CASE size = 1
    <3>1. heap' = Retain(h3, x)
      BY <2>2, <2>5, <2>6 DEF Release
    <3>2. Within(heap', More(lo3, x), More(hi3, x), open) /\ heap'.deleted = h3.deleted
      <4>1. hi3[x] + 1 < CountLimit
        BY <1>9, <1>10, <1>11, <1>21, <1>27
      <4> QED BY <1>10, <1>17, <1>20, <3>1, <4>1, RetainWithin
    <3>3. slots'[1] = x /\ (Len(slots) = 2 => slots'[2] = slots[2])
      <4>1. PICK m \in {1, 2} : m = Len(slots)
        BY <1>25, <2>6
      <4>2. slots' = [e EXCEPT ![1] = x] /\ DOMAIN e = 1..m /\ (m = 2 => e[2] = slots[2])
        BY <2>2, <2>4, <2>6, <4>1
      <4> QED BY <4>1, <4>2
    <3>4. /\ More(lo3, x) \in [Tasks -> Int] /\ More(hi3, x) \in [Tasks -> Int]
          /\ \A t \in Tasks : /\ More(lo3, x)[t] = lo3[t] + (IF t = x THEN 1 ELSE 0)
                              /\ More(hi3, x)[t] = hi3[t] + (IF t = x THEN 1 ELSE 0)
      BY <1>17, MovesAre
    <3>5. \A t \in Tasks : Due'[t] <= More(lo3, x)[t] /\ More(hi3, x)[t] <= Most'[t]
      <4>1. \A t \in Tasks : Second(t) = (IF Len(slots') = 2 /\ slots'[2] = t THEN 1 ELSE 0)
        BY <1>11, <1>24, <3>3
      <4> QED BY <1>9, <1>11, <1>21, <1>23, <1>27, <3>4, <4>1
    <3>6. Within(heap', Due', Most', open)
      BY <1>10, <1>23, <3>2, <3>4, <3>5, WithinWider
    <3>7. \A j \in 1..Len(slots') : slots'[j] # NoTask => slots'[j] \in started
      <4>1. PICK m \in {1, 2} : m = Len(slots) /\ m = Len(slots')
        BY <1>24, <1>25, <2>6
      <4>2. \A j \in 1..m : j = 1 \/ (j = 2 /\ m = 2)
        OBVIOUS
      <4>3. \A j \in 1..m : slots[j] # NoTask => slots[j] \in started
        BY <1>2, <4>1
      <4>4. \A j \in 1..m : slots'[j] # NoTask => slots'[j] \in started
        BY <1>7, <3>3, <4>1, <4>2, <4>3
      <4> QED BY <4>1, <4>4
    <3> QED BY <1>7, <1>20, <1>24, <1>25, <3>2, <3>6, <3>7
  <2>7. CASE size = 2
    <3>1. PICK y \in Tasks : y = slots[2] /\ y \in started /\ y # x /\ Len(slots) = 2
      <4>1. 2 \in 1..size /\ 1 \in 1..size /\ Len(slots) = 2
        BY <1>25, <2>7
      <4>2. slots[2] = list[2] /\ list[2] \in started /\ list[2] # list[1]
        BY <1>1, <4>1
      <4>3. list[2] \in Tasks
        BY <1>1, <4>2
      <4> QED BY <1>7, <4>1, <4>2, <4>3
    <3>2. heap' = Retain(Release(h3, y), x)
      BY <2>2, <2>5, <2>7, <3>1
    <3>3. PICK g : g = Release(h3, y)
      OBVIOUS
    <3>4. PICK lo4 \in [Tasks -> Int], hi4 \in [Tasks -> Int] : lo4 = Less(lo3, y) /\ hi4 = Less(hi3, y)
      BY <1>17, MovesAre
    <3>5. Within(g, lo4, hi4, open) /\ g.deleted \subseteq started
      <4>1. lo3[y] >= 1 /\ (y \in open => lo3[y] >= 2)
        BY <1>9, <1>11, <1>21, <3>1
      <4>2. y \in Pointers
        BY DEF Pointers
      <4> QED BY <1>10, <1>17, <1>20, <3>1, <3>3, <3>4, <4>1, <4>2, ReleaseWithin
    <3>6. \A t \in Tasks : /\ lo4[t] = lo3[t] - (IF t = y THEN 1 ELSE 0)
                           /\ hi4[t] = hi3[t] - (IF t = y THEN 1 ELSE 0)
      BY <1>17, <3>4, MovesAre
    <3>7. Within(heap', More(lo4, x), More(hi4, x), open) /\ heap'.deleted = g.deleted
      <4>1. hi4[x] + 1 < CountLimit
        BY <1>9, <1>10, <1>11, <1>21, <1>27, <3>1, <3>6
      <4> QED BY <1>10, <3>2, <3>3, <3>4, <3>5, <4>1, RetainWithin
    <3>8. slots'[1] = y /\ slots'[2] = x
      BY <1>1, <2>2, <2>4, <2>7, <3>1
    <3>9. /\ More(lo4, x) \in [Tasks -> Int] /\ More(hi4, x) \in [Tasks -> Int]
          /\ \A t \in Tasks : /\ More(lo4, x)[t] = lo4[t] + (IF t = x THEN 1 ELSE 0)
                              /\ More(hi4, x)[t] = hi4[t] + (IF t = x THEN 1 ELSE 0)
      BY <3>4, MovesAre
    <3>10. ASSUME NEW t \in Tasks PROVE Due'[t] <= More(lo4, x)[t] /\ More(hi4, x)[t] <= Most'[t]
      <4>1. /\ Second(t) = (IF t = y THEN 1 ELSE 0)
            /\ Due'[t] = Open(t) + (IF t = x THEN 1 ELSE 0) + (IF t = x THEN 1 ELSE 0)
        BY <1>11, <1>23, <1>24, <3>1, <3>8
      <4> QED BY <1>9, <1>11, <1>21, <1>23, <1>27, <3>1, <3>6, <3>9, <4>1
    <3>11. Within(heap', Due', Most', open)
      BY <1>10, <1>23, <3>7, <3>9, <3>10, WithinWider
    <3>12. \A j \in 1..Len(slots') : slots'[j] # NoTask => slots'[j] \in started
      <4>1. \A j \in 1..Len(slots') : j = 1 \/ j = 2
        BY <1>24, <3>1
      <4> QED BY <1>7, <3>1, <3>8, <4>1
    <3> QED BY <1>7, <1>24, <1>25, <3>5, <3>7, <3>11, <3>12
  <2> QED BY <1>25, <2>6, <2>7
<1> QED BY <1>26, <1>27

(* What a new shell does to the slots: it is written over nothing, or over *)
(* the second slot's copy, which the vector then releases.                 *)
LEMMA RunIntoSlots ==
    ASSUME MemInv, ShellInv, NEW t \in Tasks, MemRun(t), AsShells
    PROVE  /\ t \notin started /\ size' = size + 1 /\ Len(slots') <= 2
           /\ Grown[size + 1] \in Pointers
           /\ Grown[size + 1] # NoTask => Grown[size + 1] \in started /\ Second(Grown[size + 1]) = 1
           /\ \A u \in Tasks : u # t =>
                (IF Len(slots') = 2 /\ slots'[2] = u THEN 1 ELSE 0)
                    <= Second(u) - (IF u = Grown[size + 1] THEN 1 ELSE 0)
           /\ \A i \in 1..Len(slots') : slots'[i] # NoTask => slots'[i] \in started \cup {t}
<1>1. /\ slots \in Seq(Pointers) /\ size \in Nat /\ Len(slots) \in Nat /\ size <= Len(slots)
      /\ size = Len(list) /\ list \in Seq(Tasks) /\ NoTask \in Pointers
  BY LenProperties DEF MemInv, IInv, TypeOK, Holds, Pointers
<1>2. /\ Len(slots) <= 2 /\ (slots # <<>> /\ size = 0 => slots[1] = NoTask)
      /\ \A i \in 1..Len(slots) : slots[i] # NoTask => slots[i] \in started
  BY DEF ShellInv
<1>3. /\ t \notin started /\ size' = size + 1 /\ slots' = PushBack(Grown, size, t)
      /\ list' = Append(list, t)
  BY DEF MemRun, Run
<1>4. size \in {0, 1}
  <2>1. Len(list') = Len(list) + 1 /\ Len(list') <= 2
    BY <1>1, <1>3, AppendProperties DEF AsShells
  <2> QED BY <1>1, <2>1
<1>5. PICK g \in Seq(Pointers) : g = Grown
  BY <1>1, GrownIs
<1>6. /\ Len(g) \in Nat /\ size < Len(g)
      /\ \A j \in 1..size : g[j] = slots[j]
      /\ Len(g) = IF size < Len(slots) THEN Len(slots) ELSE IF size = 0 THEN 1 ELSE 2 * size
  BY <1>1, <1>5, GrownIs
<1>7. Len(g) \in {1, 2} /\ size + 1 \in 1..Len(g) /\ DOMAIN g = 1..Len(g)
  <2>1. PICK m \in Nat, n \in Nat : m = Len(slots) /\ n = Len(g)
    BY <1>1, <1>6
  <2>2. size < n /\ n = (IF size < m THEN m ELSE IF size = 0 THEN 1 ELSE 2 * size) /\ m <= 2
    BY <1>2, <1>6, <2>1
  <2>3. n \in {1, 2} /\ size + 1 \in 1..n
    BY <1>4, <2>1, <2>2
  <2> QED BY <2>1, <2>3, LenProperties
<1>8. slots' = [g EXCEPT ![size + 1] = t]
  BY <1>3, <1>5 DEF PushBack
<1>9. Len(slots') = Len(g)
  BY <1>1, <1>3, <1>5, <1>6, PushBackIs DEF Pointers
<1>10. PICK old \in Pointers : old = g[size + 1]
  BY <1>7, ElementOfSeq
<1>11. \/ size < Len(slots) /\ g = slots
       \/ size = Len(slots) /\ old = NoTask
  <2>1. CASE size < Len(slots)
    BY <1>5, <2>1 DEF Grown
  <2>2. CASE size = Len(slots)
    <3>1. PICK n : n = IF slots = <<>> THEN 1 ELSE Len(slots)
      OBVIOUS
    <3>2. n \in Nat /\ n > 0
      BY <1>1, <3>1, EmptySeq
    <3>3. [j \in 1..n |-> NoTask] \in Seq(Pointers) /\ Len([j \in 1..n |-> NoTask]) = n
      BY <1>1, <3>2, LenProperties
    <3>4. g = slots \o [j \in 1..n |-> NoTask]
      BY <1>5, <2>2, <3>1 DEF Grown
    <3>5. PICK e : e = [j \in 1..n |-> NoTask]
      OBVIOUS
    <3>6. e \in Seq(Pointers) /\ Len(e) = n /\ g = slots \o e
      BY <3>3, <3>4, <3>5
    <3>7. (slots \o e)[Len(slots) + 1] = e[(Len(slots) + 1) - Len(slots)]
      <4>1. Len(slots) + 1 \in (Len(slots) + 1)..(Len(slots) + Len(e))
        BY <1>1, <3>2, <3>6
      <4> QED BY <1>1, <3>6, <4>1, ConcatProperties
    <3>8. (Len(slots) + 1) - Len(slots) = 1
      BY <1>1
    <3>9. e[1] = NoTask
      BY <3>2, <3>5
    <3> QED BY <1>10, <2>2, <3>6, <3>7, <3>8, <3>9
  <2> QED BY <1>1, <2>1, <2>2
<1>12. old # NoTask => old \in started /\ Second(old) = 1
  <2>1. ASSUME old # NoTask PROVE size = 1 /\ Len(slots) = 2 /\ old = slots[2]
    <3>1. size < Len(slots) /\ old = slots[size + 1]
      BY <1>10, <1>11, <2>1
    <3>2. size # 0
      <4>1. size = 0 => slots # <<>> /\ size + 1 = 1
        BY <1>1, <3>1, EmptySeq
      <4> QED BY <1>2, <2>1, <3>1, <4>1
    <3>3. size = 1 /\ Len(slots) = 2 /\ size + 1 = 2
      <4>1. PICK m \in Nat : m = Len(slots) /\ size < m /\ m <= 2
        BY <1>1, <1>2, <3>1
      <4>2. size = 1
        BY <1>4, <3>2
      <4> QED BY <4>1, <4>2
    <3> QED BY <3>1, <3>3
  <2> SUFFICES ASSUME old # NoTask PROVE old \in started /\ Second(old) = 1
    OBVIOUS
  <2>2. 2 \in 1..2
    OBVIOUS
  <2> QED BY <1>2, <2>1, <2>2 DEF Second
<1>13. ASSUME NEW u \in Tasks, u # t
       PROVE  (IF Len(slots') = 2 /\ slots'[2] = u THEN 1 ELSE 0)
                 <= Second(u) - (IF u = old THEN 1 ELSE 0)
  <2>1. u # old \/ Second(u) = 1
    BY <1>12, TasksAssumption
  <2>2. Second(u) \in {0, 1}
    BY DEF Second
  <2>3. Len(slots') = 2 /\ slots'[2] = u => Second(u) = 1 /\ u # old
    <3> SUFFICES ASSUME Len(slots') = 2, slots'[2] = u PROVE Second(u) = 1 /\ u # old
      OBVIOUS
    <3>1. Len(g) = 2 /\ 2 \in DOMAIN g
      <4>1. Len(g) = 2
        BY <1>9
      <4>2. 2 \in 1..2
        OBVIOUS
      <4> QED BY <1>7, <4>1, <4>2
    <3>2. size + 1 # 2 /\ g[2] = u
      BY <1>8, <1>13, <3>1
    <3>3. size = 0
      BY <1>4, <3>2
    <3>4. size < Len(slots) /\ g = slots
      BY <1>1, <1>6, <1>11, <3>1, <3>3
    <3>5. slots # <<>> /\ old = slots[1]
      BY <1>1, <1>10, <3>3, <3>4, EmptySeq
    <3>6. old = NoTask
      BY <1>2, <3>3, <3>5
    <3> QED BY <3>1, <3>2, <3>4, <3>6, TasksAssumption DEF Second
  <2> QED BY <2>1, <2>2, <2>3
<1>14. ASSUME NEW i \in 1..Len(slots'), slots'[i] # NoTask PROVE slots'[i] \in started \cup {t}
  <2>1. i \in DOMAIN g
    BY <1>7, <1>9
  <2>2. CASE i = size + 1
    BY <1>8, <2>1, <2>2
  <2>3. CASE i # size + 1
    <3>1. slots'[i] = g[i]
      BY <1>8, <2>1, <2>3
    <3>2. g[i] = slots[i] /\ i \in 1..Len(slots)
      <4>1. CASE size < Len(slots) /\ g = slots
        BY <1>9, <4>1
      <4>2. CASE size = Len(slots)
        <5>1. PICK m \in {0, 1} : m = size
          BY <1>4
        <5>2. i \in 1..Len(g) /\ Len(g) = IF m = 0 THEN 1 ELSE 2 * m
          BY <1>1, <1>6, <1>9, <4>2, <5>1
        <5>3. m = 1 /\ i = 1
          BY <2>3, <5>1, <5>2
        <5> QED BY <1>6, <4>2, <5>1, <5>3
      <4> QED BY <1>11, <4>1, <4>2
    <3> QED BY <1>2, <1>14, <3>1, <3>2
  <2> QED BY <2>2, <2>3
<1>15. Len(slots') <= 2
  BY <1>7, <1>9
<1> QED BY <1>3, <1>5, <1>10, <1>12, <1>13, <1>14, <1>15

(* A new shell has the handle of its connection and the copy in the list.  *)
LEMMA RunOfShells ==
    ASSUME MemInv, ShellInv, CountsSuffice, NEW t \in Tasks, MemRun(t), AsShells
    PROVE  /\ Within(heap', Due', Most', handle' \ told')
           /\ heap'.deleted \subseteq started'
<1> DEFINE open == (handle \ told) \cup {t}
<1>1. /\ t \notin started /\ Grown[size + 1] \in Pointers
      /\ Grown[size + 1] # NoTask => Grown[size + 1] \in started /\ Second(Grown[size + 1]) = 1
      /\ \A u \in Tasks : u # t =>
           (IF Len(slots') = 2 /\ slots'[2] = u THEN 1 ELSE 0)
               <= Second(u) - (IF u = Grown[size + 1] THEN 1 ELSE 0)
  BY RunIntoSlots
<1>2. PICK old \in Pointers : old = Grown[size + 1]
  BY <1>1
<1>3. /\ pc = "idle" /\ pc' = "idle" /\ current' = current /\ started' = started \cup {t}
      /\ state' = [state EXCEPT ![t] = "Ready"] /\ handle' = handle \cup {t} /\ told' = told
      /\ heap' = Assign([heap EXCEPT !.count[t] = 1], old, t)
  BY <1>2 DEF MemRun, Run
<1>4. /\ heap.deleted \subseteq started /\ handle \subseteq started /\ told \subseteq started
      /\ (current # NoTask => current \in started)
      /\ Within(heap, Due, Most, handle \ told)
      /\ state \in [Tasks -> States] /\ started \in SUBSET Tasks /\ NoTask \notin Tasks
  BY TasksAssumption DEF ShellInv, MemInv, IInv, TypeOK
<1>5. handle' \ told' = open /\ open \in SUBSET Tasks /\ t \in open
  BY <1>1, <1>3, <1>4
<1>6. /\ Due \in [Tasks -> Int] /\ Most \in [Tasks -> Int]
      /\ \A u \in Tasks :
            /\ Due[u] = Open(u) + Chosen(u) + Second(u)
            /\ Most[u] = Open(u) + Chosen(u) + 1 + Turned(u)
            /\ Open(u) \in {0, 1} /\ Chosen(u) \in {0, 1} /\ Second(u) \in {0, 1}
            /\ Turned(u) \in {0, 1}
  BY BoundsAre
<1>7. /\ \A u \in Tasks : u # t => Open(u) = (IF u \in open THEN 1 ELSE 0)
      /\ \A u \in Tasks : Chosen(u) = (IF u = current THEN 1 ELSE 0)
      /\ \A u \in Tasks : Turned(u) = (IF state[u] # "Ready" THEN 1 ELSE 0)
      /\ t # current
  BY <1>1, <1>3, <1>4 DEF Open, Chosen, Turned
<1> HIDE DEF open
<1>8. PICK lo \in [Tasks -> Int], hi \in [Tasks -> Int] :
        \A u \in Tasks : /\ lo[u] = IF u = t THEN 1 ELSE Due[u]
                         /\ hi[u] = IF u = t THEN 1 ELSE Most[u]
  <2>1. PICK lo, hi : /\ lo = [u \in Tasks |-> IF u = t THEN 1 ELSE Due[u]]
                      /\ hi = [u \in Tasks |-> IF u = t THEN 1 ELSE Most[u]]
    OBVIOUS
  <2>2. \A u \in Tasks : Due[u] \in Int /\ Most[u] \in Int
    BY <1>6
  <2> QED BY <2>1, <2>2
<1>9. PICK born : born = [heap EXCEPT !.count[t] = 1]
  OBVIOUS
<1>10. Within(born, lo, hi, open) /\ born.deleted \subseteq started
  <2>1. /\ heap \in HeapType /\ heap.fault # "assert"
        /\ \A u \in Tasks : Due[u] <= heap.count[u] /\ heap.count[u] <= Most[u]
        /\ (heap.fault = "none" => \A u \in heap.deleted : heap.count[u] = 0)
        /\ \A u \in handle \ told : u \notin heap.deleted
    BY <1>4 DEF Within
  <2>2. /\ born \in HeapType /\ born.deleted = heap.deleted /\ born.fault = heap.fault
        /\ born.count[t] = 1 /\ \A u \in Tasks : u # t => born.count[u] = heap.count[u]
    BY <1>9, <2>1 DEF HeapType
  <2>3. \A u \in Tasks : lo[u] <= born.count[u] /\ born.count[u] <= hi[u]
    BY <1>8, <2>1, <2>2
  <2>4. t \notin heap.deleted /\ heap.deleted \subseteq Tasks
    BY <1>1, <1>4
  <2>5. \A u \in open : u \notin born.deleted
    BY <2>1, <2>2, <2>4 DEF open
  <2>6. born.fault = "none" => \A u \in born.deleted : born.count[u] = 0
    BY <2>1, <2>2, <2>4
  <2> QED BY <1>4, <2>1, <2>2, <2>3, <2>5, <2>6 DEF Within
<1>11. old # NoTask => old \in started /\ Second(old) = 1 /\ old # t /\ old \in Tasks
  BY <1>1, <1>2, <1>4
<1>12. PICK g : g = Release(born, old)
  OBVIOUS
<1>13. PICK lo2 \in [Tasks -> Int], hi2 \in [Tasks -> Int] : lo2 = Less(lo, old) /\ hi2 = Less(hi, old)
  BY MovesAre
<1>14. Within(g, lo2, hi2, open) /\ g.deleted \subseteq started
  <2>1. /\ old # NoTask => lo[old] >= 1
        /\ old \in open => lo[old] >= 2
    <3>1. old \in open => old # NoTask
      BY <1>4, <1>5
    <3> QED BY <1>6, <1>7, <1>8, <1>11, <3>1
  <2>2. Within(g, Less(lo, old), Less(hi, old), open) /\ g.deleted \subseteq born.deleted \cup {old}
    BY <1>5, <1>10, <1>12, <2>1, ReleaseWithin
  <2>3. old = NoTask => g = born
    BY <1>12 DEF Release
  <2> QED BY <1>10, <1>11, <1>13, <2>2, <2>3
<1>15. \A u \in Tasks : /\ lo2[u] = lo[u] - (IF u = old THEN 1 ELSE 0)
                        /\ hi2[u] = hi[u] - (IF u = old THEN 1 ELSE 0)
  BY <1>13, MovesAre
<1>16. PICK lo3 \in [Tasks -> Int], hi3 \in [Tasks -> Int] : lo3 = More(lo2, t) /\ hi3 = More(hi2, t)
  BY MovesAre
<1>17. Within(heap', lo3, hi3, open) /\ heap'.deleted \subseteq started
  <2>1. hi2[t] + 1 < CountLimit
    <3>1. CountLimit \in Nat /\ CountLimit >= 6
      BY CountAssumption DEF CountsSuffice
    <3> QED BY <1>8, <1>15, <3>1
  <2>2. heap' = Retain(g, t)
    BY <1>3, <1>9, <1>12 DEF Assign
  <2>3. Within(heap', More(lo2, t), More(hi2, t), open) /\ heap'.deleted = g.deleted
    BY <1>5, <1>14, <2>1, <2>2, RetainWithin
  <2> QED BY <1>14, <1>16, <2>3
<1>18. \A u \in Tasks : /\ lo3[u] = lo2[u] + (IF u = t THEN 1 ELSE 0)
                        /\ hi3[u] = hi2[u] + (IF u = t THEN 1 ELSE 0)
  BY <1>16, MovesAre
<1>19. /\ Due' \in [Tasks -> Int] /\ Most' \in [Tasks -> Int]
       /\ \A u \in Tasks :
            /\ Due'[u] = (IF u \in open THEN 1 ELSE 0) + (IF u = current THEN 1 ELSE 0)
                         + (IF Len(slots') = 2 /\ slots'[2] = u THEN 1 ELSE 0)
            /\ Most'[u] = (IF u \in open THEN 1 ELSE 0) + (IF u = current THEN 1 ELSE 0) + 1
                          + (IF state'[u] # "Ready" THEN 1 ELSE 0)
  BY <1>3, <1>5, NextBoundsAre
<1>20. ASSUME NEW u \in Tasks PROVE Due'[u] <= lo3[u] /\ hi3[u] <= Most'[u]
  <2>1. CASE u = t
    <3>1. t # old
      BY <1>4, <1>11
    <3>2. lo3[t] = 2 /\ hi3[t] = 2
      BY <1>8, <1>15, <1>18, <3>1
    <3>3. Due'[t] <= 2 /\ Most'[t] >= 2
      BY <1>5, <1>7, <1>19
    <3> QED BY <2>1, <3>2, <3>3
  <2>2. CASE u # t
    <3>1. /\ lo3[u] = Due[u] - (IF u = old THEN 1 ELSE 0)
          /\ hi3[u] = Most[u] - (IF u = old THEN 1 ELSE 0)
      BY <1>6, <1>8, <1>15, <1>18, <2>2
    <3>2. (IF Len(slots') = 2 /\ slots'[2] = u THEN 1 ELSE 0) <= Second(u) - (IF u = old THEN 1 ELSE 0)
      BY <1>1, <1>2, <2>2
    <3>3. state'[u] = state[u]
      BY <1>3, <1>4, <2>2
    <3>4. PICK o, c, s, s2, r, d :
            /\ o = Open(u) /\ c = Chosen(u) /\ s = Second(u) /\ r = Turned(u)
            /\ s2 = (IF Len(slots') = 2 /\ slots'[2] = u THEN 1 ELSE 0)
            /\ d = (IF u = old THEN 1 ELSE 0)
      OBVIOUS
    <3>5. /\ o \in {0, 1} /\ c \in {0, 1} /\ s \in {0, 1} /\ s2 \in {0, 1} /\ r \in {0, 1}
          /\ d \in {0, 1} /\ s2 <= s - d
      BY <1>6, <3>2, <3>4
    <3>6. lo3[u] = o + c + s - d /\ hi3[u] = o + c + 1 + r - d
      BY <1>6, <3>1, <3>4
    <3>7. Due'[u] = o + c + s2 /\ Most'[u] = o + c + 1 + r
      BY <1>7, <1>19, <2>2, <3>3, <3>4
    <3> QED BY <3>5, <3>6, <3>7
  <2> QED BY <2>1, <2>2
<1>21. Within(heap', Due', Most', open)
  BY <1>5, <1>17, <1>19, <1>20, WithinWider
<1> QED BY <1>3, <1>5, <1>17, <1>21

(* The end of a connection takes its handle away, and the head of the list *)
(* with the slots it is erased from.                                       *)
LEMMA TerminateOfShells ==
    ASSUME MemInv, ShellInv, NEW t \in Tasks, MemTerminate(t)
    PROVE  /\ Within(heap', Due', Most', handle' \ told')
           /\ heap'.deleted \subseteq started
           /\ Len(slots') = Len(slots) /\ size' <= 2
           /\ (slots' # <<>> /\ size' = 0 => slots'[1] = NoTask)
           /\ \A i \in 1..Len(slots') : slots'[i] # NoTask => slots'[i] \in started
<1> DEFINE open == handle \ told
<1>1. /\ pc = "idle" /\ pc' = "idle" /\ current' = current /\ t \in started /\ t \in open
      /\ state' = [state EXCEPT ![t] = "Terminated"] /\ told' = told \cup {t}
      /\ handle' = (IF AfterReset(heap, t) = NoTask THEN handle \ {t} ELSE handle)
      /\ RemoveHead(Release(Touch(heap, t), t))
  BY DEF MemTerminate, Terminate
<1>2. /\ heap.deleted \subseteq started /\ handle \subseteq started /\ told \subseteq started
      /\ Within(heap, Due, Most, open) /\ Len(slots) <= 2 /\ size <= 2
      /\ (slots # <<>> /\ size = 0 => slots[1] = NoTask)
      /\ (\A i \in 1..Len(slots) : slots[i] # NoTask => slots[i] \in started)
      /\ state \in [Tasks -> States] /\ started \in SUBSET Tasks /\ NoTask \notin Tasks
  BY TasksAssumption DEF ShellInv, MemInv, IInv, TypeOK
<1>3. slots \in Seq(Pointers) /\ size \in Nat /\ Len(slots) \in Nat /\ size <= Len(slots)
  BY LenProperties DEF MemInv, Holds
<1>4. handle' \ told' = open \ {t} /\ open \in SUBSET Tasks /\ open \ {t} \in SUBSET open
  BY <1>1, <1>2
<1>5. /\ Due \in [Tasks -> Int] /\ Most \in [Tasks -> Int]
      /\ \A u \in Tasks :
            /\ Due[u] = Open(u) + Chosen(u) + Second(u)
            /\ Most[u] = Open(u) + Chosen(u) + 1 + Turned(u)
            /\ Open(u) \in {0, 1} /\ Chosen(u) \in {0, 1} /\ Second(u) \in {0, 1}
            /\ Turned(u) \in {0, 1}
  BY BoundsAre
<1>6. /\ \A u \in Tasks : Open(u) = (IF u \in open THEN 1 ELSE 0)
      /\ \A u \in Tasks : Chosen(u) = (IF current = u THEN 1 ELSE 0)
      /\ \A u \in Tasks : Second(u) = (IF Len(slots) = 2 /\ slots[2] = u THEN 1 ELSE 0)
      /\ \A u \in Tasks : Turned(u) = (IF state[u] # "Ready" THEN 1 ELSE 0)
  BY <1>1 DEF Open, Chosen, Second, Turned
<1>7. Touch(heap, t) = heap
  BY <1>1, <1>2 DEF Touch, Within
<1> HIDE DEF open
<1>8. PICK g : g = Release(heap, t)
  OBVIOUS
<1>9. PICK lo \in [Tasks -> Int], hi \in [Tasks -> Int] : lo = Less(Due, t) /\ hi = Less(Most, t)
  BY <1>5, MovesAre
<1>10. Within(g, lo, hi, open \ {t}) /\ g.deleted \subseteq started
  <2>1. Within(heap, Due, Most, open \ {t})
    <3>1. \A u \in Tasks : Due[u] <= Due[u] /\ Most[u] <= Most[u]
      BY <1>5
    <3> QED BY <1>2, <1>4, <1>5, <3>1, WithinWider
  <2>2. Due[t] >= 1
    BY <1>1, <1>5, <1>6
  <2>3. t \in Pointers /\ t \notin open \ {t} /\ open \ {t} \in SUBSET Tasks
    BY <1>4 DEF Pointers
  <2>4. Within(g, Less(Due, t), Less(Most, t), open \ {t}) /\ g.deleted \subseteq heap.deleted \cup {t}
    BY <1>5, <1>8, <2>1, <2>2, <2>3, ReleaseWithin
  <2> QED BY <1>1, <1>2, <1>9, <2>4
<1>11. \A u \in Tasks : /\ lo[u] = Due[u] - (IF u = t THEN 1 ELSE 0)
                        /\ hi[u] = Most[u] - (IF u = t THEN 1 ELSE 0)
  BY <1>5, <1>9, MovesAre
<1>12. /\ heap' = g /\ Len(slots') = Len(slots) /\ size' <= 2
       /\ (slots' # <<>> /\ size' = 0 => slots'[1] = NoTask)
       /\ (\A i \in 1..Len(slots') : slots'[i] # NoTask => slots'[i] \in started)
       /\ (Len(slots) = 2 => slots'[2] = slots[2])
  <2>1. CASE size = 0
    <3>1. slots' = slots /\ size' = size /\ heap' = g
      BY <1>1, <1>7, <1>8, <2>1 DEF RemoveHead
    <3> QED BY <1>2, <3>1
  <2>2. CASE size # 0
    <3>1. slots' = Erase(slots, size, 1) /\ size' = size - 1 /\ heap' = g
      BY <1>1, <1>7, <1>8, <2>2 DEF RemoveHead
    <3>2. size \in 1..Len(slots)
      BY <1>3, <2>2
    <3>3. PICK m \in {1, 2}, n \in {1, 2} : m = Len(slots) /\ n = size /\ n <= m
      <4>1. PICK m \in Nat, n \in Nat : m = Len(slots) /\ n = size
        BY <1>3
      <4>2. m <= 2 /\ n # 0 /\ n <= m
        BY <1>2, <1>3, <2>2, <4>1
      <4>3. m \in {1, 2} /\ n \in {1, 2}
        BY <4>2
      <4> QED BY <4>1, <4>2, <4>3
    <3>4. /\ Len(slots') = m
          /\ n = 1 => slots'[1] = NoTask
          /\ n = 2 => slots'[1] = slots[2]
          /\ m = 2 => slots'[2] = slots[2]
      BY <1>2, <1>3, <3>1, <3>2, <3>3, EraseFirst
    <3>5. size' <= 2 /\ (size' = 0 => n = 1)
      BY <3>1, <3>3
    <3>6. \A i \in 1..m : i = 1 \/ (i = 2 /\ m = 2)
      OBVIOUS
    <3>7. m = 2 => 2 \in 1..m
      OBVIOUS
    <3>8. n = 2 => m = 2
      BY <3>3
    <3>9. \A i \in 1..m : slots'[i] # NoTask => slots'[i] \in started
      BY <1>2, <3>3, <3>4, <3>6, <3>7, <3>8
    <3> QED BY <3>1, <3>3, <3>4, <3>5, <3>9
  <2> QED BY <2>1, <2>2
<1>13. /\ Due' \in [Tasks -> Int] /\ Most' \in [Tasks -> Int]
       /\ \A u \in Tasks :
            /\ Due'[u] = (IF u \in open \ {t} THEN 1 ELSE 0) + Chosen(u) + Second(u)
            /\ Most'[u] = (IF u \in open \ {t} THEN 1 ELSE 0) + Chosen(u) + 1
                          + (IF state'[u] # "Ready" THEN 1 ELSE 0)
  <2>1. \A u \in Tasks : Second(u) = (IF Len(slots') = 2 /\ slots'[2] = u THEN 1 ELSE 0)
    BY <1>6, <1>12
  <2> QED BY <1>1, <1>4, <1>6, <2>1, NextBoundsAre
<1>14. ASSUME NEW u \in Tasks PROVE Due'[u] <= lo[u] /\ hi[u] <= Most'[u]
  <2>1. state'[t] # "Ready" /\ (u # t => state'[u] = state[u])
    BY <1>1, <1>2
  <2>2. PICK o, c, s, r :
            o = Open(u) /\ c = Chosen(u) /\ s = Second(u) /\ r = Turned(u)
    OBVIOUS
  <2>3. o \in {0, 1} /\ c \in {0, 1} /\ s \in {0, 1} /\ r \in {0, 1}
    BY <1>5, <2>2
  <2>4. CASE u = t
    <3>1. lo[u] = c + s /\ hi[u] = c + 1 + r
      <4>1. o = 1
        BY <1>1, <1>6, <2>2, <2>4
      <4>2. lo[u] = o + c + s - 1 /\ hi[u] = o + c + 1 + r - 1
        BY <1>5, <1>11, <2>2, <2>4
      <4> QED BY <2>3, <4>1, <4>2
    <3>2. Due'[u] = c + s /\ Most'[u] = c + 2
      <4>1. u \notin open \ {t} /\ state'[u] # "Ready"
        BY <2>1, <2>4
      <4>2. Due'[u] = 0 + c + s /\ Most'[u] = 0 + c + 1 + 1
        BY <1>13, <2>2, <4>1
      <4> QED BY <2>3, <4>2
    <3> QED BY <2>3, <3>1, <3>2
  <2>5. CASE u # t
    <3>1. lo[u] = o + c + s /\ hi[u] = o + c + 1 + r
      BY <1>5, <1>11, <2>2, <2>3, <2>5
    <3>2. Due'[u] = o + c + s /\ Most'[u] = o + c + 1 + r
      BY <1>6, <1>13, <2>1, <2>2, <2>5
    <3> QED BY <2>3, <3>1, <3>2
  <2> QED BY <2>4, <2>5
<1>15. Within(heap', Due', Most', open \ {t})
  <2>1. PICK few : few = open \ {t}
    OBVIOUS
  <2>2. few \in SUBSET Tasks /\ few \in SUBSET few
    BY <1>4, <2>1
  <2>3. Within(heap', lo, hi, few)
    BY <1>10, <1>12, <2>1
  <2>4. Within(heap', Due', Most', few)
    BY <1>13, <1>14, <2>2, <2>3, WithinWider
  <2> QED BY <2>1, <2>4
<1> QED BY <1>4, <1>10, <1>12, <1>15

(* A step that moves no reference: the shell waits again, or nothing.      *)
LEMMA QuietOfShells ==
    ASSUME MemInv, ShellInv, UNCHANGED <<current, slots, handle, told, heap>>,
           \A t \in Tasks : Turned(t) <= (IF state'[t] # "Ready" \/ (pc' = "executing" /\ current' = t) THEN 1 ELSE 0)
    PROVE  Within(heap', Due', Most', handle' \ told')
<1>1. /\ Due \in [Tasks -> Int] /\ Most \in [Tasks -> Int]
      /\ \A u \in Tasks :
            /\ Due[u] = Open(u) + Chosen(u) + Second(u)
            /\ Most[u] = Open(u) + Chosen(u) + 1 + Turned(u)
            /\ Open(u) \in {0, 1} /\ Chosen(u) \in {0, 1} /\ Second(u) \in {0, 1}
            /\ Turned(u) \in {0, 1}
  BY BoundsAre
<1>2. /\ Due' \in [Tasks -> Int] /\ Most' \in [Tasks -> Int]
      /\ \A t \in Tasks :
            /\ Due'[t] = Open(t) + Chosen(t) + Second(t)
            /\ Most'[t] = Open(t) + Chosen(t) + 1
                          + (IF state'[t] # "Ready" \/ (pc' = "executing" /\ current' = t) THEN 1 ELSE 0)
  <2>1. \A t \in Tasks : /\ Open(t) = (IF t \in handle' \ told' THEN 1 ELSE 0)
                         /\ Chosen(t) = (IF current' = t THEN 1 ELSE 0)
                         /\ Second(t) = (IF Len(slots') = 2 /\ slots'[2] = t THEN 1 ELSE 0)
    BY DEF Open, Chosen, Second
  <2> QED BY <2>1, NextBoundsAre
<1>3. ASSUME NEW t \in Tasks PROVE Due'[t] <= Due[t] /\ Most[t] <= Most'[t]
  <2>1. PICK o, c, s, r, r2 :
            /\ o = Open(t) /\ c = Chosen(t) /\ s = Second(t) /\ r = Turned(t)
            /\ r2 = (IF state'[t] # "Ready" \/ (pc' = "executing" /\ current' = t) THEN 1 ELSE 0)
    OBVIOUS
  <2>2. o \in {0, 1} /\ c \in {0, 1} /\ s \in {0, 1} /\ r \in {0, 1} /\ r2 \in {0, 1} /\ r <= r2
    BY <1>1, <2>1
  <2>3. /\ Due[t] = o + c + s /\ Most[t] = o + c + 1 + r
        /\ Due'[t] = o + c + s /\ Most'[t] = o + c + 1 + r2
    BY <1>1, <1>2, <2>1
  <2> QED BY <2>2, <2>3
<1>4. PICK few : few = handle \ told /\ few = handle' \ told'
  OBVIOUS
<1>5. Within(heap, Due, Most, few) /\ few \in SUBSET Tasks /\ few \in SUBSET few
  BY <1>4 DEF ShellInv, MemInv, IInv, TypeOK
<1>6. Within(heap, Due', Most', few)
  BY <1>1, <1>2, <1>3, <1>5, WithinWider
<1> QED BY <1>4, <1>6

(* The inductive invariant of ShellsNeverAssert and of                     *)
(* OpenConnectionHasShell.                                                 *)
ShellsInv == MemInv /\ (program = "shells" => ShellInv)

(* Nothing is counted and nothing is due.                                  *)
LEMMA InitShellsInv == MemInit => ShellsInv
<1> SUFFICES ASSUME MemInit PROVE ShellsInv
  OBVIOUS
<1>1. MemInv
  BY MemInitInv
<1>2. /\ started = {} /\ pc = "idle" /\ armed = {} /\ current = NoTask
      /\ state = [t \in Tasks |-> "Ready"] /\ delayComplete = [t \in Tasks |-> TRUE]
      /\ slots = <<>> /\ size = 0 /\ handle = {} /\ told = {}
      /\ heap = [count |-> [t \in Tasks |-> 0], deleted |-> {}, fault |-> "none"]
  BY DEF MemInit, Init
<1>3. /\ Due \in [Tasks -> Int] /\ Most \in [Tasks -> Int]
      /\ \A t \in Tasks :
            /\ Due[t] = Open(t) + Chosen(t) + Second(t)
            /\ Most[t] = Open(t) + Chosen(t) + 1 + Turned(t)
            /\ Open(t) \in {0, 1} /\ Chosen(t) \in {0, 1} /\ Second(t) \in {0, 1}
            /\ Turned(t) \in {0, 1}
  BY <1>1, BoundsAre
<1>4. Len(slots) = 0
  BY <1>2, EmptySeq
<1>5. ASSUME NEW t \in Tasks PROVE Due[t] = 0 /\ Most[t] >= 0
  <2>1. Open(t) = 0 /\ Chosen(t) = 0 /\ Second(t) = 0
    BY <1>2, <1>4, TasksAssumption DEF Open, Chosen, Second
  <2> QED BY <1>3, <2>1
<1>6. Within(heap, Due, Most, handle \ told)
  <2>1. /\ heap \in HeapType /\ heap.fault = "none" /\ heap.deleted = {}
        /\ \A t \in Tasks : heap.count[t] = 0
    BY <1>2 DEF HeapType
  <2>2. \A t \in Tasks : Due[t] <= heap.count[t] /\ heap.count[t] <= Most[t]
    BY <1>3, <1>5, <2>1
  <2> QED BY <1>2, <2>1, <2>2 DEF Within
<1>7. ShellInv
  BY <1>2, <1>4, <1>6 DEF ShellInv
<1> QED BY <1>1, <1>7 DEF ShellsInv

(* Only run(), terminate(), the pick and a return are left to shells.      *)
LEMMA ShellStep ==
    ASSUME CountsSuffice, ShellsInv, [MemNext]_<<vars, memVars>>
    PROVE  ShellsInv'
<1>1. MemInv /\ MemInv' /\ program' = program
  BY MemStep DEF ShellsInv, MemNext, memVars
<1> SUFFICES ASSUME program = "shells" PROVE ShellInv'
  BY <1>1 DEF ShellsInv
<1>2. ShellInv
  BY DEF ShellsInv
<1>3. /\ started \subseteq Loaded /\ pc \in {"idle", "executing"}
      /\ (\A t \in Tasks : delayComplete[t])
      /\ armed = {} /\ size <= 2 /\ Len(slots) <= 2
      /\ (slots # <<>> /\ size = 0 => slots[1] = NoTask)
      /\ heap.deleted \subseteq started /\ handle \subseteq started /\ told \subseteq started
      /\ (\A i \in 1..Len(slots) : slots[i] # NoTask => slots[i] \in started)
      /\ (current # NoTask => current \in started)
      /\ Within(heap, Due, Most, handle \ told)
  BY <1>2 DEF ShellInv
<1>4. /\ state \in [Tasks -> States] /\ size \in Nat /\ Listed \subseteq started
      /\ (pc = "executing" => current \in Tasks) /\ started \in SUBSET Tasks
  BY <1>1 DEF MemInv, IInv, TypeOK
<1>5. CASE UNCHANGED <<vars, memVars>>
  <2>1. /\ UNCHANGED <<current, slots, handle, told, heap, state, pc, size, started, armed>>
        /\ UNCHANGED delayComplete
    BY <1>5 DEF vars, memVars
  <2>2. Within(heap', Due', Most', handle' \ told')
    <3>1. \A t \in Tasks : Turned(t) <= (IF state'[t] # "Ready" \/ (pc' = "executing" /\ current' = t) THEN 1 ELSE 0)
      BY <2>1 DEF Turned
    <3> QED BY <1>1, <1>2, <2>1, <3>1, QuietOfShells
  <2> QED BY <1>3, <2>1, <2>2 DEF ShellInv
<1>6. CASE MemNext
  <2>1. AsShells
    BY <1>6 DEF MemNext
  <2>2. started' \subseteq Loaded /\ (pc = "executing" => pc' = "idle" /\ state'[current] = "WaitingForEvent")
    BY <2>1 DEF AsShells
  <2>3. ASSUME NEW t \in Tasks, MemRun(t) PROVE ShellInv'
    <3>1. /\ Within(heap', Due', Most', handle' \ told') /\ heap'.deleted \subseteq started'
      BY <1>1, <1>2, <2>1, <2>3, RunOfShells
    <3>2. /\ size' = size + 1 /\ Len(slots') <= 2
          /\ \A i \in 1..Len(slots') : slots'[i] # NoTask => slots'[i] \in started \cup {t}
      BY <1>1, <1>2, <2>1, <2>3, RunIntoSlots
    <3>3. /\ started' = started \cup {t} /\ pc' = "idle" /\ handle' = handle \cup {t}
          /\ UNCHANGED <<told, current, delayComplete, armed>>
      BY <2>3 DEF MemRun, Run
    <3>4. size' <= 2 /\ size' # 0
      <4>1. size' \in Nat /\ size' <= Len(slots')
        BY <1>1 DEF MemInv, Holds
      <4>2. Len(slots') \in Nat
        BY <1>1, LenProperties DEF MemInv
      <4> QED BY <1>4, <3>2, <4>1, <4>2
    <3> QED BY <1>3, <2>2, <3>1, <3>2, <3>3, <3>4 DEF ShellInv
  <2>4. ASSUME NEW t \in Tasks, MemTerminate(t) PROVE ShellInv'
    <3>1. /\ Within(heap', Due', Most', handle' \ told') /\ heap'.deleted \subseteq started
          /\ Len(slots') = Len(slots) /\ size' <= 2
          /\ (slots' # <<>> /\ size' = 0 => slots'[1] = NoTask)
          /\ \A i \in 1..Len(slots') : slots'[i] # NoTask => slots'[i] \in started
      BY <1>1, <1>2, <2>4, TerminateOfShells
    <3>2. /\ UNCHANGED <<started, pc, current, delayComplete, armed>> /\ t \in started
          /\ told' = told \cup {t} /\ handle' \subseteq handle
      BY <2>4 DEF MemTerminate, Terminate
    <3> QED BY <1>3, <3>1, <3>2 DEF ShellInv
  <2>5. CASE MemDispatch
    <3>1. /\ Within(heap', Due', Most', handle' \ told') /\ heap'.deleted \subseteq started
          /\ Len(slots') = Len(slots)
          /\ (\A i \in 1..Len(slots') : slots'[i] # NoTask => slots'[i] \in started)
          /\ current' \in started /\ size >= 1
      BY <1>1, <1>2, <2>5, DispatchOfShells
    <3>2. /\ UNCHANGED <<started, delayComplete, armed, size, handle, told>> /\ pc' = "executing"
      BY <2>5 DEF MemDispatch, Dispatch
    <3>3. size' # 0
      BY <1>4, <3>1, <3>2
    <3> QED BY <1>3, <3>1, <3>2, <3>3 DEF ShellInv
  <2>6. ~MemReturnEnd
    <3> SUFFICES ASSUME MemReturnEnd PROVE FALSE
      OBVIOUS
    <3>1. pc = "executing" /\ state' = [state EXCEPT ![current] = "Terminated"]
      BY DEF MemReturnEnd, ReturnEnd
    <3>2. state'[current] = "Terminated"
      BY <1>4, <3>1
    <3> QED BY <2>2, <3>1, <3>2
  <2>7. CASE MemOther
    <3>1. \A t \in Tasks : ~DelayFires(t)
      BY <1>3 DEF DelayFires
    <3>2. ~Crash
      <4>1. \A i \in DOMAIN list : list[i] \in Loaded
        BY <1>3, <1>4 DEF Listed, ToSet
      <4> QED BY <4>1 DEF Crash, Faults
    <3>3. ~StartDelay
      <4> SUFFICES ASSUME StartDelay PROVE FALSE
        OBVIOUS
      <4>1. pc = "executing" /\ pc' = "starting"
        BY <1>3 DEF StartDelay
      <4> QED BY <2>2, <4>1
    <3>4. ReturnOn /\ UNCHANGED memVars
      BY <2>7, <3>1, <3>2, <3>3 DEF MemOther
    <3>5. /\ pc = "executing" /\ pc' = "idle" /\ current \in Tasks
          /\ UNCHANGED <<list, current, delayComplete, armed, started>>
          /\ UNCHANGED <<slots, size, handle, told, heap>>
          /\ state'[current] = "WaitingForEvent"
      BY <1>4, <2>2, <3>4 DEF ReturnOn, memVars
    <3>6. \A t \in Tasks : t # current => state'[t] = state[t]
      <4>1. PICK kind : state' = [state EXCEPT ![current] = NextState(kind)]
        BY <3>4 DEF ReturnOn
      <4> QED BY <1>4, <4>1
    <3>7. Within(heap', Due', Most', handle' \ told')
      <4>1. \A t \in Tasks : Turned(t) <= (IF state'[t] # "Ready" \/ (pc' = "executing" /\ current' = t) THEN 1 ELSE 0)
        BY <3>5, <3>6 DEF Turned
      <4> QED BY <1>1, <1>2, <3>5, <4>1, QuietOfShells
    <3> QED BY <1>3, <3>5, <3>7 DEF ShellInv
  <2> QED BY <1>6, <2>3, <2>4, <2>5, <2>6, <2>7 DEF MemNext
<1> QED BY <1>5, <1>6

(* However many shells come and go, two at a time, in whatever order they  *)
(* are picked and their connections end: assert(count(_ptr) > 0) in        *)
(* SharedPtr::reset never fails, though erase leaves copies behind that a  *)
(* later push_back releases (Containers.h, SharedPtr.h).                   *)
THEOREM ShellsKeepTheirCounts ==
    ASSUME CountsSuffice PROVE MemSpec => []ShellsNeverAssert
<1>1. MemInit => ShellsInv
  BY InitShellsInv
<1>2. ShellsInv /\ [MemNext]_<<vars, memVars>> => ShellsInv'
  BY ShellStep
<1>3. ShellsInv => ShellsNeverAssert
  BY DEF ShellsInv, ShellInv, Within, ShellsNeverAssert
<1> QED BY <1>1, <1>2, <1>3, PTL DEF MemSpec

(* And none of those releases deletes the shell of a connection that is    *)
(* still open: TCPServer's pointer keeps it until it reports the end.      *)
THEOREM OpenConnectionsKeepTheirShell ==
    ASSUME CountsSuffice PROVE MemSpec => []OpenConnectionHasShell
<1>1. MemInit => ShellsInv
  BY InitShellsInv
<1>2. ShellsInv /\ [MemNext]_<<vars, memVars>> => ShellsInv'
  BY ShellStep
<1>3. ShellsInv => OpenConnectionHasShell
  BY DEF ShellsInv, ShellInv, Within, OpenConnectionHasShell
<1> QED BY <1>1, <1>2, <1>3, PTL DEF MemSpec
=============================================================================
