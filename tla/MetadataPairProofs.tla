------------------------- MODULE MetadataPairProofs -------------------------
(***************************************************************************)
(* What a metadata pair promises, for any names, blocks and operations: a  *)
(* mount finds the directory as it was before the operation under way or   *)
(* as it is after it (KeepsDirectory), what is looked up in the log is     *)
(* what the log stands for (LookupsAgree), and an open file has the id of  *)
(* its entry (HandlesFollow).                                              *)
(*                                                                         *)
(* The parts, in this order: the folds of DirLog over a log, tag by tag;   *)
(* the entries a log stands for and what each of lfs.c's ways of reading   *)
(* it makes of one tag more; what a compaction keeps (Tell) and that it    *)
(* stands for the same entries; a log in which all readings agree (Sound)  *)
(* and what the tags of an operation make of it; the protocol of the       *)
(* commits (PairInv, LogInv), action by action; the theorems.              *)
(***************************************************************************)
EXTENDS MetadataPair, SequencesExt, SequenceTheorems, FiniteSetTheorems,
        WellFoundedInduction, TLAPS

(* What removing the i-th element of a sequence leaves.                    *)
LEMMA RemoveAtElements ==
    ASSUME NEW S, NEW s \in Seq(S), NEW i \in DOMAIN s
    PROVE  /\ RemoveAt(s, i) \in Seq(S)
           /\ Len(RemoveAt(s, i)) = Len(s) - 1
           /\ \A j \in 1..(Len(s) - 1) :
                  RemoveAt(s, i)[j] = IF j < i THEN s[j] ELSE s[j + 1]
<1>1. Len(s) \in Nat /\ DOMAIN s = 1..Len(s) /\ i \in 1..Len(s)
  BY LenProperties
<1> DEFINE front == SubSeq(s, 1, i - 1)
           back == SubSeq(s, i + 1, Len(s))
<1>2. /\ front \in Seq(S)
      /\ Len(front) = i - 1
      /\ \A j \in 1..(i - 1) : front[j] = s[j]
  BY <1>1
<1>3. /\ back \in Seq(S)
      /\ Len(back) = Len(s) - i
      /\ \A j \in 1..(Len(s) - i) : back[j] = s[i + j]
  BY <1>1
<1>4. RemoveAt(s, i) = front \o back
  BY DEF RemoveAt
<1> HIDE DEF front, back
<1>5. /\ front \o back \in Seq(S)
      /\ Len(front \o back) = (i - 1) + (Len(s) - i)
      /\ \A j \in 1..((i - 1) + (Len(s) - i)) :
            (front \o back)[j] = IF j <= i - 1 THEN front[j] ELSE back[j - (i - 1)]
  <2>1. /\ front \o back \in Seq(S)
        /\ Len(front \o back) = Len(front) + Len(back)
        /\ \A j \in 1..(Len(front) + Len(back)) :
              (front \o back)[j] = IF j <= Len(front) THEN front[j] ELSE back[j - Len(front)]
    BY <1>2, <1>3, ConcatProperties, Zenon
  <2> QED BY <1>2, <1>3, <2>1
<1>6. ASSUME NEW j \in 1..(Len(s) - 1)
      PROVE  (front \o back)[j] = IF j < i THEN s[j] ELSE s[j + 1]
  <2>1. CASE j < i
    BY <1>1, <1>2, <1>5, <2>1
  <2>2. CASE ~(j < i)
    <3>0. j - (i - 1) \in 1..(Len(s) - i) /\ i + (j - (i - 1)) = j + 1
      BY <1>1, <2>2
    <3>1. PICK x \in 1..(Len(s) - i) : x = j - (i - 1) /\ i + x = j + 1
      BY <3>0
    <3>2. (front \o back)[j] = back[x]
      BY <1>1, <1>5, <2>2, <3>1
    <3> QED BY <1>3, <2>2, <3>1, <3>2
  <2> QED BY <2>1, <2>2
<1> QED BY <1>1, <1>4, <1>5, <1>6

(* What inserting an element before the i-th element leaves.               *)
LEMMA InsertAtElements ==
    ASSUME NEW S, NEW s \in Seq(S), NEW i \in 1..(Len(s) + 1), NEW e \in S
    PROVE  /\ InsertAt(s, i, e) \in Seq(S)
           /\ Len(InsertAt(s, i, e)) = Len(s) + 1
           /\ \A j \in 1..(Len(s) + 1) :
                  InsertAt(s, i, e)[j] = IF j < i THEN s[j]
                                         ELSE IF j = i THEN e ELSE s[j - 1]
<1> DEFINE front == SubSeq(s, 1, i - 1)
           back == SubSeq(s, i, Len(s))
           start == front \o <<e>>
<1>1. Len(s) \in Nat
  BY LenProperties
<1>2. /\ front \in Seq(S)
      /\ Len(front) = i - 1
      /\ \A j \in 1..(i - 1) : front[j] = s[j]
  BY <1>1
<1>3. /\ back \in Seq(S)
      /\ Len(back) = Len(s) - i + 1
      /\ \A j \in 1..(Len(s) - i + 1) : back[j] = s[i + j - 1]
  BY <1>1
<1>4. InsertAt(s, i, e) = start \o back
  BY DEF InsertAt
<1> HIDE DEF front, back
<1>5. /\ start \in Seq(S)
      /\ Len(start) = i
      /\ \A j \in 1..i : start[j] = IF j < i THEN s[j] ELSE e
  BY <1>2
<1> HIDE DEF start
<1>6. /\ start \o back \in Seq(S)
      /\ Len(start \o back) = Len(start) + Len(back)
      /\ \A j \in 1..(Len(start) + Len(back)) :
            (start \o back)[j] = IF j <= Len(start) THEN start[j] ELSE back[j - Len(start)]
  BY <1>3, <1>5, ConcatProperties, Zenon
<1>7. ASSUME NEW j \in 1..(Len(s) + 1)
      PROVE  (start \o back)[j] = IF j < i THEN s[j] ELSE IF j = i THEN e ELSE s[j - 1]
  <2>1. CASE j <= i
    BY <1>1, <1>3, <1>5, <1>6, <2>1
  <2>2. CASE ~(j <= i)
    <3>0. j - i \in 1..(Len(s) - i + 1) /\ i + (j - i) - 1 = j - 1
      BY <1>1, <2>2
    <3>1. PICK x \in 1..(Len(s) - i + 1) : x = j - i /\ i + x - 1 = j - 1
      BY <3>0
    <3>2. (start \o back)[j] = back[x]
      BY <1>1, <1>3, <1>5, <1>6, <2>2, <3>1
    <3> QED BY <1>3, <2>2, <3>1, <3>2
  <2> QED BY <2>1, <2>2
<1> QED BY <1>1, <1>3, <1>4, <1>5, <1>6, <1>7

(* A set of numbers has a least element, which is how an induction over    *)
(* numbers is written here: the least counterexample has none before it.   *)
LEMMA LeastElement ==
    ASSUME NEW S \in SUBSET Nat, S # {}
    PROVE  \E x \in S : \A y \in S : x <= y
<1> DEFINE upTo == {1..x : x \in S}
<1>1. upTo \subseteq FiniteSubsetsOf(Nat) /\ upTo # {}
  <2>1. ASSUME NEW x \in S PROVE 1..x \in SUBSET Nat /\ IsFiniteSet(1..x)
    BY FS_Interval
  <2> QED BY <2>1 DEF FiniteSubsetsOf
<1>2. PICK T \in upTo : \A U \in upTo : ~(<<U, T>> \in StrictSubsetOrdering(Nat))
  BY <1>1, FS_StrictSubsetOrderingWellFounded, WFMin, Zenon
<1>3. PICK x \in S : T = 1..x
  OBVIOUS
<1>4. ASSUME NEW y \in S, y < x PROVE FALSE
  <2>1. 1..y \subseteq 1..x /\ x \in 1..x /\ x \notin 1..y /\ 1..y \in upTo
    BY <1>4
  <2>2. <<1..y, 1..x>> \in StrictSubsetOrdering(Nat)
    BY <2>1 DEF StrictSubsetOrdering
  <2> QED BY <1>2, <1>3, <2>1, <2>2
<1>5. \A y \in S : x <= y
  BY <1>4
<1> QED BY <1>5

-----------------------------------------------------------------------------
Tags == [t : {"CREATE", "DELETE", "NAME", "STRUCT"}, id : Int, val : Names \cup Structs \cup {None}]

(* Induction over the numbers up to n, of which P holds.                   *)
LEMMA UpTo ==
    ASSUME NEW n \in Nat, NEW P, 0 \in P, \A i \in 1..n : i - 1 \in P => i \in P
    PROVE  \A i \in 0..n : i \in P
<1> DEFINE S == {i \in 0..n : i \notin P}
<1> SUFFICES ASSUME S # {} PROVE FALSE
  OBVIOUS
<1>0. S \in SUBSET Nat
  OBVIOUS
<1>1. PICK k \in S : \A j \in S : k <= j
  <2> HIDE DEF S
  <2> QED BY <1>0, LeastElement
<1>2. k # 0 /\ k \in 1..n
  OBVIOUS
<1>3. k - 1 \in 0..n /\ k - 1 \notin S
  BY <1>1, <1>2
<1> QED BY <1>2, <1>3

(* What is computed from its predecessor over the values V, exists.        *)
IsFold(acc, V, base, n, step) ==
    acc \in [0..n -> V] /\ acc[0] = base /\ \A i \in 1..n : acc[i] = step[i][acc[i - 1]]

LEMMA FoldIs ==
    ASSUME NEW V, NEW base \in V, NEW n \in Nat, NEW step \in [1..n -> [V -> V]]
    PROVE  \E acc : IsFold(acc, V, base, n, step)
<1> USE DEF IsFold
<1> DEFINE Follows(acc, m) == acc[0] = base /\ \A i \in 1..m : acc[i] = step[i][acc[i - 1]]
           P == {m \in 0..n : \E acc \in [0..m -> V] : Follows(acc, m)}
<1>1. 0 \in P
  <2>1. PICK acc : acc = [i \in 0..0 |-> base]
    OBVIOUS
  <2>2. acc \in [0..0 -> V] /\ acc[0] = base /\ 0 \in 0..n
    BY <2>1
  <2>3. Follows(acc, 0)
    BY <2>2
  <2> HIDE DEF Follows
  <2> QED BY <2>2, <2>3
<1>2. ASSUME NEW m \in 1..n, m - 1 \in P PROVE m \in P
  <2>1. PICK acc \in [0..m - 1 -> V] : Follows(acc, m - 1)
    BY <1>2
  <2>2. PICK v \in V : v = step[m][acc[m - 1]]
    OBVIOUS
  <2>3. PICK f : f = [i \in 0..m |-> IF i = m THEN v ELSE acc[i]]
    OBVIOUS
  <2>4. f \in [0..m -> V]
    BY <2>3
  <2>5. ASSUME NEW i \in 1..m PROVE f[i] = step[i][f[i - 1]]
    <3>1. CASE i = m
      BY <2>2, <2>3, <3>1
    <3>2. CASE i # m
      <4>1. i \in 1..m - 1 /\ i - 1 \in 0..m /\ i - 1 # m
        BY <3>2
      <4>2. f[i] = acc[i] /\ f[i - 1] = acc[i - 1]
        BY <2>3, <3>2, <4>1
      <4> QED BY <2>1, <4>1, <4>2
    <3> QED BY <3>1, <3>2
  <2>6. f[0] = base
    BY <2>1, <2>3
  <2>7. Follows(f, m)
    BY <2>5, <2>6
  <2>8. m \in 0..n
    OBVIOUS
  <2> HIDE DEF Follows
  <2> QED BY <2>4, <2>7, <2>8
<1>3. n \in P
  <2> HIDE DEF P
  <2>1. \A i \in 0..n : i \in P
    BY <1>1, <1>2, UpTo
  <2> QED BY <2>1
<1> QED BY <1>3

Vals == Names \cup Structs \cup {None}
Bests == [id : Int, valid : BOOLEAN]
Reads == [done : BOOLEAN, id : Int, val : Vals]
Fates == [redundant : BOOLEAN, tag : Tags]

Nowhere == [id |-> NoId, valid |-> FALSE]

ReadBy(type, start, log) ==
    LET Read(acc, tag) == GetStep(type, acc, tag) IN Forward(Read, start, log)

Passed(start, log) == Forward(Filter, start, log)

LEMMA FindStepIs ==
    ASSUME NEW name
    PROVE  /\ Nowhere \in Bests
           /\ \A a \in Bests, t \in Tags : FindStep(name, a, t) \in Bests
<1>1. Nowhere \in Bests
  BY DEF NoId, Bests, Nowhere
<1>2. ASSUME NEW a \in Bests, NEW t \in Tags PROVE FindStep(name, a, t) \in Bests
  <2>1. PICK i \in Int, v \in BOOLEAN : a = [id |-> i, valid |-> v]
    BY DEF Bests
  <2>2. t.id \in Int /\ Splice(t) \in Int
    BY DEF Tags, Splice
  <2>3. [id |-> t.id, valid |-> TRUE] \in Bests /\ [id |-> t.id, valid |-> FALSE] \in Bests
    BY <2>2 DEF Bests
  <2>4. [a EXCEPT !.valid = FALSE] \in Bests
    BY <2>1 DEF Bests
  <2>5. [a EXCEPT !.id = @ + Splice(t)] \in Bests
    <3>1. PICK j \in Int : j = i + Splice(t)
      BY <2>2
    <3>2. [a EXCEPT !.id = @ + Splice(t)] = [id |-> j, valid |-> v]
      BY <2>1, <3>1
    <3> QED BY <3>2 DEF Bests
  <2> QED BY <2>3, <2>4, <2>5 DEF FindStep
<1> QED BY <1>1, <1>2

LEMMA FilterStays ==
    \A a \in Fates, t \in Tags : Filter(a, t) \in Fates
<1>1. ASSUME NEW a \in Fates, NEW t \in Tags PROVE Filter(a, t) \in Fates
  <2>1. PICK r \in BOOLEAN, g \in Tags : a = [redundant |-> r, tag |-> g]
    BY DEF Fates
  <2>2. PICK ty, i, v : i \in Int /\ g = [t |-> ty, id |-> i, val |-> v]
    BY DEF Tags
  <2>3. Splice(t) \in Int
    BY DEF Splice
  <2>4. [a EXCEPT !.redundant = TRUE] \in Fates
    BY <2>1 DEF Fates
  <2>5. [a EXCEPT !.tag.id = @ + Splice(t)] \in Fates
    <3>1. PICK j \in Int : j = i + Splice(t)
      BY <2>2, <2>3
    <3>2. [a EXCEPT !.tag.id = @ + Splice(t)] = [redundant |-> r, tag |-> [g EXCEPT !.id = j]]
      BY <2>1, <2>2, <3>1
    <3>3. PICK k : k = [g EXCEPT !.id = j]
      OBVIOUS
    <3>4. k \in Tags
      BY <2>1, <3>3 DEF Tags
    <3> QED BY <2>1, <3>2, <3>3, <3>4 DEF Fates
  <2> QED BY <2>4, <2>5 DEF Filter
<1> QED BY <1>1

(* The entries counted, tag by tag.                                       *)
LEMMA CountIs ==
    ASSUME NEW log \in Seq(Tags)
    PROVE  \E acc \in [0..Len(log) -> Int] :
              /\ acc[0] = 0
              /\ \A i \in 1..Len(log) : acc[i] = CountStep(acc[i - 1], log[i])
              /\ Count(log) = acc[Len(log)]
<1> DEFINE F(acc) == acc = [i \in 0..Len(log) |->
                IF i = 0 THEN 0
                ELSE CHOOSE r \in {CountStep(a, log[i]) : a \in {acc[i - 1]}} : TRUE]
<1>0. \A x, t : (CHOOSE r \in {CountStep(a, t) : a \in {x}} : TRUE) = CountStep(x, t)
  OBVIOUS
<1>1. PICK n \in Nat : n = Len(log) /\ \A i \in 1..n : log[i] \in Tags
  BY LenProperties
<1>2. PICK V, zero : V = Int /\ zero = 0
  OBVIOUS
<1>3. zero \in V
  BY <1>2 DEF CountStep, Splice, Tags
<1>14. \A a \in V, t \in Tags : CountStep(a, t) \in V
  BY <1>2 DEF CountStep, Splice, Tags
<1>4. PICK step : step = [i \in 1..n |-> [a \in V |-> CountStep(a, log[i])]]
  OBVIOUS
<1>5. step \in [1..n -> [V -> V]]
  BY <1>1, <1>4, <1>14
<1>6. PICK g \in [0..n -> V] : g[0] = zero /\ \A i \in 1..n : g[i] = step[i][g[i - 1]]
  <2>1. n \in Nat
    BY <1>1
  <2>2. PICK g : IsFold(g, V, zero, n, step)
    BY <1>3, <1>5, <2>1, FoldIs
  <2> QED BY <2>2 DEF IsFold
<1>7. \A i \in 1..n : g[i - 1] \in V /\ g[i] = CountStep(g[i - 1], log[i])
  BY <1>4, <1>6
<1>8. F(g)
  BY <1>0, <1>1, <1>2, <1>6, <1>7
<1>9. Count(log) = (CHOOSE acc : F(acc))[Len(log)]
  BY DEF Count, Forward
<1>10. PICK acc : acc = CHOOSE x : F(x)
  OBVIOUS
<1>11. F(acc)
  <2> HIDE DEF F
  <2> QED BY <1>8, <1>10
<1>12. acc[0] = 0 /\ \A i \in 1..n : acc[i] = CountStep(acc[i - 1], log[i])
  <2>1. acc = [i \in 0..n |->
                 IF i = 0 THEN 0
                 ELSE CHOOSE r \in {CountStep(a, log[i]) : a \in {acc[i - 1]}} : TRUE]
    BY <1>1, <1>11
  <2>2. \A i \in 1..n : i \in 0..n /\ i # 0
    OBVIOUS
  <2>3. acc[0] = 0
    BY <2>1
  <2> QED BY <1>0, <2>1, <2>2, <2>3
<1>13. acc = g
  <2>1. acc[0] = g[0]
    BY <1>2, <1>6, <1>12
  <2>2. \A i \in 1..n : acc[i - 1] = g[i - 1] => acc[i] = g[i]
    BY <1>7, <1>12
  <2>3. \A i \in 0..n : acc[i] = g[i]
    <3>1. PICK P : P = {i \in 0..n : acc[i] = g[i]}
      OBVIOUS
    <3>2. 0 \in P
      BY <1>1, <2>1, <3>1
    <3>3. ASSUME NEW i \in 1..n, i - 1 \in P PROVE i \in P
      BY <2>2, <3>1, <3>3
    <3>4. \A i \in 0..n : i \in P
      BY <1>1, <3>2, <3>3, UpTo
    <3> QED BY <3>1, <3>4
  <2>4. acc = [i \in 0..n |-> acc[i]]
    BY <1>1, <1>11
  <2> QED BY <1>6, <2>3, <2>4
<1> QED BY <1>1, <1>2, <1>6, <1>9, <1>10, <1>12, <1>13

LEMMA CountAppend ==
    ASSUME NEW log \in Seq(Tags), NEW t \in Tags
    PROVE  /\ Count(<<>>) = 0
           /\ Count(log) \in Int
           /\ Count(Append(log, t)) = CountStep(Count(log), t)
<1>1. PICK f \in [0..Len(log) -> Int] :
              /\ f[0] = 0
              /\ \A i \in 1..Len(log) : f[i] = CountStep(f[i - 1], log[i])
              /\ Count(log) = f[Len(log)]
  BY CountIs
<1>2. PICK more \in Seq(Tags) : more = Append(log, t)
  BY AppendProperties
<1>3. PICK g \in [0..Len(more) -> Int] :
              /\ g[0] = 0
              /\ \A i \in 1..Len(more) : g[i] = CountStep(g[i - 1], more[i])
              /\ Count(more) = g[Len(more)]
  BY CountIs
<1>4. PICK n \in Nat : n = Len(log)
  BY LenProperties
<1>5. Len(more) = n + 1 /\ more[n + 1] = t /\ \A i \in 1..n : more[i] = log[i]
  BY <1>2, <1>4, AppendProperties
<1>6. \A i \in 1..n : f[i - 1] = g[i - 1] => f[i] = g[i]
  BY <1>1, <1>3, <1>4, <1>5
<1>7. \A i \in 0..n : f[i] = g[i]
  <2>1. PICK P : P = {i \in 0..n : f[i] = g[i]}
    OBVIOUS
  <2>2. 0 \in P
    BY <1>1, <1>3, <1>4, <2>1
  <2>3. ASSUME NEW i \in 1..n, i - 1 \in P PROVE i \in P
    BY <1>6, <2>1, <2>3
  <2>4. \A i \in 0..n : i \in P
    BY <1>4, <2>2, <2>3, UpTo
  <2> QED BY <2>1, <2>4
<1>8. Count(more) = CountStep(Count(log), t)
  BY <1>1, <1>3, <1>4, <1>5, <1>7
<1>9. Count(<<>>) = 0
  <2>1. <<>> \in Seq(Tags) /\ Len(<<>>) = 0
    BY EmptySeq
  <2>2. PICK e \in Seq(Tags) : e = <<>> /\ Len(e) = 0
    BY <2>1
  <2>3. PICK h \in [0..Len(e) -> Int] : h[0] = 0 /\ Count(e) = h[Len(e)]
    BY CountIs
  <2> QED BY <2>2, <2>3
<1> QED BY <1>1, <1>2, <1>4, <1>8, <1>9

(* The search for a name, tag by tag.                                     *)
LEMMA BestIs ==
    ASSUME NEW log \in Seq(Tags), NEW name
    PROVE  \E acc \in [0..Len(log) -> Bests] :
              /\ acc[0] = Nowhere
              /\ \A i \in 1..Len(log) : acc[i] = FindStep(name, acc[i - 1], log[i])
              /\ BestMatch(log, name) = acc[Len(log)]
<1> DEFINE F(acc) == acc = [i \in 0..Len(log) |->
                IF i = 0 THEN Nowhere
                ELSE CHOOSE r \in {FindStep(name, a, log[i]) : a \in {acc[i - 1]}} : TRUE]
<1>0. \A x, t : (CHOOSE r \in {FindStep(name, a, t) : a \in {x}} : TRUE) = FindStep(name, x, t)
  OBVIOUS
<1>1. PICK n \in Nat : n = Len(log) /\ \A i \in 1..n : log[i] \in Tags
  BY LenProperties
<1>2. PICK V, zero : V = Bests /\ zero = Nowhere
  OBVIOUS
<1>3. zero \in V
  BY <1>2, FindStepIs
<1>14. \A a \in V, t \in Tags : FindStep(name, a, t) \in V
  BY <1>2, FindStepIs
<1>4. PICK step : step = [i \in 1..n |-> [a \in V |-> FindStep(name, a, log[i])]]
  OBVIOUS
<1>5. step \in [1..n -> [V -> V]]
  BY <1>1, <1>4, <1>14
<1>6. PICK g \in [0..n -> V] : g[0] = zero /\ \A i \in 1..n : g[i] = step[i][g[i - 1]]
  <2>1. n \in Nat
    BY <1>1
  <2>2. PICK g : IsFold(g, V, zero, n, step)
    BY <1>3, <1>5, <2>1, FoldIs
  <2> QED BY <2>2 DEF IsFold
<1>7. \A i \in 1..n : g[i - 1] \in V /\ g[i] = FindStep(name, g[i - 1], log[i])
  BY <1>4, <1>6
<1>8. F(g)
  BY <1>0, <1>1, <1>2, <1>6, <1>7
<1>9. BestMatch(log, name) = (CHOOSE acc : F(acc))[Len(log)]
  BY DEF BestMatch, Forward, Nowhere
<1>10. PICK acc : acc = CHOOSE x : F(x)
  OBVIOUS
<1>11. F(acc)
  <2> HIDE DEF F
  <2> QED BY <1>8, <1>10
<1>12. acc[0] = Nowhere /\ \A i \in 1..n : acc[i] = FindStep(name, acc[i - 1], log[i])
  BY <1>0, <1>1, <1>11
<1>13. acc = g
  <2>1. acc[0] = g[0]
    BY <1>2, <1>6, <1>12
  <2>2. \A i \in 1..n : acc[i - 1] = g[i - 1] => acc[i] = g[i]
    BY <1>7, <1>12
  <2>3. \A i \in 0..n : acc[i] = g[i]
    <3>1. PICK P : P = {i \in 0..n : acc[i] = g[i]}
      OBVIOUS
    <3>2. 0 \in P
      BY <1>1, <2>1, <3>1
    <3>3. ASSUME NEW i \in 1..n, i - 1 \in P PROVE i \in P
      BY <2>2, <3>1, <3>3
    <3>4. \A i \in 0..n : i \in P
      BY <1>1, <3>2, <3>3, UpTo
    <3> QED BY <3>1, <3>4
  <2>4. acc = [i \in 0..n |-> acc[i]]
    BY <1>1, <1>11
  <2> QED BY <1>6, <2>3, <2>4
<1> QED BY <1>1, <1>2, <1>6, <1>9, <1>10, <1>12, <1>13

LEMMA BestAppend ==
    ASSUME NEW log \in Seq(Tags), NEW t \in Tags, NEW name
    PROVE  /\ BestMatch(<<>>, name) = Nowhere
           /\ BestMatch(log, name) \in Bests
           /\ BestMatch(Append(log, t), name) = FindStep(name, BestMatch(log, name), t)
<1>1. PICK f \in [0..Len(log) -> Bests] :
              /\ f[0] = Nowhere
              /\ \A i \in 1..Len(log) : f[i] = FindStep(name, f[i - 1], log[i])
              /\ BestMatch(log, name) = f[Len(log)]
  BY BestIs
<1>2. PICK more \in Seq(Tags) : more = Append(log, t)
  BY AppendProperties
<1>3. PICK g \in [0..Len(more) -> Bests] :
              /\ g[0] = Nowhere
              /\ \A i \in 1..Len(more) : g[i] = FindStep(name, g[i - 1], more[i])
              /\ BestMatch(more, name) = g[Len(more)]
  BY BestIs
<1>4. PICK n \in Nat : n = Len(log)
  BY LenProperties
<1>5. Len(more) = n + 1 /\ more[n + 1] = t /\ \A i \in 1..n : more[i] = log[i]
  BY <1>2, <1>4, AppendProperties
<1>6. \A i \in 1..n : f[i - 1] = g[i - 1] => f[i] = g[i]
  BY <1>1, <1>3, <1>4, <1>5
<1>7. \A i \in 0..n : f[i] = g[i]
  <2>1. PICK P : P = {i \in 0..n : f[i] = g[i]}
    OBVIOUS
  <2>2. 0 \in P
    BY <1>1, <1>3, <1>4, <2>1
  <2>3. ASSUME NEW i \in 1..n, i - 1 \in P PROVE i \in P
    BY <1>6, <2>1, <2>3
  <2>4. \A i \in 0..n : i \in P
    BY <1>4, <2>2, <2>3, UpTo
  <2> QED BY <2>1, <2>4
<1>8. BestMatch(more, name) = FindStep(name, BestMatch(log, name), t)
  BY <1>1, <1>3, <1>4, <1>5, <1>7
<1>9. BestMatch(<<>>, name) = Nowhere
  <2>1. <<>> \in Seq(Tags) /\ Len(<<>>) = 0
    BY EmptySeq
  <2>2. PICK e \in Seq(Tags) : e = <<>> /\ Len(e) = 0
    BY <2>1
  <2>3. PICK h \in [0..Len(e) -> Bests] : h[0] = Nowhere /\ BestMatch(e, name) = h[Len(e)]
    BY BestIs
  <2> QED BY <2>2, <2>3
<1> QED BY <1>1, <1>2, <1>4, <1>8, <1>9

(* What becomes of a tag, tag by tag.                                     *)
LEMMA FilterIs ==
    ASSUME NEW log \in Seq(Tags), NEW start \in Fates
    PROVE  \E acc \in [0..Len(log) -> Fates] :
              /\ acc[0] = start
              /\ \A i \in 1..Len(log) : acc[i] = Filter(acc[i - 1], log[i])
              /\ Passed(start, log) = acc[Len(log)]
<1> DEFINE F(acc) == acc = [i \in 0..Len(log) |->
                IF i = 0 THEN start
                ELSE CHOOSE r \in {Filter(a, log[i]) : a \in {acc[i - 1]}} : TRUE]
<1>0. \A x, t : (CHOOSE r \in {Filter(a, t) : a \in {x}} : TRUE) = Filter(x, t)
  OBVIOUS
<1>1. PICK n \in Nat : n = Len(log) /\ \A i \in 1..n : log[i] \in Tags
  BY LenProperties
<1>2. PICK V, zero : V = Fates /\ zero = start
  OBVIOUS
<1>3. zero \in V
  BY <1>2, FilterStays
<1>14. \A a \in V, t \in Tags : Filter(a, t) \in V
  BY <1>2, FilterStays
<1>4. PICK step : step = [i \in 1..n |-> [a \in V |-> Filter(a, log[i])]]
  OBVIOUS
<1>5. step \in [1..n -> [V -> V]]
  BY <1>1, <1>4, <1>14
<1>6. PICK g \in [0..n -> V] : g[0] = zero /\ \A i \in 1..n : g[i] = step[i][g[i - 1]]
  <2>1. n \in Nat
    BY <1>1
  <2>2. PICK g : IsFold(g, V, zero, n, step)
    BY <1>3, <1>5, <2>1, FoldIs
  <2> QED BY <2>2 DEF IsFold
<1>7. \A i \in 1..n : g[i - 1] \in V /\ g[i] = Filter(g[i - 1], log[i])
  BY <1>4, <1>6
<1>8. F(g)
  BY <1>0, <1>1, <1>2, <1>6, <1>7
<1>9. Passed(start, log) = (CHOOSE acc : F(acc))[Len(log)]
  BY DEF Passed, Forward
<1>10. PICK acc : acc = CHOOSE x : F(x)
  OBVIOUS
<1>11. F(acc)
  <2> HIDE DEF F
  <2> QED BY <1>8, <1>10
<1>12. acc[0] = start /\ \A i \in 1..n : acc[i] = Filter(acc[i - 1], log[i])
  BY <1>0, <1>1, <1>11
<1>13. acc = g
  <2>1. acc[0] = g[0]
    BY <1>2, <1>6, <1>12
  <2>2. \A i \in 1..n : acc[i - 1] = g[i - 1] => acc[i] = g[i]
    BY <1>7, <1>12
  <2>3. \A i \in 0..n : acc[i] = g[i]
    <3>1. PICK P : P = {i \in 0..n : acc[i] = g[i]}
      OBVIOUS
    <3>2. 0 \in P
      BY <1>1, <2>1, <3>1
    <3>3. ASSUME NEW i \in 1..n, i - 1 \in P PROVE i \in P
      BY <2>2, <3>1, <3>3
    <3>4. \A i \in 0..n : i \in P
      BY <1>1, <3>2, <3>3, UpTo
    <3> QED BY <3>1, <3>4
  <2>4. acc = [i \in 0..n |-> acc[i]]
    BY <1>1, <1>11
  <2> QED BY <1>6, <2>3, <2>4
<1> QED BY <1>1, <1>2, <1>6, <1>9, <1>10, <1>12, <1>13

LEMMA FilterAppend ==
    ASSUME NEW log \in Seq(Tags), NEW t \in Tags, NEW start \in Fates
    PROVE  /\ Passed(start, <<>>) = start
           /\ Passed(start, log) \in Fates
           /\ Passed(start, Append(log, t)) = Filter(Passed(start, log), t)
<1>1. PICK f \in [0..Len(log) -> Fates] :
              /\ f[0] = start
              /\ \A i \in 1..Len(log) : f[i] = Filter(f[i - 1], log[i])
              /\ Passed(start, log) = f[Len(log)]
  BY FilterIs
<1>2. PICK more \in Seq(Tags) : more = Append(log, t)
  BY AppendProperties
<1>3. PICK g \in [0..Len(more) -> Fates] :
              /\ g[0] = start
              /\ \A i \in 1..Len(more) : g[i] = Filter(g[i - 1], more[i])
              /\ Passed(start, more) = g[Len(more)]
  BY FilterIs
<1>4. PICK n \in Nat : n = Len(log)
  BY LenProperties
<1>5. Len(more) = n + 1 /\ more[n + 1] = t /\ \A i \in 1..n : more[i] = log[i]
  BY <1>2, <1>4, AppendProperties
<1>6. \A i \in 1..n : f[i - 1] = g[i - 1] => f[i] = g[i]
  BY <1>1, <1>3, <1>4, <1>5
<1>7. \A i \in 0..n : f[i] = g[i]
  <2>1. PICK P : P = {i \in 0..n : f[i] = g[i]}
    OBVIOUS
  <2>2. 0 \in P
    BY <1>1, <1>3, <1>4, <2>1
  <2>3. ASSUME NEW i \in 1..n, i - 1 \in P PROVE i \in P
    BY <1>6, <2>1, <2>3
  <2>4. \A i \in 0..n : i \in P
    BY <1>4, <2>2, <2>3, UpTo
  <2> QED BY <2>1, <2>4
<1>8. Passed(start, more) = Filter(Passed(start, log), t)
  BY <1>1, <1>3, <1>4, <1>5, <1>7
<1>9. Passed(start, <<>>) = start
  <2>1. <<>> \in Seq(Tags) /\ Len(<<>>) = 0
    BY EmptySeq
  <2>2. PICK e \in Seq(Tags) : e = <<>> /\ Len(e) = 0
    BY <2>1
  <2>3. PICK h \in [0..Len(e) -> Fates] : h[0] = start /\ Passed(start, e) = h[Len(e)]
    BY FilterIs
  <2> QED BY <2>2, <2>3
<1> QED BY <1>1, <1>2, <1>4, <1>8, <1>9

LEMMA GetStepIs ==
    ASSUME NEW type
    PROVE  \A a \in Reads, t \in Tags : GetStep(type, a, t) \in Reads
<1>1. ASSUME NEW a \in Reads, NEW t \in Tags PROVE GetStep(type, a, t) \in Reads
  <2>1. PICK d, i, v : d \in BOOLEAN /\ i \in Int /\ v \in Vals /\ a = [done |-> d, id |-> i, val |-> v]
    BY DEF Reads
  <2>2. Splice(t) \in Int /\ t.val \in Vals /\ t.id \in Int
    BY DEF Splice, Tags, Vals
  <2>3. PICK e : e \in BOOLEAN /\ e = (t.t = "CREATE" /\ t.id = a.id)
    OBVIOUS
  <2>4. PICK b : b = [a EXCEPT !.done = e, !.id = @ - Splice(t)]
    OBVIOUS
  <2>5. b \in Reads
    <3>1. PICK j \in Int : j = i - Splice(t)
      BY <2>1, <2>2
    <3>2. PICK c : c = [a EXCEPT !.done = e]
      OBVIOUS
    <3>3. c = [done |-> e, id |-> i, val |-> v]
      BY <2>1, <3>2
    <3>4. b = [c EXCEPT !.id = j]
      BY <2>1, <2>4, <3>1, <3>2
    <3>5. b = [done |-> e, id |-> j, val |-> v]
      BY <3>3, <3>4
    <3> QED BY <2>1, <2>3, <3>1, <3>5 DEF Reads
  <2>6. [a EXCEPT !.done = TRUE, !.val = t.val] \in Reads
    <3>1. PICK y \in BOOLEAN : y = TRUE
      OBVIOUS
    <3>2. PICK c : c = [a EXCEPT !.done = y]
      OBVIOUS
    <3>3. c = [done |-> y, id |-> i, val |-> v]
      BY <2>1, <3>2
    <3>4. [c EXCEPT !.val = t.val] = [done |-> y, id |-> i, val |-> t.val]
      BY <3>3
    <3>5. [c EXCEPT !.val = t.val] \in Reads
      BY <2>1, <2>2, <3>1, <3>4 DEF Reads
    <3> QED BY <3>1, <3>2, <3>5
  <2>7. GetStep(type, a, t) \in {a, b, [a EXCEPT !.done = TRUE, !.val = t.val]}
    BY <2>3, <2>4 DEF GetStep
  <2> QED BY <2>5, <2>6, <2>7
<1> QED BY <1>1

(* What becomes of a tag, tag by tag.                                     *)
LEMMA ReadIs ==
    ASSUME NEW log \in Seq(Tags), NEW type, NEW start \in Reads
    PROVE  \E acc \in [0..Len(log) -> Reads] :
              /\ acc[0] = start
              /\ \A i \in 1..Len(log) : acc[i] = GetStep(type, acc[i - 1], log[i])
              /\ ReadBy(type, start, log) = acc[Len(log)]
<1> DEFINE F(acc) == acc = [i \in 0..Len(log) |->
                IF i = 0 THEN start
                ELSE CHOOSE r \in {GetStep(type, a, log[i]) : a \in {acc[i - 1]}} : TRUE]
<1>0. \A x, t : (CHOOSE r \in {GetStep(type, a, t) : a \in {x}} : TRUE) = GetStep(type, x, t)
  OBVIOUS
<1>1. PICK n \in Nat : n = Len(log) /\ \A i \in 1..n : log[i] \in Tags
  BY LenProperties
<1>2. PICK V, zero : V = Reads /\ zero = start
  OBVIOUS
<1>3. zero \in V
  BY <1>2, GetStepIs
<1>14. \A a \in V, t \in Tags : GetStep(type, a, t) \in V
  BY <1>2, GetStepIs
<1>4. PICK step : step = [i \in 1..n |-> [a \in V |-> GetStep(type, a, log[i])]]
  OBVIOUS
<1>5. step \in [1..n -> [V -> V]]
  BY <1>1, <1>4, <1>14
<1>6. PICK g \in [0..n -> V] : g[0] = zero /\ \A i \in 1..n : g[i] = step[i][g[i - 1]]
  <2>1. n \in Nat
    BY <1>1
  <2>2. PICK g : IsFold(g, V, zero, n, step)
    BY <1>3, <1>5, <2>1, FoldIs
  <2> QED BY <2>2 DEF IsFold
<1>7. \A i \in 1..n : g[i - 1] \in V /\ g[i] = GetStep(type, g[i - 1], log[i])
  BY <1>4, <1>6
<1>8. F(g)
  BY <1>0, <1>1, <1>2, <1>6, <1>7
<1>9. ReadBy(type, start, log) = (CHOOSE acc : F(acc))[Len(log)]
  BY DEF ReadBy, Forward
<1>10. PICK acc : acc = CHOOSE x : F(x)
  OBVIOUS
<1>11. F(acc)
  <2> HIDE DEF F
  <2> QED BY <1>8, <1>10
<1>12. acc[0] = start /\ \A i \in 1..n : acc[i] = GetStep(type, acc[i - 1], log[i])
  BY <1>0, <1>1, <1>11
<1>13. acc = g
  <2>1. acc[0] = g[0]
    BY <1>2, <1>6, <1>12
  <2>2. \A i \in 1..n : acc[i - 1] = g[i - 1] => acc[i] = g[i]
    BY <1>7, <1>12
  <2>3. \A i \in 0..n : acc[i] = g[i]
    <3>1. PICK P : P = {i \in 0..n : acc[i] = g[i]}
      OBVIOUS
    <3>2. 0 \in P
      BY <1>1, <2>1, <3>1
    <3>3. ASSUME NEW i \in 1..n, i - 1 \in P PROVE i \in P
      BY <2>2, <3>1, <3>3
    <3>4. \A i \in 0..n : i \in P
      BY <1>1, <3>2, <3>3, UpTo
    <3> QED BY <3>1, <3>4
  <2>4. acc = [i \in 0..n |-> acc[i]]
    BY <1>1, <1>11
  <2> QED BY <1>6, <2>3, <2>4
<1> QED BY <1>1, <1>2, <1>6, <1>9, <1>10, <1>12, <1>13

LEMMA ReadCons ==
    ASSUME NEW log \in Seq(Tags), NEW t \in Tags, NEW type, NEW start \in Reads
    PROVE  /\ ReadBy(type, start, <<>>) = start
           /\ ReadBy(type, start, <<t>> \o log) = ReadBy(type, GetStep(type, start, t), log)
<1>1. PICK next \in Reads : next = GetStep(type, start, t)
  BY GetStepIs
<1>2. PICK f \in [0..Len(log) -> Reads] :
              /\ f[0] = next
              /\ \A i \in 1..Len(log) : f[i] = GetStep(type, f[i - 1], log[i])
              /\ ReadBy(type, next, log) = f[Len(log)]
  BY ReadIs
<1>3. PICK more \in Seq(Tags) : more = <<t>> \o log
  <2>1. <<t>> \in Seq(Tags)
    OBVIOUS
  <2> QED BY <2>1, ConcatProperties
<1>4. PICK g \in [0..Len(more) -> Reads] :
              /\ g[0] = start
              /\ \A i \in 1..Len(more) : g[i] = GetStep(type, g[i - 1], more[i])
              /\ ReadBy(type, start, more) = g[Len(more)]
  BY ReadIs
<1>5. PICK n \in Nat : n = Len(log)
  BY LenProperties
<1>6. Len(more) = n + 1 /\ more[1] = t /\ \A i \in 1..n : more[i + 1] = log[i]
  <2>1. PICK one \in Seq(Tags) : one = <<t>> /\ Len(one) = 1 /\ one[1] = t
    OBVIOUS
  <2>2. /\ Len(one \o log) = 1 + n
        /\ \A i \in 1..(1 + n) : (one \o log)[i] = IF i <= 1 THEN one[i] ELSE log[i - 1]
    BY <1>5, <2>1, ConcatProperties
  <2>3. ASSUME NEW i \in 1..n PROVE more[i + 1] = log[i]
    BY <1>3, <2>1, <2>2
  <2>4. more[1] = t
    BY <1>3, <1>5, <2>1, <2>2
  <2> QED BY <1>3, <1>5, <2>1, <2>2, <2>3, <2>4
<1>7. g[1] = f[0]
  BY <1>1, <1>2, <1>4, <1>5, <1>6
<1>8. \A i \in 1..n : f[i - 1] = g[i] => f[i] = g[i + 1]
  <2>1. ASSUME NEW i \in 1..n, f[i - 1] = g[i] PROVE f[i] = g[i + 1]
    <3>1. f[i] = GetStep(type, f[i - 1], log[i])
      BY <1>2, <1>5
    <3>2. i + 1 \in 1..Len(more) /\ (i + 1) - 1 = i /\ more[i + 1] = log[i]
      BY <1>5, <1>6
    <3>3. g[i + 1] = GetStep(type, g[i], more[i + 1])
      BY <1>4, <3>2
    <3> QED BY <2>1, <3>1, <3>2, <3>3
  <2> QED BY <2>1
<1>9. \A i \in 0..n : f[i] = g[i + 1]
  <2>1. PICK P : P = {i \in 0..n : f[i] = g[i + 1]}
    OBVIOUS
  <2>2. 0 \in P
    BY <1>5, <1>7, <2>1
  <2>3. ASSUME NEW i \in 1..n, i - 1 \in P PROVE i \in P
    <3>1. f[i - 1] = g[(i - 1) + 1] /\ (i - 1) + 1 = i /\ i \in 0..n
      BY <2>1, <2>3
    <3> QED BY <1>8, <2>1, <3>1
  <2>4. \A i \in 0..n : i \in P
    BY <1>5, <2>2, <2>3, UpTo
  <2> QED BY <2>1, <2>4
<1>10. ReadBy(type, start, <<>>) = start
  <2>1. <<>> \in Seq(Tags) /\ Len(<<>>) = 0
    BY EmptySeq
  <2>2. PICK e \in Seq(Tags) : e = <<>> /\ Len(e) = 0
    BY <2>1
  <2>3. PICK h \in [0..Len(e) -> Reads] :
              /\ h[0] = start
              /\ \A i \in 1..Len(e) : h[i] = GetStep(type, h[i - 1], e[i])
              /\ ReadBy(type, start, e) = h[Len(e)]
    BY ReadIs
  <2> QED BY <2>2, <2>3
<1>11. ReadBy(type, start, more) = ReadBy(type, next, log)
  BY <1>2, <1>4, <1>5, <1>6, <1>9
<1> QED BY <1>1, <1>3, <1>10, <1>11

(* What is read from a log is the last tag, then what is read from the     *)
(* others.                                                                 *)
LEMMA GetAppend ==
    ASSUME NEW log \in Seq(Tags), NEW t \in Tags, NEW type, NEW start \in Reads
    PROVE  /\ GetFrom(<<>>, type, start) = start
           /\ GetFrom(Append(log, t), type, start) = GetFrom(log, type, GetStep(type, start, t))
<1>1. \A s, l : GetFrom(l, type, s) = ReadBy(type, s, Reverse(l))
  BY DEF GetFrom, ReadBy, Backward
<1>2. PICK n \in Nat : n = Len(log)
  BY LenProperties
<1>3. Reverse(log) \in Seq(Tags) /\ Len(Reverse(log)) = n
  <2>1. \A i \in 1..n : log[(n - i) + 1] \in Tags
    BY <1>2, LenProperties
  <2> QED BY <1>2, <2>1, IsASeq DEF Reverse
<1>4. Reverse(Append(log, t)) = <<t>> \o Reverse(log)
  <2>1. PICK more : more = Append(log, t)
    OBVIOUS
  <2>8. /\ more \in Seq(Tags) /\ Len(more) = n + 1 /\ more[n + 1] = t
        /\ \A i \in 1..n : more[i] = log[i]
    BY <1>2, <2>1, AppendProperties
  <2>2. PICK one : one = <<t>>
    OBVIOUS
  <2>9. one \in Seq(Tags) /\ Len(one) = 1 /\ one[1] = t
    BY <2>2
  <2>3. PICK back \in Seq(Tags) : back = Reverse(log) /\ Len(back) = n
    BY <1>3
  <2>4. /\ one \o back \in Seq(Tags) /\ Len(one \o back) = 1 + n
        /\ \A i \in 1..(1 + n) : (one \o back)[i] = IF i <= 1 THEN one[i] ELSE back[i - 1]
    <3>1. Len(one \o back) = Len(one) + Len(back)
      BY <2>3, <2>9, ConcatProperties
    <3>2. \A i \in 1..(Len(one) + Len(back)) :
             (one \o back)[i] = IF i <= Len(one) THEN one[i] ELSE back[i - Len(one)]
      BY <2>3, <2>9, ConcatProperties
    <3>3. one \o back \in Seq(Tags)
      BY <2>3, <2>9, ConcatProperties
    <3> QED BY <2>3, <2>9, <3>1, <3>2, <3>3
  <2>5. Reverse(more) \in Seq(Tags) /\ Len(Reverse(more)) = n + 1
    <3>1. \A i \in 1..(n + 1) : more[((n + 1) - i) + 1] \in Tags
      BY <2>8, LenProperties
    <3> QED BY <2>8, <3>1, IsASeq DEF Reverse
  <2>6. ASSUME NEW i \in 1..(n + 1) PROVE Reverse(more)[i] = (one \o back)[i]
    <3>1. Reverse(more)[i] = more[((n + 1) - i) + 1]
      BY <2>8 DEF Reverse
    <3>2. CASE i = 1
      <4>1. ((n + 1) - i) + 1 = n + 1
        BY <3>2
      <4> QED BY <2>8, <2>9, <2>4, <3>1, <3>2, <4>1
    <3>3. CASE i # 1
      <4>1. i - 1 \in 1..n /\ ((n + 1) - i) + 1 = (n - (i - 1)) + 1 /\ (n - (i - 1)) + 1 \in 1..n
        BY <3>3
      <4>2. back[i - 1] = log[(n - (i - 1)) + 1]
        BY <1>2, <2>3, <4>1 DEF Reverse
      <4>3. (one \o back)[i] = back[i - 1]
        BY <2>4, <3>3
      <4> QED BY <2>8, <3>1, <4>1, <4>2, <4>3
    <3> QED BY <3>2, <3>3
  <2>7. Reverse(more) = one \o back
    <3>1. Len(Reverse(more)) = Len(one \o back) /\ \A i \in 1..Len(one \o back) : Reverse(more)[i] = (one \o back)[i]
      <4>1. Len(one \o back) = n + 1 /\ Len(Reverse(more)) = n + 1
        BY <2>4, <2>5
      <4> QED BY <2>6, <4>1
    <3> QED BY <2>4, <2>5, <3>1, SeqEqual
  <2> QED BY <2>1, <2>2, <2>3, <2>7
<1>5. ReadBy(type, start, <<t>> \o Reverse(log)) = ReadBy(type, GetStep(type, start, t), Reverse(log))
  BY <1>3, ReadCons
<1>6. Reverse(<<>>) = <<>>
  BY DEF Reverse
<1>7. ReadBy(type, start, <<>>) = start
  BY ReadCons
<1> QED BY <1>1, <1>4, <1>5, <1>6, <1>7

(* The entries of a log, tag by tag.                                       *)
LEMMA ReplayIs ==
    ASSUME NEW log \in Seq(Tags)
    PROVE  \E acc :
              /\ acc[0] = <<>>
              /\ \A i \in 1..Len(log) : acc[i] = Apply(acc[i - 1], log[i])
              /\ Replay(log) = acc[Len(log)]
<1> DEFINE F(acc) == acc = [i \in 0..Len(log) |->
                IF i = 0 THEN <<>>
                ELSE CHOOSE r \in {Apply(a, log[i]) : a \in {acc[i - 1]}} : TRUE]
           Follows(acc, m) == acc = [i \in 0..m |-> IF i = 0 THEN <<>> ELSE Apply(acc[i - 1], log[i])]
<1>0. \A x, t : (CHOOSE r \in {Apply(a, t) : a \in {x}} : TRUE) = Apply(x, t)
  OBVIOUS
<1>1. PICK n \in Nat : n = Len(log)
  BY LenProperties
<1>2. \E acc : Follows(acc, n)
  <2>1. PICK P : P = {m \in 0..n : \E acc : Follows(acc, m)}
    OBVIOUS
  <2>2. 0 \in P
    <3>1. PICK acc : acc = [i \in 0..0 |-> <<>>]
      OBVIOUS
    <3>2. Follows(acc, 0)
      BY <3>1
    <3>3. 0 \in 0..n
      OBVIOUS
    <3> HIDE DEF Follows
    <3> QED BY <2>1, <3>2, <3>3
  <2>3. ASSUME NEW m \in 1..n, m - 1 \in P PROVE m \in P
    <3>1. PICK acc : Follows(acc, m - 1)
      <4> HIDE DEF Follows
      <4> QED BY <2>1, <2>3
    <3>2. PICK v : v = Apply(acc[m - 1], log[m])
      OBVIOUS
    <3>3. PICK f : f = [i \in 0..m |-> IF i = m THEN v ELSE acc[i]]
      OBVIOUS
    <3>4. ASSUME NEW i \in 0..m PROVE f[i] = IF i = 0 THEN <<>> ELSE Apply(f[i - 1], log[i])
      <4>1. CASE i = m
        <5>1. i # 0 /\ i - 1 \in 0..m /\ i - 1 # m /\ f[i - 1] = acc[i - 1] /\ f[i] = v
          BY <3>3, <4>1
        <5> QED BY <3>2, <4>1, <5>1
      <4>2. CASE i # m /\ i # 0
        <5>1. i \in 0..m - 1 /\ i - 1 \in 0..m /\ i - 1 # m
          BY <4>2
        <5>2. f[i] = acc[i] /\ f[i - 1] = acc[i - 1]
          BY <3>3, <4>2, <5>1
        <5>3. acc[i] = Apply(acc[i - 1], log[i])
          BY <3>1, <4>2, <5>1
        <5> QED BY <4>2, <5>2, <5>3
      <4>3. CASE i = 0
        BY <3>1, <3>3, <4>3
      <4> QED BY <4>1, <4>2, <4>3
    <3>5. Follows(f, m)
      BY <3>3, <3>4
    <3>6. m \in 0..n
      OBVIOUS
    <3> HIDE DEF Follows
    <3> QED BY <2>1, <3>5, <3>6
  <2>4. \A i \in 0..n : i \in P
    BY <2>2, <2>3, UpTo
  <2>5. n \in P
    BY <2>4
  <2> HIDE DEF Follows
  <2> QED BY <2>1, <2>5
<1>3. PICK g : Follows(g, n)
  BY <1>2
<1>4. F(g)
  <2>1. \A i \in 0..n : g[i] = IF i = 0 THEN <<>> ELSE Apply(g[i - 1], log[i])
    BY <1>3
  <2>2. g = [i \in 0..n |-> g[i]]
    BY <1>3
  <2> QED BY <1>0, <1>1, <2>1, <2>2
<1>5. Replay(log) = (CHOOSE acc : F(acc))[Len(log)]
  BY DEF Replay, Forward
<1>6. PICK acc : acc = CHOOSE x : F(x)
  OBVIOUS
<1>7. F(acc)
  <2> HIDE DEF F
  <2> QED BY <1>4, <1>6
<1>8. acc[0] = <<>> /\ \A i \in 1..Len(log) : acc[i] = Apply(acc[i - 1], log[i])
  BY <1>0, <1>1, <1>7
<1> QED BY <1>5, <1>6, <1>8

LEMMA ReplayAppend ==
    ASSUME NEW log \in Seq(Tags), NEW t \in Tags
    PROVE  Replay(<<>>) = <<>> /\ Replay(Append(log, t)) = Apply(Replay(log), t)
<1>1. PICK f :
              /\ f[0] = <<>>
              /\ \A i \in 1..Len(log) : f[i] = Apply(f[i - 1], log[i])
              /\ Replay(log) = f[Len(log)]
  BY ReplayIs
<1>2. PICK more \in Seq(Tags) : more = Append(log, t)
  BY AppendProperties
<1>3. PICK g :
              /\ g[0] = <<>>
              /\ \A i \in 1..Len(more) : g[i] = Apply(g[i - 1], more[i])
              /\ Replay(more) = g[Len(more)]
  BY ReplayIs
<1>4. PICK n \in Nat : n = Len(log)
  BY LenProperties
<1>5. Len(more) = n + 1 /\ more[n + 1] = t /\ \A i \in 1..n : more[i] = log[i]
  BY <1>2, <1>4, AppendProperties
<1>6. \A i \in 1..n : f[i - 1] = g[i - 1] => f[i] = g[i]
  BY <1>1, <1>3, <1>4, <1>5
<1>7. \A i \in 0..n : f[i] = g[i]
  <2>1. PICK P : P = {i \in 0..n : f[i] = g[i]}
    OBVIOUS
  <2>2. 0 \in P
    BY <1>1, <1>3, <1>4, <2>1
  <2>3. ASSUME NEW i \in 1..n, i - 1 \in P PROVE i \in P
    BY <1>6, <2>1, <2>3
  <2>4. \A i \in 0..n : i \in P
    BY <1>4, <2>2, <2>3, UpTo
  <2> QED BY <2>1, <2>4
<1>8. Replay(more) = Apply(Replay(log), t)
  <2>1. n + 1 \in 1..Len(more) /\ (n + 1) - 1 = n /\ n \in 0..n
    BY <1>5
  <2>2. g[n + 1] = Apply(g[n], t)
    BY <1>3, <1>5, <2>1
  <2>3. Replay(log) = f[n] /\ f[n] = g[n]
    <3>1. f[n] = g[n]
      BY <1>7, <2>1
    <3>2. Replay(log) = f[Len(log)]
      BY <1>1
    <3> QED BY <1>4, <3>1, <3>2
  <2>4. Replay(more) = g[n + 1]
    BY <1>3, <1>5
  <2> QED BY <2>2, <2>3, <2>4
<1>9. Replay(<<>>) = <<>>
  <2>1. PICK e \in Seq(Tags) : e = <<>> /\ Len(e) = 0
    BY EmptySeq
  <2>2. PICK h : h[0] = <<>> /\ Replay(e) = h[Len(e)]
    BY ReplayIs
  <2> QED BY <2>1, <2>2
<1> QED BY <1>2, <1>8, <1>9

(* The places in parts of what a flattened sequence w of the first m of    *)
(* them holds, when each is empty or has one element.                      *)
Places(pos, w, parts, m) ==
    /\ pos \in [1..Len(w) -> 1..m]
    /\ \A k, l \in 1..Len(w) : k < l => pos[k] < pos[l]
    /\ \A k \in 1..Len(w) : parts[pos[k]] = <<w[k]>>
    /\ \A i \in 1..m : parts[i] # <<>> => \E k \in 1..Len(w) : pos[k] = i

LEMMA PlacesGrow ==
    ASSUME NEW S, NEW w \in Seq(S), NEW parts, NEW m \in Nat \ {0}, NEW pos,
           Places(pos, w, parts, m - 1),
           NEW v, v \in Seq(S), v = w \o parts[m],
           parts[m] = <<>> \/ \E s \in S : parts[m] = <<s>>
    PROVE  \E q : Places(q, v, parts, m)
<1>1. PICK n \in Nat : n = Len(w)
  BY LenProperties
<1>2. CASE parts[m] = <<>>
  <2>1. v = w
    BY <1>2, ConcatEmptySeq
  <2>2. \A i \in 1..m : i \in 1..m - 1 \/ i = m
    OBVIOUS
  <2>3. pos \in [1..Len(w) -> 1..m]
    BY DEF Places
  <2>4. Places(pos, w, parts, m)
    BY <1>2, <2>2, <2>3 DEF Places
  <2> QED BY <2>1, <2>4
<1>3. CASE \E s \in S : parts[m] = <<s>>
  <2>1. PICK s \in S : parts[m] = <<s>>
    BY <1>3
  <2>2. v = Append(w, s)
    BY <2>1, AppendIsConcat
  <2>3. Len(v) = n + 1 /\ v[n + 1] = s /\ \A k \in 1..n : v[k] = w[k]
    BY <1>1, <2>2, AppendProperties
  <2>4. PICK q : q = [k \in 1..n + 1 |-> IF k = n + 1 THEN m ELSE pos[k]]
    OBVIOUS
  <2>5. /\ \A k \in 1..n : k \in 1..n + 1 /\ k # n + 1 /\ q[k] = pos[k] /\ pos[k] \in 1..m - 1
        /\ q[n + 1] = m /\ n + 1 \in 1..n + 1
    <3>1. \A k \in 1..n : k \in 1..n + 1 /\ k # n + 1
      OBVIOUS
    <3>2. n + 1 \in 1..n + 1
      OBVIOUS
    <3>3. \A k \in 1..n : pos[k] \in 1..m - 1
      BY <1>1 DEF Places
    <3> QED BY <2>4, <3>1, <3>2, <3>3
  <2>6. \A k \in 1..n + 1 : k \in 1..n \/ k = n + 1
    OBVIOUS
  <2>7. q \in [1..n + 1 -> 1..m]
    <3>1. \A i \in 1..m - 1 : i \in 1..m
      OBVIOUS
    <3>2. m \in 1..m
      OBVIOUS
    <3>3. \A k \in 1..n + 1 : q[k] \in 1..m
      BY <2>5, <2>6, <3>1, <3>2
    <3> QED BY <2>4, <3>3
  <2>8. ASSUME NEW k \in 1..n + 1, NEW l \in 1..n + 1, k < l PROVE q[k] < q[l]
    <3>1. k \in 1..n
      BY <2>8
    <3>2. CASE l = n + 1
      <4>1. q[k] \in 1..m - 1 /\ q[l] = m
        BY <2>5, <3>1, <3>2
      <4> QED BY <4>1
    <3>3. CASE l \in 1..n
      <4>1. pos[k] < pos[l]
        BY <1>1, <2>8, <3>1, <3>3 DEF Places
      <4>2. q[k] = pos[k] /\ q[l] = pos[l]
        BY <2>5, <3>1, <3>3
      <4> QED BY <4>1, <4>2
    <3> QED BY <2>6, <3>2, <3>3
  <2>9. ASSUME NEW k \in 1..n + 1 PROVE parts[q[k]] = <<v[k]>>
    BY <1>1, <2>1, <2>3, <2>5, <2>6 DEF Places
  <2>10. ASSUME NEW i \in 1..m, parts[i] # <<>> PROVE \E k \in 1..n + 1 : q[k] = i
    <3>1. CASE i = m
      BY <2>5, <3>1
    <3>2. CASE i # m
      <4>1. i \in 1..m - 1
        BY <3>2
      <4>2. PICK k \in 1..n : pos[k] = i
        BY <1>1, <2>10, <4>1 DEF Places
      <4> QED BY <2>5, <4>2
    <3> QED BY <3>1, <3>2
  <2>11. Places(q, v, parts, m)
    BY <2>3, <2>7, <2>8, <2>9, <2>10 DEF Places
  <2> QED BY <2>11
<1> QED BY <1>2, <1>3

LEMMA FlattenIs ==
    ASSUME NEW S, NEW n \in Nat, NEW parts, parts = [i \in 1..n |-> parts[i]],
           \A i \in 1..n : parts[i] = <<>> \/ \E s \in S : parts[i] = <<s>>
    PROVE  FlattenSeq(parts) \in Seq(S) /\ \E pos : Places(pos, FlattenSeq(parts), parts, n)
<1> DEFINE F(f) == f = [i \in 1..Len(parts) |-> IF i = 1 THEN parts[i] ELSE f[i - 1] \o parts[i]]
<1>1. ASSUME NEW i \in 1..n PROVE parts[i] \in Seq(S)
  <2>1. CASE parts[i] = <<>>
    BY <2>1, EmptySeq
  <2>2. CASE \E s \in S : parts[i] = <<s>>
    <3>1. PICK s \in S : parts[i] = <<s>>
      BY <2>2
    <3>2. <<s>> \in Seq(S)
      OBVIOUS
    <3> QED BY <3>1, <3>2
  <2> QED BY <2>1, <2>2
<1>2. parts \in Seq(Seq(S)) /\ Len(parts) = n
  BY <1>1, IsASeq
<1>3. PICK V, zero : V = Seq(S) /\ zero = <<>>
  OBVIOUS
<1>4. zero \in V
  BY <1>3, EmptySeq
<1>5. PICK step : step = [i \in 1..n |-> [a \in V |-> a \o parts[i]]]
  OBVIOUS
<1>6. step \in [1..n -> [V -> V]]
  <2>1. \A i \in 1..n : \A a \in V : a \o parts[i] \in V
    BY <1>1, <1>3, ConcatProperties
  <2> QED BY <1>5, <2>1
<1>7. PICK g : IsFold(g, V, zero, n, step)
  BY <1>4, <1>6, FoldIs
<1>8. g[0] = <<>> /\ \A i \in 0..n : g[i] \in Seq(S)
  BY <1>3, <1>7 DEF IsFold
<1>9. ASSUME NEW i \in 1..n PROVE g[i] = g[i - 1] \o parts[i]
  <2>1. g[i - 1] \in V
    BY <1>3, <1>8
  <2> QED BY <1>5, <1>7, <2>1 DEF IsFold
<1>10. FlattenSeq(parts) = g[n]
  <2>1. CASE n = 0
    <3>1. parts = <<>>
      BY <1>2, <2>1
    <3> QED BY <1>2, <1>8, <2>1, <3>1 DEF FlattenSeq
  <2>2. CASE n # 0
    <3>1. PICK f : f = [i \in 1..n |-> g[i]]
      OBVIOUS
    <3>2. ASSUME NEW i \in 1..n PROVE f[i] = IF i = 1 THEN parts[i] ELSE f[i - 1] \o parts[i]
      <4>1. CASE i = 1
        <5>1. g[1] = g[0] \o parts[1]
          <6>1. g[i] = g[i - 1] \o parts[i]
            BY <1>9
          <6>2. i - 1 = 0
            BY <4>1
          <6> QED BY <4>1, <6>1, <6>2
        <5>2. <<>> \o parts[1] = parts[1]
          BY <1>1, <4>1, ConcatEmptySeq
        <5> QED BY <1>8, <3>1, <4>1, <5>1, <5>2
      <4>2. CASE i # 1
        <5>1. i - 1 \in 1..n
          BY <4>2
        <5> QED BY <1>9, <3>1, <4>2, <5>1
      <4> QED BY <4>1, <4>2
    <3>3. F(f)
      BY <1>2, <3>1, <3>2
    <3>4. FlattenSeq(parts) = (CHOOSE x : F(x))[Len(parts)]
      BY <1>2, <2>2 DEF FlattenSeq
    <3>5. PICK h : h = CHOOSE x : F(x)
      OBVIOUS
    <3>6. F(h)
      <4> HIDE DEF F
      <4> QED BY <3>3, <3>5
    <3>7. \A i \in 1..n : h[i] = IF i = 1 THEN parts[i] ELSE h[i - 1] \o parts[i]
      BY <1>2, <3>6
    <3>8. \A i \in 1..n : h[i] = f[i]
      <4>1. PICK P : P = {i \in 0..n : i = 0 \/ h[i] = f[i]}
        OBVIOUS
      <4>2. 0 \in P
        BY <4>1
      <4>3. ASSUME NEW i \in 1..n, i - 1 \in P PROVE i \in P
        <5>1. h[i] = f[i]
          <6>1. CASE i = 1
            BY <3>2, <3>7, <6>1
          <6>2. CASE i # 1
            <7>1. i - 1 # 0 /\ h[i - 1] = f[i - 1]
              BY <4>1, <4>3, <6>2
            <7> QED BY <3>2, <3>7, <6>2, <7>1
          <6> QED BY <6>1, <6>2
        <5> QED BY <4>1, <5>1
      <4>4. \A i \in 0..n : i \in P
        BY <4>2, <4>3, UpTo
      <4> QED BY <4>1, <4>4
    <3>9. n \in 1..n
      BY <2>2
    <3> QED BY <1>2, <3>1, <3>4, <3>5, <3>8, <3>9
  <2> QED BY <2>1, <2>2
<1>11. \E pos : Places(pos, g[n], parts, n)
  <2>1. PICK P : P = {m \in 0..n : \E pos : Places(pos, g[m], parts, m)}
    OBVIOUS
  <2>2. 0 \in P
    <3>1. PICK pos : pos = [k \in 1..0 |-> 0]
      OBVIOUS
    <3>2. Len(g[0]) = 0
      BY <1>8, EmptySeq
    <3>3. pos \in [1..Len(g[0]) -> 1..0]
      BY <3>1, <3>2
    <3>4. Places(pos, g[0], parts, 0)
      BY <3>2, <3>3 DEF Places
    <3>5. 0 \in 0..n
      OBVIOUS
    <3> QED BY <2>1, <3>4, <3>5
  <2>3. ASSUME NEW m \in 1..n, m - 1 \in P PROVE m \in P
    <3>1. PICK pos : Places(pos, g[m - 1], parts, m - 1)
      BY <2>1, <2>3
    <3>5. m - 1 \in 0..n /\ m \in 0..n
      OBVIOUS
    <3>2. g[m - 1] \in Seq(S) /\ g[m] \in Seq(S) /\ g[m] = g[m - 1] \o parts[m]
      BY <1>8, <1>9, <3>5
    <3>3. m \in Nat \ {0} /\ m \in 0..n
      OBVIOUS
    <3>4. \E q : Places(q, g[m], parts, m)
      BY <3>1, <3>2, <3>3, PlacesGrow
    <3> QED BY <2>1, <3>3, <3>4
  <2>4. \A i \in 0..n : i \in P
    BY <2>2, <2>3, UpTo
  <2>5. n \in P
    BY <2>4
  <2> QED BY <2>1, <2>5
<1>12. n \in 0..n
  OBVIOUS
<1> HIDE DEF F
<1> QED BY <1>8, <1>10, <1>11, <1>12

-----------------------------------------------------------------------------
(* What becomes of the tags of a log.                                      *)
Untouched(tag) == [redundant |-> FALSE, tag |-> tag]

LEMMA UntouchedIs ==
    ASSUME NEW t \in Tags
    PROVE  Untouched(t) \in Fates /\ ~Untouched(t).redundant /\ Untouched(t).tag = t
BY DEF Untouched, Fates

LEMMA FateAppend ==
    ASSUME NEW log \in Seq(Tags), NEW t \in Tags
    PROVE  /\ \A i \in 1..Len(log) :
                /\ Fate(log, i) \in Fates
                /\ Fate(Append(log, t), i) = Filter(Fate(log, i), t)
                /\ Append(log, t)[i] = log[i]
           /\ Fate(Append(log, t), Len(log) + 1) = Untouched(t)
           /\ Append(log, t)[Len(log) + 1] = t
<1>1. PICK n \in Nat : n = Len(log)
  BY LenProperties
<1>2. \A l, i : Fate(l, i) = Passed(Untouched(l[i]), SubSeq(l, i + 1, Len(l)))
  BY DEF Fate, Passed, Untouched
<1>3. PICK more : more = Append(log, t)
  OBVIOUS
<1>4. /\ more \in Seq(Tags) /\ Len(more) = n + 1 /\ more[n + 1] = t
      /\ \A i \in 1..n : more[i] = log[i] /\ log[i] \in Tags
  BY <1>1, <1>3, AppendProperties, LenProperties
<1>5. ASSUME NEW i \in 1..n
      PROVE  Fate(log, i) \in Fates /\ Fate(more, i) = Filter(Fate(log, i), t)
  <2>1. PICK s : s = SubSeq(log, i + 1, n)
    OBVIOUS
  <2>2. s \in Seq(Tags) /\ Len(s) = n - i
        /\ \A j \in 1..(n - i) : s[j] = log[i + j]
    BY <1>1, <2>1
  <2>3. PICK u : u = SubSeq(more, i + 1, n + 1)
    OBVIOUS
  <2>4. u \in Seq(Tags) /\ Len(u) = (n - i) + 1
        /\ \A j \in 1..(n - i) + 1 : u[j] = more[i + j]
    BY <1>4, <2>3
  <2>5. PICK v : v = Append(s, t)
    OBVIOUS
  <2>6. v \in Seq(Tags) /\ Len(v) = (n - i) + 1 /\ v[(n - i) + 1] = t
        /\ \A j \in 1..(n - i) : v[j] = s[j]
    <3>1. PICK m \in Nat : m = n - i /\ m = Len(s)
      BY <2>2
    <3>2. s \in Seq(Tags)
      BY <2>2
    <3>3. /\ v \in Seq(Tags) /\ Len(v) = Len(s) + 1
          /\ \A j \in 1..Len(s) : v[j] = s[j]
          /\ v[Len(s) + 1] = t
      BY <2>5, <3>2, AppendProperties
    <3> QED BY <3>1, <3>3
  <2>7. ASSUME NEW j \in 1..(n - i) + 1 PROVE u[j] = v[j]
    <3>1. CASE j = (n - i) + 1
      <4>1. i + j = n + 1
        BY <3>1
      <4> QED BY <1>4, <2>4, <2>6, <3>1, <4>1
    <3>2. CASE j # (n - i) + 1
      <4>1. j \in 1..(n - i) /\ i + j \in 1..n
        BY <3>2
      <4> QED BY <1>4, <2>2, <2>4, <2>6, <4>1
    <3> QED BY <3>1, <3>2
  <2>8. u = v
    BY <2>4, <2>6, <2>7, SeqEqual
  <2>9. Untouched(log[i]) \in Fates
    BY <1>4, UntouchedIs
  <2>10. /\ Passed(Untouched(log[i]), s) \in Fates
         /\ Passed(Untouched(log[i]), v) = Filter(Passed(Untouched(log[i]), s), t)
    BY <2>2, <2>5, <2>9, FilterAppend
  <2> QED BY <1>1, <1>2, <1>4, <2>1, <2>3, <2>8, <2>10
<1>6. Fate(more, n + 1) = Untouched(t)
  <2>1. SubSeq(more, (n + 1) + 1, n + 1) = <<>>
    BY SubSeqEmpty
  <2>2. Untouched(t) \in Fates
    BY UntouchedIs
  <2>3. Passed(Untouched(t), <<>>) = Untouched(t)
    BY <1>4, <2>2, FilterAppend
  <2> QED BY <1>2, <1>4, <2>1, <2>3
<1> QED BY <1>1, <1>3, <1>4, <1>5, <1>6

LEMMA FateIs ==
    ASSUME NEW log \in Seq(Tags), NEW i \in 1..Len(log)
    PROVE  Fate(log, i) \in Fates
<1>1. log[i] \in Tags
  BY ElementOfSeq
<1> QED BY <1>1, FateAppend

(* Where what a compaction of the log writes is in the log.                *)
Compacts(pos, w, log) ==
    /\ w \in Seq(Tags)
    /\ pos \in [1..Len(w) -> 1..Len(log)]
    /\ \A k, l \in 1..Len(w) : k < l => pos[k] < pos[l]
    /\ \A k \in 1..Len(w) : IsKept(log, pos[k]) /\ w[k] = Fate(log, pos[k]).tag
    /\ \A i \in 1..Len(log) : IsKept(log, i) => \E k \in 1..Len(w) : pos[k] = i

LEMMA CompactedHas ==
    ASSUME NEW log \in Seq(Tags)
    PROVE  \E pos : Compacts(pos, Compacted(log), log)
<1>1. PICK n \in Nat : n = Len(log)
  BY LenProperties
<1>2. PICK parts : parts = [i \in 1..n |-> IF IsKept(log, i) THEN <<Fate(log, i).tag>> ELSE <<>>]
  OBVIOUS
<1>3. parts = [i \in 1..n |-> parts[i]]
  BY <1>2
<1>4. ASSUME NEW i \in 1..n PROVE Fate(log, i).tag \in Tags
  BY <1>1, FateIs DEF Fates
<1>5. \A i \in 1..n : parts[i] = <<>> \/ \E s \in Tags : parts[i] = <<s>>
  BY <1>2, <1>4
<1>6. Compacted(log) = FlattenSeq(parts)
  BY <1>1, <1>2 DEF Compacted
<1>7. PICK w : w = FlattenSeq(parts)
  OBVIOUS
<1>8. w \in Seq(Tags) /\ \E pos : Places(pos, w, parts, n)
  BY <1>3, <1>5, <1>7, FlattenIs
<1>9. PICK pos : Places(pos, w, parts, n)
  BY <1>8
<1>10. pos \in [1..Len(w) -> 1..n] /\ \A k, l \in 1..Len(w) : k < l => pos[k] < pos[l]
  BY <1>9 DEF Places
<1>11. ASSUME NEW k \in 1..Len(w) PROVE IsKept(log, pos[k]) /\ w[k] = Fate(log, pos[k]).tag
  <2>1. PICK i \in 1..n : i = pos[k]
    BY <1>10
  <2>2. parts[i] = <<w[k]>>
    BY <1>9, <2>1 DEF Places
  <2>3. parts[i] # <<>>
    BY <2>2
  <2>4. IsKept(log, i) /\ parts[i] = <<Fate(log, i).tag>>
    BY <1>2, <2>3
  <2>5. w[k] = Fate(log, i).tag
    BY <2>2, <2>4
  <2> QED BY <2>1, <2>4, <2>5
<1>12. ASSUME NEW i \in 1..n, IsKept(log, i) PROVE \E k \in 1..Len(w) : pos[k] = i
  <2>1. parts[i] = <<Fate(log, i).tag>>
    BY <1>2, <1>12
  <2>2. parts[i] # <<>>
    BY <2>1
  <2> QED BY <1>9, <2>2 DEF Places
<1>13. Compacts(pos, w, log)
  BY <1>1, <1>8, <1>10, <1>11, <1>12 DEF Compacts
<1> QED BY <1>6, <1>7, <1>13

LEMMA CompactedIs ==
    ASSUME NEW log \in Seq(Tags) PROVE Compacted(log) \in Seq(Tags)
BY CompactedHas DEF Compacts

(* Where the structs that move with an entry are among those that are kept.*)
Moves(pos, w, kept, from, to) ==
    /\ w \in Seq(Tags)
    /\ pos \in [1..Len(w) -> 1..Len(kept)]
    /\ \A k, l \in 1..Len(w) : k < l => pos[k] < pos[l]
    /\ \A k \in 1..Len(w) :
          /\ kept[pos[k]].t = "STRUCT" /\ kept[pos[k]].id = from
          /\ w[k] = Tag("STRUCT", to, kept[pos[k]].val)
    /\ \A i \in 1..Len(kept) : kept[i].t = "STRUCT" /\ kept[i].id = from
                                  => \E k \in 1..Len(w) : pos[k] = i

LEMMA MovedHas ==
    ASSUME NEW log \in Seq(Tags), NEW from, NEW to \in Int
    PROVE  \E pos : Moves(pos, MovedTags(log, from, to), Compacted(log), from, to)
<1>1. PICK kept \in Seq(Tags) : kept = Compacted(log)
  BY CompactedIs
<1>2. PICK n \in Nat : n = Len(kept) /\ \A i \in 1..n : kept[i] \in Tags
  BY LenProperties
<1>3. PICK parts : parts = [i \in 1..n |->
                       IF kept[i].t = "STRUCT" /\ kept[i].id = from
                       THEN <<[kept[i] EXCEPT !.id = to]>> ELSE <<>>]
  OBVIOUS
<1>4. parts = [i \in 1..n |-> parts[i]]
  BY <1>3
<1>5. ASSUME NEW i \in 1..n, kept[i].t = "STRUCT"
      PROVE  [kept[i] EXCEPT !.id = to] \in Tags /\ [kept[i] EXCEPT !.id = to] = Tag("STRUCT", to, kept[i].val)
  <2>1. kept[i] \in Tags
    BY <1>2
  <2>2. PICK ty, d, v : kept[i] = [t |-> ty, id |-> d, val |-> v] /\ v \in Names \cup Structs \cup {None}
    BY <2>1 DEF Tags
  <2>3. ty = "STRUCT" /\ kept[i].val = v
    BY <1>5, <2>2
  <2>4. [kept[i] EXCEPT !.id = to] = [t |-> ty, id |-> to, val |-> v]
    BY <2>2
  <2>5. [t |-> "STRUCT", id |-> to, val |-> v] \in Tags
    BY <2>2 DEF Tags
  <2> QED BY <2>3, <2>4, <2>5 DEF Tag
<1>6. \A i \in 1..n : parts[i] = <<>> \/ \E s \in Tags : parts[i] = <<s>>
  BY <1>3, <1>5
<1>7. MovedTags(log, from, to) = FlattenSeq(parts)
  BY <1>1, <1>2, <1>3 DEF MovedTags
<1>8. PICK w : w = FlattenSeq(parts)
  OBVIOUS
<1>9. w \in Seq(Tags) /\ \E pos : Places(pos, w, parts, n)
  BY <1>4, <1>6, <1>8, FlattenIs
<1>10. PICK pos : Places(pos, w, parts, n)
  BY <1>9
<1>11. pos \in [1..Len(w) -> 1..n] /\ \A k, l \in 1..Len(w) : k < l => pos[k] < pos[l]
  BY <1>10 DEF Places
<1>12. ASSUME NEW k \in 1..Len(w)
       PROVE  /\ kept[pos[k]].t = "STRUCT" /\ kept[pos[k]].id = from
              /\ w[k] = Tag("STRUCT", to, kept[pos[k]].val)
  <2>1. PICK i \in 1..n : i = pos[k]
    BY <1>11
  <2>2. parts[i] = <<w[k]>>
    BY <1>10, <2>1 DEF Places
  <2>3. parts[i] # <<>>
    BY <2>2
  <2>4. kept[i].t = "STRUCT" /\ kept[i].id = from /\ parts[i] = <<[kept[i] EXCEPT !.id = to]>>
    BY <1>3, <2>3
  <2>5. w[k] = [kept[i] EXCEPT !.id = to]
    BY <2>2, <2>4
  <2> QED BY <1>5, <2>1, <2>4, <2>5
<1>13. ASSUME NEW i \in 1..n, kept[i].t = "STRUCT", kept[i].id = from
       PROVE  \E k \in 1..Len(w) : pos[k] = i
  <2>1. parts[i] = <<[kept[i] EXCEPT !.id = to]>>
    BY <1>3, <1>13
  <2>2. parts[i] # <<>>
    BY <2>1
  <2> QED BY <1>10, <2>2 DEF Places
<1>14. Moves(pos, w, kept, from, to)
  BY <1>2, <1>9, <1>11, <1>12, <1>13 DEF Moves
<1> QED BY <1>1, <1>7, <1>8, <1>14

LEMMA TagIs ==
    ASSUME NEW id \in Int
    PROVE  /\ Tag("CREATE", id, None) \in Tags /\ Tag("DELETE", id, None) \in Tags
           /\ \A n \in Names : Tag("NAME", id, n) \in Tags
           /\ \A s \in Structs : Tag("STRUCT", id, s) \in Tags
BY DEF Tag, Tags

LEMMA FindNameIs ==
    ASSUME NEW log \in Seq(Tags), NEW n
    PROVE  /\ FindName(log, n).id \in Int
           /\ FindName(log, n).valid = BestMatch(log, n).valid
           /\ FindName(log, n).id = IF BestMatch(log, n).id < Count(log) THEN BestMatch(log, n).id ELSE Count(log)
<1>1. PICK tag \in Tags : tag = Tag("CREATE", 0, None)
  BY TagIs
<1>2. BestMatch(log, n) \in Bests
  BY <1>1, BestAppend
<1>3. PICK i, v : i \in Int /\ v \in BOOLEAN /\ BestMatch(log, n) = [id |-> i, valid |-> v]
  BY <1>2 DEF Bests
<1>4. PICK c \in Int : c = Count(log)
  BY <1>1, CountAppend
<1>5. FindName(log, n) = [id |-> IF i < c THEN i ELSE c, valid |-> v]
  BY <1>3, <1>4 DEF FindName
<1> QED BY <1>3, <1>4, <1>5

LEMMA AttrsAre ==
    ASSUME NEW log \in Seq(Tags), NEW n \in Names, NEW s \in Structs, NEW m \in Names
    PROVE  /\ CreateAttrs(log, n, s) \in Seq(Tags)
           /\ RemoveAttrs(log, n) \in Seq(Tags)
           /\ RenameAttrs(log, n, m) \in Seq(Tags)
<1>1. PICK from \in Int : from = FindName(log, n).id
  BY FindNameIs
<1>2. PICK to : to = FindName(log, m)
  OBVIOUS
<1>3. to.id \in Int
  BY <1>2, FindNameIs
<1>4. CreateAttrs(log, n, s) \in Seq(Tags)
  <2>1. Tag("CREATE", from, None) \in Tags /\ Tag("NAME", from, n) \in Tags /\ Tag("STRUCT", from, s) \in Tags
    BY TagIs
  <2> QED BY <1>1, <2>1 DEF CreateAttrs
<1>5. RemoveAttrs(log, n) \in Seq(Tags)
  <2>1. Tag("DELETE", from, None) \in Tags
    BY TagIs
  <2> QED BY <1>1, <2>1 DEF RemoveAttrs
<1>6. PICK gone \in Int : gone = IF ~to.valid /\ to.id <= from THEN from + 1 ELSE from
  OBVIOUS
<1>7. PICK a, b, c, d :
        /\ a = IF to.valid THEN <<Tag("DELETE", to.id, None)>> ELSE <<>>
        /\ b = <<Tag("CREATE", to.id, None), Tag("NAME", to.id, m)>>
        /\ c = MovedTags(log, from, to.id)
        /\ d = <<Tag("DELETE", gone, None)>>
  OBVIOUS
<1>8. RenameAttrs(log, n, m) = ((a \o b) \o c) \o d
  BY <1>1, <1>2, <1>6, <1>7 DEF RenameAttrs
<1>9. a \in Seq(Tags) /\ b \in Seq(Tags) /\ c \in Seq(Tags) /\ d \in Seq(Tags)
  <2>1. c \in Seq(Tags)
    BY <1>3, <1>7, MovedHas DEF Moves
  <2>2. /\ Tag("CREATE", to.id, None) \in Tags /\ Tag("NAME", to.id, m) \in Tags
        /\ Tag("DELETE", to.id, None) \in Tags /\ Tag("DELETE", gone, None) \in Tags
    BY <1>3, TagIs
  <2> QED BY <1>7, <2>1, <2>2, EmptySeq
<1>10. ((a \o b) \o c) \o d \in Seq(Tags)
  <2>1. a \o b \in Seq(Tags)
    BY <1>9, ConcatProperties
  <2>2. (a \o b) \o c \in Seq(Tags)
    BY <1>9, <2>1, ConcatProperties
  <2> QED BY <1>9, <2>2, ConcatProperties
<1> QED BY <1>4, <1>5, <1>8, <1>10

(* The entries a log stands for, read at any place: none is there outside  *)
(* the list.                                                               *)
Entry == [name : Names \cup {None}, struct : Structs \cup {None}]

NameOf(e, q) == IF q \in 0..Len(e) - 1 THEN e[q + 1].name ELSE None

StructOf(e, q) == IF q \in 0..Len(e) - 1 THEN e[q + 1].struct ELSE None

LEMMA EntriesAre ==
    ASSUME NEW e \in Seq(Entry)
    PROVE  /\ Len(e) \in Nat
           /\ \A q \in Int :
                /\ NameOf(e, q) \in Names \cup {None} /\ NameOf(e, q) \in Nat
                /\ StructOf(e, q) \in Structs \cup {None}
                /\ NameOf(e, q) # None => q \in 0..Len(e) - 1
                /\ q \notin 0..Len(e) - 1 => NameOf(e, q) = None /\ StructOf(e, q) = None
<1>1. PICK n \in Nat : n = Len(e) /\ \A i \in 1..n : e[i] \in Entry
  BY LenProperties
<1>2. Names \subseteq Nat /\ None \in Nat
  BY PairAssumption DEF None
<1>3. ASSUME NEW q \in Int, q \in 0..n - 1
      PROVE  /\ NameOf(e, q) \in Names \cup {None}
             /\ StructOf(e, q) \in Structs \cup {None}
  <2>1. q + 1 \in 1..n
    BY <1>3
  <2>2. e[q + 1].name \in Names \cup {None} /\ e[q + 1].struct \in Structs \cup {None}
    BY <1>1, <2>1 DEF Entry
  <2> QED BY <1>1, <1>3, <2>2 DEF NameOf, StructOf
<1>4. ASSUME NEW q \in Int, q \notin 0..n - 1
      PROVE  NameOf(e, q) = None /\ StructOf(e, q) = None
  BY <1>1, <1>4 DEF NameOf, StructOf
<1> QED BY <1>1, <1>2, <1>3, <1>4

(* The same entries, but for a place.                                      *)
Inserts(e, f, c) ==
    /\ f \in Seq(Entry)
    /\ Len(f) = Len(e) + 1
    /\ \A q \in Int :
        /\ NameOf(f, q) = IF q < c THEN NameOf(e, q) ELSE IF q = c THEN None ELSE NameOf(e, q - 1)
        /\ StructOf(f, q) = IF q < c THEN StructOf(e, q) ELSE IF q = c THEN None ELSE StructOf(e, q - 1)

Removes(e, f, c) ==
    /\ f \in Seq(Entry)
    /\ Len(f) = Len(e) - 1
    /\ \A q \in Int :
        /\ NameOf(f, q) = IF q < c THEN NameOf(e, q) ELSE NameOf(e, q + 1)
        /\ StructOf(f, q) = IF q < c THEN StructOf(e, q) ELSE StructOf(e, q + 1)

Names1(e, f, c, n) ==
    /\ f \in Seq(Entry)
    /\ Len(f) = IF c < Len(e) THEN Len(e) ELSE c + 1
    /\ \A q \in Int :
        /\ NameOf(f, q) = IF q = c THEN n ELSE NameOf(e, q)
        /\ StructOf(f, q) = StructOf(e, q)

Fills(e, f, c, s) ==
    /\ f \in Seq(Entry)
    /\ Len(f) = Len(e)
    /\ \A q \in Int :
        /\ NameOf(f, q) = NameOf(e, q)
        /\ StructOf(f, q) = IF q = c THEN s ELSE StructOf(e, q)

LEMMA CreateIs ==
    ASSUME NEW e \in Seq(Entry), NEW c \in 0..Len(e), NEW t, t.t = "CREATE", t.id = c
    PROVE  Inserts(e, Apply(e, t), c)
<1>1. PICK n \in Nat : n = Len(e)
  BY LenProperties
<1>2. Blank \in Entry
  BY DEF Blank, Entry
<1>3. PICK f : f = Apply(e, t)
  OBVIOUS
<1>4. f = InsertAt(e, c + 1, Blank)
  BY <1>3 DEF Apply
<1>5. c + 1 \in 1..Len(e) + 1
  BY <1>1
<1>6. /\ f \in Seq(Entry) /\ Len(f) = n + 1
      /\ \A j \in 1..(n + 1) : f[j] = IF j < c + 1 THEN e[j] ELSE IF j = c + 1 THEN Blank ELSE e[j - 1]
  <2>1. PICK i \in 1..Len(e) + 1 : i = c + 1
    BY <1>5
  <2>2. /\ InsertAt(e, i, Blank) \in Seq(Entry) /\ Len(InsertAt(e, i, Blank)) = Len(e) + 1
        /\ \A j \in 1..(Len(e) + 1) :
              InsertAt(e, i, Blank)[j] = IF j < i THEN e[j] ELSE IF j = i THEN Blank ELSE e[j - 1]
    BY <1>2, InsertAtElements
  <2> QED BY <1>1, <1>4, <2>1, <2>2
<1>7. ASSUME NEW q \in Int
      PROVE  /\ NameOf(f, q) = IF q < c THEN NameOf(e, q) ELSE IF q = c THEN None ELSE NameOf(e, q - 1)
             /\ StructOf(f, q) = IF q < c THEN StructOf(e, q) ELSE IF q = c THEN None ELSE StructOf(e, q - 1)
  <2>1. CASE q \in 0..n
    <3>1. q + 1 \in 1..(n + 1)
      BY <2>1
    <3>2. NameOf(f, q) = f[q + 1].name /\ StructOf(f, q) = f[q + 1].struct
      BY <1>6, <2>1 DEF NameOf, StructOf
    <3>3. CASE q < c
      <4>1. f[q + 1] = e[q + 1] /\ q \in 0..n - 1
        BY <1>1, <1>6, <3>1, <3>3
      <4> QED BY <1>1, <3>2, <3>3, <4>1 DEF NameOf, StructOf
    <3>4. CASE q = c
      <4>1. f[q + 1] = Blank
        BY <1>6, <3>1, <3>4
      <4> QED BY <3>2, <3>4, <4>1 DEF Blank
    <3>5. CASE q > c
      <4>1. f[q + 1] = e[q] /\ q - 1 \in 0..n - 1 /\ (q - 1) + 1 = q
        BY <1>1, <1>6, <2>1, <3>1, <3>5
      <4> QED BY <1>1, <3>2, <3>5, <4>1 DEF NameOf, StructOf
    <3> QED BY <1>1, <3>3, <3>4, <3>5
  <2>2. CASE q \notin 0..n
    BY <1>1, <1>6, <2>2 DEF NameOf, StructOf
  <2> QED BY <2>1, <2>2
<1> QED BY <1>1, <1>3, <1>6, <1>7 DEF Inserts

LEMMA DeleteIs ==
    ASSUME NEW e \in Seq(Entry), NEW c \in 0..Len(e) - 1, NEW t, t.t = "DELETE", t.id = c
    PROVE  Removes(e, Apply(e, t), c)
<1>1. PICK n \in Nat : n = Len(e)
  BY LenProperties
<1>3. PICK f : f = Apply(e, t)
  OBVIOUS
<1>4. f = RemoveAt(e, c + 1)
  BY <1>3 DEF Apply
<1>5. c + 1 \in DOMAIN e
  BY <1>1, LenProperties
<1>6. /\ f \in Seq(Entry) /\ Len(f) = n - 1
      /\ \A j \in 1..(n - 1) : f[j] = IF j < c + 1 THEN e[j] ELSE e[j + 1]
  BY <1>1, <1>4, <1>5, RemoveAtElements
<1>7. ASSUME NEW q \in Int
      PROVE  /\ NameOf(f, q) = IF q < c THEN NameOf(e, q) ELSE NameOf(e, q + 1)
             /\ StructOf(f, q) = IF q < c THEN StructOf(e, q) ELSE StructOf(e, q + 1)
  <2>1. CASE q \in 0..n - 2
    <3>1. q + 1 \in 1..(n - 1)
      BY <2>1
    <3>2. NameOf(f, q) = f[q + 1].name /\ StructOf(f, q) = f[q + 1].struct
      BY <1>6, <2>1 DEF NameOf, StructOf
    <3>3. CASE q < c
      <4>1. f[q + 1] = e[q + 1] /\ q \in 0..n - 1
        BY <1>1, <1>6, <2>1, <3>1, <3>3
      <4> QED BY <1>1, <3>2, <3>3, <4>1 DEF NameOf, StructOf
    <3>4. CASE q >= c
      <4>1. f[q + 1] = e[(q + 1) + 1] /\ q + 1 \in 0..n - 1
        BY <1>1, <1>6, <2>1, <3>1, <3>4
      <4> QED BY <1>1, <3>2, <3>4, <4>1 DEF NameOf, StructOf
    <3> QED BY <1>1, <3>3, <3>4
  <2>2. CASE q \notin 0..n - 2
    BY <1>1, <1>6, <2>2 DEF NameOf, StructOf
  <2> QED BY <2>1, <2>2
<1> QED BY <1>1, <1>3, <1>6, <1>7 DEF Removes

LEMMA NameIs ==
    ASSUME NEW e \in Seq(Entry), NEW c \in Nat, NEW m \in Names, NEW t,
           t.t = "NAME", t.id = c, t.val = m
    PROVE  Names1(e, Apply(e, t), c, m)
<1>1. PICK n \in Nat : n = Len(e) /\ \A i \in 1..n : e[i] \in Entry
  BY LenProperties
<1>2. \A s \in [1..n -> Entry] : s \in Seq(Entry) /\ Len(s) = n
  OBVIOUS
<1>3. PICK f : f = Apply(e, t)
  OBVIOUS
<1>4. CASE c < n
  <2>1. f = [e EXCEPT ![c + 1].name = m]
    BY <1>1, <1>3, <1>4 DEF Apply
  <2>2. e = [i \in 1..n |-> e[i]]
    BY <1>1, LenProperties
  <2>3. c + 1 \in 1..n
    BY <1>4
  <2>4. PICK a, b : e[c + 1] = [name |-> a, struct |-> b] /\ b \in Structs \cup {None}
    BY <1>1, <2>3 DEF Entry
  <2>5. PICK r : r = [name |-> m, struct |-> b]
    OBVIOUS
  <2>6. f = [e EXCEPT ![c + 1] = r]
    <3>1. r = [e[c + 1] EXCEPT !.name = m]
      BY <2>4, <2>5
    <3>2. f = [e EXCEPT ![c + 1] = [e[c + 1] EXCEPT !.name = m]]
      BY <2>1
    <3> QED BY <3>1, <3>2
  <2>7. r \in Entry /\ r.name = m /\ r.struct = e[c + 1].struct
    BY <2>4, <2>5 DEF Entry
  <2>8. f = [i \in 1..n |-> IF i = c + 1 THEN r ELSE e[i]]
    BY <2>2, <2>6
  <2>9. f \in Seq(Entry) /\ Len(f) = n
    <3>1. f \in [1..n -> Entry]
      BY <1>1, <2>7, <2>8
    <3> QED BY <1>2, <3>1
  <2>10. ASSUME NEW q \in Int
         PROVE  NameOf(f, q) = (IF q = c THEN m ELSE NameOf(e, q)) /\ StructOf(f, q) = StructOf(e, q)
    <3>1. CASE q \in 0..n - 1
      <4>1. q + 1 \in 1..n /\ (q + 1 = c + 1 <=> q = c)
        BY <3>1
      <4>2. f[q + 1] = IF q = c THEN r ELSE e[q + 1]
        BY <2>8, <4>1
      <4> QED BY <1>1, <2>7, <2>9, <3>1, <4>2 DEF NameOf, StructOf
    <3>2. CASE q \notin 0..n - 1
      BY <1>1, <1>4, <2>9, <3>2 DEF NameOf, StructOf
    <3> QED BY <3>1, <3>2
  <2> QED BY <1>1, <1>3, <1>4, <2>9, <2>10 DEF Names1
<1>5. CASE ~(c < n)
  <2>1. PICK k \in Nat : k = c - n
    BY <1>5
  <2>2. PICK gap : gap = [i \in 1..k |-> Blank]
    OBVIOUS
  <2>3. PICK r : r = [Blank EXCEPT !.name = m]
    OBVIOUS
  <2>4. f = (e \o gap) \o <<r>>
    BY <1>1, <1>3, <1>5, <2>1, <2>2, <2>3 DEF Apply
  <2>5. r \in Entry /\ r.name = m /\ r.struct = None /\ Blank \in Entry
        /\ Blank.name = None /\ Blank.struct = None
    BY <2>3 DEF Entry, Blank
  <2>6. gap \in Seq(Entry) /\ Len(gap) = k
    <3>1. gap \in [1..k -> Entry]
      BY <2>2, <2>5
    <3> QED BY <2>1, <3>1
  <2>7. PICK g : g = e \o gap
    OBVIOUS
  <2>8. g \in Seq(Entry) /\ Len(g) = c
        /\ \A i \in 1..c : g[i] = IF i <= n THEN e[i] ELSE gap[i - n]
    BY <1>1, <2>1, <2>6, <2>7, ConcatProperties
  <2>9. f = Append(g, r)
    BY <2>4, <2>5, <2>7, <2>8, AppendIsConcat
  <2>10. f \in Seq(Entry) /\ Len(f) = c + 1 /\ f[c + 1] = r /\ \A i \in 1..c : f[i] = g[i]
    BY <2>5, <2>8, <2>9, AppendProperties
  <2>11. ASSUME NEW q \in Int
         PROVE  NameOf(f, q) = (IF q = c THEN m ELSE NameOf(e, q)) /\ StructOf(f, q) = StructOf(e, q)
    <3>1. CASE q \in 0..n - 1
      <4>1. q + 1 \in 1..c /\ q + 1 <= n /\ q # c /\ q \in 0..(c + 1) - 1
        BY <1>5, <3>1
      <4>2. f[q + 1] = e[q + 1]
        BY <2>8, <2>10, <4>1
      <4> QED BY <1>1, <2>10, <3>1, <4>1, <4>2 DEF NameOf, StructOf
    <3>2. CASE q \in n..c - 1
      <4>1. q + 1 \in 1..c /\ ~(q + 1 <= n) /\ q # c /\ q \in 0..(c + 1) - 1 /\ (q + 1) - n \in 1..k
            /\ q \notin 0..n - 1
        BY <2>1, <3>2
      <4>2. f[q + 1] = Blank
        BY <2>2, <2>8, <2>10, <4>1
      <4> QED BY <1>1, <2>5, <2>10, <4>1, <4>2 DEF NameOf, StructOf
    <3>3. CASE q = c
      <4>1. q \in 0..(c + 1) - 1 /\ q \notin 0..n - 1
        BY <1>5, <3>3
      <4> QED BY <1>1, <2>5, <2>10, <3>3, <4>1 DEF NameOf, StructOf
    <3>4. CASE q \notin 0..c
      <4>1. q \notin 0..(c + 1) - 1 /\ q \notin 0..n - 1 /\ q # c
        BY <1>5, <3>4
      <4> QED BY <1>1, <2>10, <4>1 DEF NameOf, StructOf
    <3> QED BY <1>5, <3>1, <3>2, <3>3, <3>4
  <2> QED BY <1>1, <1>3, <1>5, <2>10, <2>11 DEF Names1
<1> QED BY <1>4, <1>5

LEMMA StructIs ==
    ASSUME NEW e \in Seq(Entry), NEW c \in 0..Len(e) - 1, NEW s \in Structs, NEW t,
           t.t = "STRUCT", t.id = c, t.val = s
    PROVE  Fills(e, Apply(e, t), c, s)
<1>1. PICK n \in Nat : n = Len(e) /\ \A i \in 1..n : e[i] \in Entry
  BY LenProperties
<1>2. \A x \in [1..n -> Entry] : x \in Seq(Entry) /\ Len(x) = n
  OBVIOUS
<1>3. PICK f : f = Apply(e, t)
  OBVIOUS
<1>4. f = [e EXCEPT ![c + 1].struct = s]
  BY <1>3 DEF Apply
<1>5. e = [i \in 1..n |-> e[i]]
  BY <1>1, LenProperties
<1>6. c + 1 \in 1..n
  BY <1>1
<1>7. PICK a, b : e[c + 1] = [name |-> a, struct |-> b] /\ a \in Names \cup {None}
  BY <1>1, <1>6 DEF Entry
<1>8. PICK r : r = [name |-> a, struct |-> s]
  OBVIOUS
<1>9. f = [e EXCEPT ![c + 1] = r]
  <2>1. r = [e[c + 1] EXCEPT !.struct = s]
    BY <1>7, <1>8
  <2>2. f = [e EXCEPT ![c + 1] = [e[c + 1] EXCEPT !.struct = s]]
    BY <1>4
  <2> QED BY <2>1, <2>2
<1>10. r \in Entry /\ r.struct = s /\ r.name = e[c + 1].name
  BY <1>7, <1>8 DEF Entry
<1>11. f = [i \in 1..n |-> IF i = c + 1 THEN r ELSE e[i]]
  BY <1>5, <1>9
<1>12. f \in Seq(Entry) /\ Len(f) = n
  <2>1. f \in [1..n -> Entry]
    BY <1>1, <1>10, <1>11
  <2> QED BY <1>2, <2>1
<1>13. ASSUME NEW q \in Int
       PROVE  NameOf(f, q) = NameOf(e, q) /\ StructOf(f, q) = IF q = c THEN s ELSE StructOf(e, q)
  <2>1. CASE q \in 0..n - 1
    <3>1. q + 1 \in 1..n /\ (q + 1 = c + 1 <=> q = c)
      BY <2>1
    <3>2. f[q + 1] = IF q = c THEN r ELSE e[q + 1]
      BY <1>11, <3>1
    <3> QED BY <1>1, <1>10, <1>12, <2>1, <3>2 DEF NameOf, StructOf
  <2>2. CASE q \notin 0..n - 1
    BY <1>1, <1>12, <2>2 DEF NameOf, StructOf
  <2> QED BY <2>1, <2>2
<1> QED BY <1>1, <1>3, <1>12, <1>13 DEF Fills

(* What holds of the empty log, and of a log with a tag more when it holds *)
(* of the log, holds of every log.                                         *)
LEMMA EveryLog ==
    ASSUME NEW P, <<>> \in P, \A l \in Seq(Tags), t \in Tags : l \in P => Append(l, t) \in P
    PROVE  \A log \in Seq(Tags) : log \in P
<1> SUFFICES ASSUME NEW log \in Seq(Tags) PROVE log \in P
  OBVIOUS
<1>1. PICK n \in Nat : n = Len(log) /\ \A i \in 1..n : log[i] \in Tags
  BY LenProperties
<1>2. PICK S : S = {i \in 0..n : SubSeq(log, 1, i) \in P}
  OBVIOUS
<1>3. 0 \in S
  <2>1. SubSeq(log, 1, 0) = <<>>
    BY SubSeqEmpty
  <2>2. SubSeq(log, 1, 0) \in P
    BY <2>1
  <2>3. 0 \in 0..n
    BY <1>1
  <2> QED BY <1>2, <2>2, <2>3
<1>4. ASSUME NEW i \in 1..n, i - 1 \in S PROVE i \in S
  <2>1. PICK u, v : u = SubSeq(log, 1, i - 1) /\ v = SubSeq(log, 1, i)
    OBVIOUS
  <2>2. /\ u \in Seq(Tags) /\ Len(u) = i - 1 /\ \A j \in 1..i - 1 : u[j] = log[j]
        /\ v \in Seq(Tags) /\ Len(v) = i /\ \A j \in 1..i : v[j] = log[j]
    BY <1>1, <2>1
  <2>3. PICK w : w = Append(u, log[i])
    OBVIOUS
  <2>4. log[i] \in Tags
    BY <1>1
  <2>5. w \in Seq(Tags) /\ Len(w) = Len(u) + 1 /\ (\A j \in 1..Len(u) : w[j] = u[j])
        /\ w[Len(u) + 1] = log[i]
    BY <2>2, <2>3, <2>4, AppendProperties
  <2>6. Len(w) = i /\ \A j \in 1..i : w[j] = v[j]
    <3>1. Len(u) = i - 1 /\ Len(w) = i /\ w[i] = log[i]
      BY <2>2, <2>5
    <3>2. ASSUME NEW j \in 1..i PROVE w[j] = v[j]
      <4>1. CASE j = i
        BY <2>2, <3>1, <4>1
      <4>2. CASE j # i
        <5>1. j \in 1..i - 1
          BY <4>2
        <5> QED BY <2>2, <2>5, <3>1, <5>1
      <4> QED BY <4>1, <4>2
    <3> QED BY <3>1, <3>2
  <2>7. w = v
    BY <2>2, <2>5, <2>6, SeqEqual
  <2>8. u \in P
    BY <1>2, <1>4, <2>1
  <2>9. w \in P
    BY <2>2, <2>3, <2>4, <2>8
  <2> QED BY <1>2, <2>1, <2>7, <2>9
<1>5. \A i \in 0..n : i \in S
  BY <1>1, <1>3, <1>4, UpTo
<1>6. SubSeq(log, 1, n) = log
  <2>1. PICK v : v = SubSeq(log, 1, n)
    OBVIOUS
  <2>2. v \in Seq(Tags) /\ Len(v) = n /\ \A j \in 1..n : v[j] = log[j]
    BY <1>1, <2>1
  <2> QED BY <1>1, <2>1, <2>2, SeqEqual
<1>7. n \in 0..n
  OBVIOUS
<1> QED BY <1>2, <1>5, <1>6, <1>7

-----------------------------------------------------------------------------
(* The search for a tag from the end of the log.                           *)
Start(q) == [done |-> FALSE, id |-> q, val |-> None]

LEMMA GetDone ==
    ASSUME NEW type, NEW r \in Reads, r.done
    PROVE  \A log \in Seq(Tags) : GetFrom(log, type, r) = r
<1>1. PICK P : P = {l \in Seq(Tags) : GetFrom(l, type, r) = r}
  OBVIOUS
<1>2. <<>> \in P
  <2>1. PICK t \in Tags : t = Tag("CREATE", 0, None)
    BY TagIs
  <2>2. <<>> \in Seq(Tags)
    BY EmptySeq
  <2>3. GetFrom(<<>>, type, r) = r
    BY <2>1, <2>2, GetAppend
  <2> QED BY <1>1, <2>2, <2>3
<1>3. ASSUME NEW l \in Seq(Tags), NEW t \in Tags, l \in P PROVE Append(l, t) \in P
  <2>1. Append(l, t) \in Seq(Tags)
    BY AppendProperties
  <2>2. GetFrom(Append(l, t), type, r) = GetFrom(l, type, GetStep(type, r, t))
    BY GetAppend
  <2>3. GetStep(type, r, t) = r
    BY DEF GetStep
  <2>4. GetFrom(l, type, r) = r
    BY <1>1, <1>3
  <2> QED BY <1>1, <2>1, <2>2, <2>3, <2>4
<1>4. \A log \in Seq(Tags) : log \in P
  BY <1>2, <1>3, EveryLog
<1> QED BY <1>1, <1>4

LEMMA GetStepStart ==
    ASSUME NEW type \in {"NAME", "STRUCT"}, NEW t \in Tags, NEW q \in Int
    PROVE  /\ Start(q) \in Reads
           /\ GetStep(type, Start(q), t) \in Reads
           /\ t.t = "CREATE" /\ t.id < q => GetStep(type, Start(q), t) = Start(q - 1)
           /\ t.t = "CREATE" /\ t.id = q =>
                  GetStep(type, Start(q), t).done /\ GetStep(type, Start(q), t).val = None
           /\ t.t = "DELETE" /\ t.id <= q => GetStep(type, Start(q), t) = Start(q + 1)
           /\ t.t \in {"CREATE", "DELETE"} /\ t.id > q => GetStep(type, Start(q), t) = Start(q)
           /\ t.t = type /\ t.id = q =>
                  GetStep(type, Start(q), t).done /\ GetStep(type, Start(q), t).val = t.val
           /\ t.t \in {"NAME", "STRUCT"} /\ ~(t.t = type /\ t.id = q) =>
                  GetStep(type, Start(q), t) = Start(q)
<1>1. PICK no \in BOOLEAN : no = FALSE
  OBVIOUS
<1>2. Start(q) = [done |-> no, id |-> q, val |-> None] /\ ~Start(q).done /\ Start(q).id = q
  BY <1>1 DEF Start
<1>3. Start(q) \in Reads
  BY <1>2 DEF Reads, Vals
<1>4. GetStep(type, Start(q), t) \in Reads
  BY <1>3, GetStepIs
<1>5. t.id \in Int
  BY DEF Tags
<1>6. CASE t.t \in {"CREATE", "DELETE"} /\ t.id > q
  BY <1>2, <1>3, <1>4, <1>5, <1>6 DEF GetStep, IsSplice
<1>7. CASE t.t \in {"CREATE", "DELETE"} /\ t.id <= q
  <2>1. PICK b \in BOOLEAN : b = (t.t = "CREATE" /\ t.id = q)
    OBVIOUS
  <2>2. PICK p \in Int : p = IF t.t = "CREATE" THEN q - 1 ELSE q + 1
    OBVIOUS
  <2>3. q - Splice(t) = p
    BY <1>7, <2>2 DEF Splice
  <2>4. GetStep(type, Start(q), t) = [Start(q) EXCEPT !.done = b, !.id = p]
    BY <1>2, <1>5, <1>7, <2>1, <2>3 DEF GetStep, IsSplice
  <2>5. GetStep(type, Start(q), t) = [done |-> b, id |-> p, val |-> None]
    <3>1. PICK s, s1 : s = Start(q) /\ s1 = [s EXCEPT !.done = b]
      OBVIOUS
    <3>2. s = [done |-> no, id |-> q, val |-> None]
      BY <1>2, <3>1
    <3>3. s1 = [done |-> b, id |-> q, val |-> None]
      BY <3>1, <3>2
    <3>4. [s1 EXCEPT !.id = p] = [done |-> b, id |-> p, val |-> None]
      BY <3>3
    <3> QED BY <2>4, <3>1, <3>4
  <2>6. CASE b
    <3>1. t.t = "CREATE" /\ t.id = q
      BY <2>1, <2>6
    <3> QED BY <1>3, <1>4, <2>5, <2>6, <3>1
  <2>7. CASE ~b
    <3>1. GetStep(type, Start(q), t) = Start(p)
      BY <2>5, <2>7 DEF Start
    <3>2. ~(t.t = "CREATE" /\ t.id = q)
      BY <2>1, <2>7
    <3> QED BY <1>3, <1>4, <1>5, <1>7, <2>2, <3>1, <3>2
  <2> QED BY <2>6, <2>7
<1>8. CASE t.t \in {"NAME", "STRUCT"} /\ t.t = type /\ t.id = q
  <2>1. PICK yes \in BOOLEAN : yes = TRUE
    OBVIOUS
  <2>2. GetStep(type, Start(q), t) = [Start(q) EXCEPT !.done = yes, !.val = t.val]
    BY <1>2, <1>8, <2>1 DEF GetStep, IsSplice
  <2>3. GetStep(type, Start(q), t) = [done |-> yes, id |-> q, val |-> t.val]
    <3>1. PICK s, s1 : s = Start(q) /\ s1 = [s EXCEPT !.done = yes]
      OBVIOUS
    <3>2. s = [done |-> no, id |-> q, val |-> None]
      BY <1>1, <1>2, <3>1 DEF Start
    <3>3. s1 = [done |-> yes, id |-> q, val |-> None]
      BY <3>1, <3>2
    <3>4. [s1 EXCEPT !.val = t.val] = [done |-> yes, id |-> q, val |-> t.val]
      BY <3>3
    <3> QED BY <2>2, <3>1, <3>4
  <2>4. GetStep(type, Start(q), t).done /\ GetStep(type, Start(q), t).val = t.val
    BY <2>1, <2>3
  <2> QED BY <1>3, <1>4, <1>8, <2>4
<1>9. CASE t.t \in {"NAME", "STRUCT"} /\ ~(t.t = type /\ t.id = q)
  BY <1>2, <1>3, <1>4, <1>9 DEF GetStep, IsSplice
<1>10. t.t \in {"CREATE", "DELETE", "NAME", "STRUCT"}
  BY DEF Tags
<1>11. t.t \in {"CREATE", "DELETE"} => t.id > q \/ t.id <= q
  BY <1>5
<1> QED BY <1>6, <1>7, <1>8, <1>9, <1>10, <1>11

ReadsAre(log, e) ==
    \A q \in Nat :
        /\ GetFrom(log, "NAME", Start(q)).val = NameOf(e, q)
        /\ GetFrom(log, "STRUCT", Start(q)).val = StructOf(e, q)

LEMMA ReadsFirst ==
    ASSUME NEW log \in Seq(Tags), NEW t \in Tags, NEW type \in {"NAME", "STRUCT"}, NEW q \in Int
    PROVE  /\ GetStep(type, Start(q), t).done =>
                  GetFrom(Append(log, t), type, Start(q)) = GetStep(type, Start(q), t)
           /\ \A p \in Int : GetStep(type, Start(q), t) = Start(p) =>
                  GetFrom(Append(log, t), type, Start(q)) = GetFrom(log, type, Start(p))
<1>1. Start(q) \in Reads /\ GetStep(type, Start(q), t) \in Reads
  BY GetStepStart
<1>2. GetFrom(Append(log, t), type, Start(q)) = GetFrom(log, type, GetStep(type, Start(q), t))
  BY <1>1, GetAppend
<1>3. GetStep(type, Start(q), t).done => GetFrom(log, type, GetStep(type, Start(q), t)) = GetStep(type, Start(q), t)
  BY <1>1, GetDone
<1> QED BY <1>2, <1>3

LEMMA ReadsCreate ==
    ASSUME NEW log \in Seq(Tags), NEW t \in Tags, t.t = "CREATE", t.id \in Nat,
           NEW e, NEW f, ReadsAre(log, e), Inserts(e, f, t.id)
    PROVE  ReadsAre(Append(log, t), f)
<1>1. PICK c \in Nat : c = t.id
  OBVIOUS
<1>2. \A q \in Int :
        /\ NameOf(f, q) = IF q < c THEN NameOf(e, q) ELSE IF q = c THEN None ELSE NameOf(e, q - 1)
        /\ StructOf(f, q) = IF q < c THEN StructOf(e, q) ELSE IF q = c THEN None ELSE StructOf(e, q - 1)
  BY <1>1 DEF Inserts
<1>3. ASSUME NEW q \in Nat, NEW type \in {"NAME", "STRUCT"}
      PROVE  GetFrom(Append(log, t), type, Start(q)).val =
                IF q < c THEN GetFrom(log, type, Start(q)).val
                ELSE IF q = c THEN None ELSE GetFrom(log, type, Start(q - 1)).val
  <2>1. CASE q < c
    <3>1. GetStep(type, Start(q), t) = Start(q)
      BY <1>1, <2>1, GetStepStart
    <3> QED BY <2>1, <3>1, ReadsFirst
  <2>2. CASE q = c
    <3>1. GetStep(type, Start(q), t).done /\ GetStep(type, Start(q), t).val = None
      BY <1>1, <2>2, GetStepStart
    <3> QED BY <2>2, <3>1, ReadsFirst
  <2>3. CASE q > c
    <3>1. GetStep(type, Start(q), t) = Start(q - 1) /\ q - 1 \in Int
      BY <1>1, <2>3, GetStepStart
    <3> QED BY <1>1, <2>3, <3>1, ReadsFirst
  <2> QED BY <1>1, <2>1, <2>2, <2>3
<1>4. ASSUME NEW q \in Nat
      PROVE  /\ GetFrom(Append(log, t), "NAME", Start(q)).val = NameOf(f, q)
             /\ GetFrom(Append(log, t), "STRUCT", Start(q)).val = StructOf(f, q)
  <2>1. q > c => q - 1 \in Nat
    BY <1>1
  <2>2. GetFrom(Append(log, t), "NAME", Start(q)).val = NameOf(f, q)
    BY <1>1, <1>2, <1>3, <2>1 DEF ReadsAre
  <2>3. GetFrom(Append(log, t), "STRUCT", Start(q)).val = StructOf(f, q)
    BY <1>1, <1>2, <1>3, <2>1 DEF ReadsAre
  <2> QED BY <2>2, <2>3
<1> QED BY <1>4 DEF ReadsAre

LEMMA ReadsDelete ==
    ASSUME NEW log \in Seq(Tags), NEW t \in Tags, t.t = "DELETE", t.id \in Nat,
           NEW e, NEW f, ReadsAre(log, e), Removes(e, f, t.id)
    PROVE  ReadsAre(Append(log, t), f)
<1>1. PICK c \in Nat : c = t.id
  OBVIOUS
<1>2. \A q \in Int :
        /\ NameOf(f, q) = IF q < c THEN NameOf(e, q) ELSE NameOf(e, q + 1)
        /\ StructOf(f, q) = IF q < c THEN StructOf(e, q) ELSE StructOf(e, q + 1)
  BY <1>1 DEF Removes
<1>3. ASSUME NEW q \in Nat, NEW type \in {"NAME", "STRUCT"}
      PROVE  GetFrom(Append(log, t), type, Start(q)).val =
                IF q < c THEN GetFrom(log, type, Start(q)).val
                ELSE GetFrom(log, type, Start(q + 1)).val
  <2>1. CASE q < c
    <3>1. GetStep(type, Start(q), t) = Start(q)
      BY <1>1, <2>1, GetStepStart
    <3> QED BY <2>1, <3>1, ReadsFirst
  <2>2. CASE ~(q < c)
    <3>1. GetStep(type, Start(q), t) = Start(q + 1) /\ q + 1 \in Int
      BY <1>1, <2>2, GetStepStart
    <3> QED BY <1>1, <2>2, <3>1, ReadsFirst
  <2> QED BY <2>1, <2>2
<1>4. ASSUME NEW q \in Nat
      PROVE  /\ GetFrom(Append(log, t), "NAME", Start(q)).val = NameOf(f, q)
             /\ GetFrom(Append(log, t), "STRUCT", Start(q)).val = StructOf(f, q)
  <2>1. q + 1 \in Nat
    OBVIOUS
  <2>2. GetFrom(Append(log, t), "NAME", Start(q)).val = NameOf(f, q)
    <3>1. NameOf(f, q) = IF q < c THEN NameOf(e, q) ELSE NameOf(e, q + 1)
      BY <1>2
    <3>2. GetFrom(log, "NAME", Start(q)).val = NameOf(e, q)
      BY DEF ReadsAre
    <3>3. GetFrom(log, "NAME", Start(q + 1)).val = NameOf(e, q + 1)
      BY <2>1 DEF ReadsAre
    <3> QED BY <1>3, <3>1, <3>2, <3>3
  <2>3. GetFrom(Append(log, t), "STRUCT", Start(q)).val = StructOf(f, q)
    <3>1. StructOf(f, q) = IF q < c THEN StructOf(e, q) ELSE StructOf(e, q + 1)
      BY <1>2
    <3>2. GetFrom(log, "STRUCT", Start(q)).val = StructOf(e, q)
      BY DEF ReadsAre
    <3>3. GetFrom(log, "STRUCT", Start(q + 1)).val = StructOf(e, q + 1)
      BY <2>1 DEF ReadsAre
    <3> QED BY <1>3, <3>1, <3>2, <3>3
  <2> QED BY <2>2, <2>3
<1> QED BY <1>4 DEF ReadsAre

LEMMA ReadsName ==
    ASSUME NEW log \in Seq(Tags), NEW t \in Tags, t.t = "NAME", t.id \in Nat,
           NEW e, NEW f, ReadsAre(log, e), Names1(e, f, t.id, t.val)
    PROVE  ReadsAre(Append(log, t), f)
<1>1. ASSUME NEW q \in Nat
      PROVE  /\ GetFrom(Append(log, t), "NAME", Start(q)).val = NameOf(f, q)
             /\ GetFrom(Append(log, t), "STRUCT", Start(q)).val = StructOf(f, q)
  <2>1. NameOf(f, q) = (IF q = t.id THEN t.val ELSE NameOf(e, q)) /\ StructOf(f, q) = StructOf(e, q)
    BY DEF Names1
  <2>2. GetFrom(Append(log, t), "NAME", Start(q)).val = NameOf(f, q)
    <3>1. CASE q = t.id
      <4>1. GetStep("NAME", Start(q), t).done /\ GetStep("NAME", Start(q), t).val = t.val
        BY <3>1, GetStepStart
      <4> QED BY <2>1, <3>1, <4>1, ReadsFirst
    <3>2. CASE q # t.id
      <4>1. GetStep("NAME", Start(q), t) = Start(q)
        BY <3>2, GetStepStart
      <4> QED BY <2>1, <3>2, <4>1, ReadsFirst DEF ReadsAre
    <3> QED BY <3>1, <3>2
  <2>3. GetFrom(Append(log, t), "STRUCT", Start(q)).val = StructOf(f, q)
    <3>1. GetStep("STRUCT", Start(q), t) = Start(q)
      BY GetStepStart
    <3> QED BY <2>1, <3>1, ReadsFirst DEF ReadsAre
  <2> QED BY <2>2, <2>3
<1> QED BY <1>1 DEF ReadsAre

LEMMA ReadsStruct ==
    ASSUME NEW log \in Seq(Tags), NEW t \in Tags, t.t = "STRUCT", t.id \in Nat,
           NEW e, NEW f, ReadsAre(log, e), Fills(e, f, t.id, t.val)
    PROVE  ReadsAre(Append(log, t), f)
<1>1. ASSUME NEW q \in Nat
      PROVE  /\ GetFrom(Append(log, t), "NAME", Start(q)).val = NameOf(f, q)
             /\ GetFrom(Append(log, t), "STRUCT", Start(q)).val = StructOf(f, q)
  <2>1. NameOf(f, q) = NameOf(e, q) /\ StructOf(f, q) = (IF q = t.id THEN t.val ELSE StructOf(e, q))
    BY DEF Fills
  <2>2. GetFrom(Append(log, t), "STRUCT", Start(q)).val = StructOf(f, q)
    <3>1. CASE q = t.id
      <4>1. GetStep("STRUCT", Start(q), t).done /\ GetStep("STRUCT", Start(q), t).val = t.val
        BY <3>1, GetStepStart
      <4> QED BY <2>1, <3>1, <4>1, ReadsFirst
    <3>2. CASE q # t.id
      <4>1. GetStep("STRUCT", Start(q), t) = Start(q)
        BY <3>2, GetStepStart
      <4> QED BY <2>1, <3>2, <4>1, ReadsFirst DEF ReadsAre
    <3> QED BY <3>1, <3>2
  <2>3. GetFrom(Append(log, t), "NAME", Start(q)).val = NameOf(f, q)
    <3>1. GetStep("NAME", Start(q), t) = Start(q)
      BY GetStepStart
    <3> QED BY <2>1, <3>1, ReadsFirst DEF ReadsAre
  <2> QED BY <2>2, <2>3
<1> QED BY <1>1 DEF ReadsAre

(***************************************************************************)
(* What a compaction keeps.  Each tag that is kept tells a part of an      *)
(* entry, each part is told by one tag, and a name before a struct.        *)
(***************************************************************************)
FieldOf(e, ty, q) == IF ty = "NAME" THEN NameOf(e, q) ELSE StructOf(e, q)

Tell(K, g, e) ==
    /\ K \subseteq Nat
    /\ \A i \in K :
        /\ g[i].t \in {"NAME", "STRUCT"} /\ g[i].id \in Int
        /\ g[i].val # None /\ FieldOf(e, g[i].t, g[i].id) = g[i].val
    /\ \A ty \in {"NAME", "STRUCT"} : \A q \in Int :
        FieldOf(e, ty, q) # None => \E i \in K : g[i].t = ty /\ g[i].id = q
    /\ \A i, j \in K : g[i].t = g[j].t /\ g[i].id = g[j].id => i = j
    /\ \A i, j \in K : g[i].t = "NAME" /\ g[j].t = "STRUCT" /\ g[i].id = g[j].id => i < j

LEMMA TellCreate ==
    ASSUME NEW K, NEW g, NEW h, NEW e, NEW f, NEW c \in Int, Tell(K, g, e), Inserts(e, f, c),
           \A i \in K : /\ h[i].t = g[i].t /\ h[i].val = g[i].val
                        /\ h[i].id = IF c <= g[i].id THEN g[i].id + 1 ELSE g[i].id
    PROVE  Tell(K, h, f)
<1>1. ASSUME NEW ty \in {"NAME", "STRUCT"}, NEW q \in Int
      PROVE  FieldOf(f, ty, q) = IF q < c THEN FieldOf(e, ty, q) ELSE IF q = c THEN None
                                 ELSE FieldOf(e, ty, q - 1)
  BY DEF FieldOf, Inserts
<1>2. ASSUME NEW i \in K
      PROVE  /\ h[i].t \in {"NAME", "STRUCT"} /\ h[i].id \in Int
             /\ h[i].val # None /\ FieldOf(f, h[i].t, h[i].id) = h[i].val
  <2>1. PICK ty \in {"NAME", "STRUCT"}, q \in Int : ty = g[i].t /\ q = g[i].id
    BY DEF Tell
  <2>2. g[i].val # None /\ FieldOf(e, ty, q) = g[i].val
    BY <2>1 DEF Tell
  <2>3. CASE c <= q
    <3>1. h[i].id = q + 1 /\ h[i].t = ty /\ h[i].val = g[i].val
      BY <2>1, <2>3
    <3>2. FieldOf(f, ty, q + 1) = FieldOf(e, ty, (q + 1) - 1) /\ (q + 1) - 1 = q
      BY <1>1, <2>3
    <3> QED BY <2>2, <3>1, <3>2
  <2>4. CASE ~(c <= q)
    <3>1. h[i].id = q /\ h[i].t = ty /\ h[i].val = g[i].val
      BY <2>1, <2>4
    <3>2. FieldOf(f, ty, q) = FieldOf(e, ty, q)
      BY <1>1, <2>4
    <3> QED BY <2>2, <3>1, <3>2
  <2> QED BY <2>3, <2>4
<1>3. ASSUME NEW ty \in {"NAME", "STRUCT"}, NEW q \in Int, FieldOf(f, ty, q) # None
      PROVE  \E i \in K : h[i].t = ty /\ h[i].id = q
  <2>1. PICK p \in Int : p = IF q < c THEN q ELSE q - 1
    OBVIOUS
  <2>2. FieldOf(e, ty, p) # None /\ (IF c <= p THEN p + 1 ELSE p) = q
    BY <1>1, <1>3, <2>1
  <2>3. PICK i \in K : g[i].t = ty /\ g[i].id = p
    BY <2>2 DEF Tell
  <2> QED BY <2>2, <2>3
<1>4. ASSUME NEW i \in K, NEW j \in K, h[i].id = h[j].id
      PROVE  g[i].id = g[j].id
  <2>1. g[i].id \in Int /\ g[j].id \in Int
    BY DEF Tell
  <2> QED BY <1>4, <2>1
<1>5. \A i, j \in K : h[i].t = h[j].t /\ h[i].id = h[j].id => i = j
  BY <1>4 DEF Tell
<1>6. \A i, j \in K : h[i].t = "NAME" /\ h[j].t = "STRUCT" /\ h[i].id = h[j].id => i < j
  BY <1>4 DEF Tell
<1>7. K \subseteq Nat
  BY DEF Tell
<1> QED BY <1>2, <1>3, <1>5, <1>6, <1>7 DEF Tell

Others(K, g, c) == {i \in K : g[i].id # c}

LEMMA TellDelete ==
    ASSUME NEW K, NEW g, NEW h, NEW e, NEW f, NEW c \in Int, Tell(K, g, e), Removes(e, f, c),
           NEW L, L = Others(K, g, c),
           \A i \in L : /\ h[i].t = g[i].t /\ h[i].val = g[i].val
                        /\ h[i].id = IF c <= g[i].id THEN g[i].id - 1 ELSE g[i].id
    PROVE  Tell(L, h, f)
<1>0. L = {i \in K : g[i].id # c}
  BY DEF Others
<1>1. ASSUME NEW ty \in {"NAME", "STRUCT"}, NEW q \in Int
      PROVE  FieldOf(f, ty, q) = IF q < c THEN FieldOf(e, ty, q) ELSE FieldOf(e, ty, q + 1)
  BY DEF FieldOf, Removes
<1>2. ASSUME NEW i \in L
      PROVE  /\ h[i].t \in {"NAME", "STRUCT"} /\ h[i].id \in Int
             /\ h[i].val # None /\ FieldOf(f, h[i].t, h[i].id) = h[i].val
  <2>1. PICK ty \in {"NAME", "STRUCT"}, q \in Int : ty = g[i].t /\ q = g[i].id
    BY <1>0 DEF Tell
  <2>2. g[i].val # None /\ FieldOf(e, ty, q) = g[i].val /\ q # c
    BY <1>0, <2>1 DEF Tell
  <2>3. CASE c <= q
    <3>1. h[i].id = q - 1 /\ h[i].t = ty /\ h[i].val = g[i].val
      BY <2>1, <2>3
    <3>2. FieldOf(f, ty, q - 1) = FieldOf(e, ty, (q - 1) + 1) /\ (q - 1) + 1 = q
      BY <1>1, <2>2, <2>3
    <3> QED BY <2>2, <3>1, <3>2
  <2>4. CASE ~(c <= q)
    <3>1. h[i].id = q /\ h[i].t = ty /\ h[i].val = g[i].val
      BY <2>1, <2>4
    <3>2. FieldOf(f, ty, q) = FieldOf(e, ty, q)
      BY <1>1, <2>4
    <3> QED BY <2>2, <3>1, <3>2
  <2> QED BY <2>3, <2>4
<1>3. ASSUME NEW ty \in {"NAME", "STRUCT"}, NEW q \in Int, FieldOf(f, ty, q) # None
      PROVE  \E i \in L : h[i].t = ty /\ h[i].id = q
  <2>1. PICK p \in Int : p = IF q < c THEN q ELSE q + 1
    OBVIOUS
  <2>2. FieldOf(e, ty, p) # None /\ (IF c <= p THEN p - 1 ELSE p) = q /\ p # c
    BY <1>1, <1>3, <2>1
  <2>3. PICK i \in K : g[i].t = ty /\ g[i].id = p
    BY <2>2 DEF Tell
  <2> QED BY <1>0, <2>2, <2>3
<1>4. ASSUME NEW i \in L, NEW j \in L, h[i].id = h[j].id
      PROVE  g[i].id = g[j].id
  <2>1. g[i].id \in Int /\ g[j].id \in Int /\ g[i].id # c /\ g[j].id # c
    BY <1>0 DEF Tell
  <2> QED BY <1>4, <2>1
<1>5. \A i, j \in L : h[i].t = h[j].t /\ h[i].id = h[j].id => i = j
  BY <1>0, <1>4 DEF Tell
<1>6. \A i, j \in L : h[i].t = "NAME" /\ h[j].t = "STRUCT" /\ h[i].id = h[j].id => i < j
  BY <1>0, <1>4 DEF Tell
<1>7. L \subseteq Nat
  BY <1>0 DEF Tell
<1> QED BY <1>2, <1>3, <1>5, <1>6, <1>7 DEF Tell

(* A tag that sets a part of an entry, which one before it may have told.  *)
Kept(K, g, ty, c, k) == {i \in K : ~(g[i].t = ty /\ g[i].id = c)} \cup {k}

Alike(S, g, h) == \A i \in S : h[i].t = g[i].t /\ h[i].val = g[i].val /\ h[i].id = g[i].id

Below(S, k) == \A i \in S : i < k

Sets(e, f, ty, c, v) ==
    \A u \in {"NAME", "STRUCT"} : \A q \in Int :
        FieldOf(f, u, q) = IF u = ty /\ q = c THEN v ELSE FieldOf(e, u, q)

LEMMA TellSet ==
    ASSUME NEW K, NEW g, NEW h, NEW e, NEW f, NEW c \in Int, Tell(K, g, e),
           NEW k \in Nat, Below(K, k),
           NEW a \in {"NAME", "STRUCT"}, NEW v, v # None,
           Sets(e, f, a, c, v),
           a = "NAME" => StructOf(e, c) = None,
           NEW L, L = Kept(K, g, a, c, k),
           Alike(L \ {k}, g, h), h[k].t = a, h[k].id = c, h[k].val = v
    PROVE  Tell(L, h, f)
<1>0. L = {i \in K : ~(g[i].t = a /\ g[i].id = c)} \cup {k}
      /\ \A ty \in {"NAME", "STRUCT"} : \A q \in Int :
            FieldOf(f, ty, q) = IF ty = a /\ q = c THEN v ELSE FieldOf(e, ty, q)
  BY DEF Kept, Sets
<1>1. \A i \in L : i # k => i \in K /\ ~(g[i].t = a /\ g[i].id = c) /\ i < k
                            /\ h[i].t = g[i].t /\ h[i].val = g[i].val /\ h[i].id = g[i].id
  BY <1>0 DEF Alike, Below
<1>2. ASSUME NEW i \in L
      PROVE  /\ h[i].t \in {"NAME", "STRUCT"} /\ h[i].id \in Int
             /\ h[i].val # None /\ FieldOf(f, h[i].t, h[i].id) = h[i].val
  <2>1. CASE i = k
    BY <1>0, <2>1
  <2>2. CASE i # k
    <3>1. i \in K
      BY <1>1, <2>2
    <3>2. PICK ty \in {"NAME", "STRUCT"}, q \in Int : ty = g[i].t /\ q = g[i].id
      BY <3>1 DEF Tell
    <3>3. g[i].val # None /\ FieldOf(e, ty, q) = g[i].val
      BY <3>1, <3>2 DEF Tell
    <3>4. ~(ty = a /\ q = c) /\ h[i].t = ty /\ h[i].id = q /\ h[i].val = g[i].val
      BY <1>1, <2>2, <3>2
    <3> QED BY <1>0, <3>3, <3>4
  <2> QED BY <2>1, <2>2
<1>3. ASSUME NEW ty \in {"NAME", "STRUCT"}, NEW q \in Int, FieldOf(f, ty, q) # None
      PROVE  \E i \in L : h[i].t = ty /\ h[i].id = q
  <2>1. CASE ty = a /\ q = c
    BY <1>0, <2>1
  <2>2. CASE ~(ty = a /\ q = c)
    <3>1. FieldOf(e, ty, q) # None
      BY <1>0, <1>3, <2>2
    <3>2. PICK i \in K : g[i].t = ty /\ g[i].id = q
      BY <3>1 DEF Tell
    <3>3. i \in L
      BY <1>0, <2>2, <3>2
    <3>4. i < k
      BY <3>2 DEF Below
    <3>5. i # k
      BY <3>4 DEF Tell
    <3> QED BY <1>1, <3>2, <3>3, <3>5
  <2> QED BY <2>1, <2>2
<1>4. ASSUME NEW i \in L, NEW j \in L, h[i].t = h[j].t, h[i].id = h[j].id PROVE i = j
  <2>1. CASE i = k
    BY <1>1, <1>4, <2>1
  <2>2. CASE j = k
    BY <1>1, <1>4, <2>2
  <2>3. CASE i # k /\ j # k
    <3>1. /\ i \in K /\ j \in K /\ g[i].t = g[j].t /\ g[i].id = g[j].id
      BY <1>1, <1>4, <2>3
    <3> QED BY <3>1 DEF Tell
  <2> QED BY <2>1, <2>2, <2>3
<1>5. ASSUME NEW i \in L, NEW j \in L, h[i].t = "NAME", h[j].t = "STRUCT", h[i].id = h[j].id
      PROVE  i < j
  <2>1. CASE i = k
    <3>1. a = "NAME" /\ h[j].id = c /\ j # k
      BY <1>5, <2>1
    <3>2. j \in K /\ g[j].t = "STRUCT" /\ g[j].id = c
      BY <1>1, <1>5, <3>1
    <3>3. FieldOf(e, "STRUCT", c) # None
      <4>1. g[j].val # None /\ FieldOf(e, g[j].t, g[j].id) = g[j].val
        BY <3>2 DEF Tell
      <4> QED BY <3>2, <4>1
    <3> QED BY <3>1, <3>3 DEF FieldOf
  <2>2. CASE i # k /\ j = k
    BY <1>1, <2>2
  <2>3. CASE i # k /\ j # k
    <3>1. /\ i \in K /\ j \in K /\ g[i].t = "NAME" /\ g[j].t = "STRUCT" /\ g[i].id = g[j].id
      BY <1>1, <1>5, <2>3
    <3> QED BY <3>1 DEF Tell
  <2> QED BY <2>1, <2>2, <2>3
<1>6. L \subseteq Nat
  BY <1>0 DEF Tell
<1> QED BY <1>2, <1>3, <1>4, <1>5, <1>6 DEF Tell

KeptIn(log) == {i \in 1..Len(log) : IsKept(log, i)}

Survivors(log) == [i \in 1..Len(log) |-> Fate(log, i).tag]

Hides(t, g) == t.id = g.id /\ (t.t = g.t \/ t.t = "DELETE")

LEMMA FilterCases ==
    ASSUME NEW a \in Fates, NEW t \in Tags
    PROVE  /\ Filter(a, t).redundant <=> (a.redundant \/ Hides(t, a.tag))
           /\ ~Filter(a, t).redundant =>
                /\ Filter(a, t).tag.t = a.tag.t /\ Filter(a, t).tag.val = a.tag.val
                /\ Filter(a, t).tag.id = IF t.t = "CREATE" /\ t.id <= a.tag.id THEN a.tag.id + 1
                                         ELSE IF t.t = "DELETE" /\ t.id <= a.tag.id THEN a.tag.id - 1
                                         ELSE a.tag.id
<1>0. PICK r \in BOOLEAN, x \in Tags : a = [redundant |-> r, tag |-> x]
  BY DEF Fates
<1>1. PICK ty, d, v : d \in Int /\ x = [t |-> ty, id |-> d, val |-> v] /\ a = [redundant |-> r, tag |-> x]
  BY <1>0 DEF Tags
<1>2. PICK yes \in BOOLEAN : yes = TRUE
  OBVIOUS
<1>3. CASE a.redundant \/ Hides(t, a.tag)
  <2>1. Filter(a, t) = [a EXCEPT !.redundant = yes]
    BY <1>2, <1>3 DEF Filter, Hides
  <2>2. [a EXCEPT !.redundant = yes] = [redundant |-> yes, tag |-> a.tag]
    BY <1>1
  <2> QED BY <1>2, <1>3, <2>1, <2>2
<1>4. CASE ~(a.redundant \/ Hides(t, a.tag)) /\ IsSplice(t) /\ t.id <= a.tag.id
  <2>1. PICK p \in Int : p = IF t.t = "CREATE" THEN d + 1 ELSE d - 1
    BY <1>1
  <2>2. a.tag.id + Splice(t) = p
    BY <1>1, <1>4, <2>1 DEF Splice, IsSplice
  <2>3. Filter(a, t) = [a EXCEPT !.tag.id = p]
    BY <1>4, <2>2 DEF Filter, Hides
  <2>4. [a EXCEPT !.tag.id = p] = [a EXCEPT !.tag = [a.tag EXCEPT !.id = p]]
    OBVIOUS
  <2>5. [a.tag EXCEPT !.id = p] = [t |-> ty, id |-> p, val |-> v]
    BY <1>1
  <2>6. PICK u : u = [a.tag EXCEPT !.id = p]
    OBVIOUS
  <2>7. [a EXCEPT !.tag = u] = [redundant |-> r, tag |-> u]
    BY <1>1
  <2>8. Filter(a, t).redundant = r /\ Filter(a, t).tag = u /\ a.redundant = r
    BY <1>1, <2>3, <2>4, <2>6, <2>7
  <2>9. u.t = a.tag.t /\ u.val = a.tag.val /\ u.id = p /\ a.tag.id = d
    BY <1>1, <2>5, <2>6
  <2>10. t.t # "CREATE" => t.t = "DELETE"
    BY <1>4 DEF IsSplice
  <2> QED BY <1>4, <2>1, <2>8, <2>9, <2>10
<1>5. CASE ~(a.redundant \/ Hides(t, a.tag)) /\ ~(IsSplice(t) /\ t.id <= a.tag.id)
  <2>1. Filter(a, t) = a
    BY <1>5 DEF Filter, Hides
  <2>2. ~(t.t = "CREATE" /\ t.id <= a.tag.id) /\ ~(t.t = "DELETE" /\ t.id <= a.tag.id)
    BY <1>5 DEF IsSplice
  <2> QED BY <1>5, <2>1, <2>2
<1> QED BY <1>3, <1>4, <1>5

(* What a tag more does to those that are kept: of the n tags of a log     *)
(* those in K, as g has them, become those in L, as h has them.            *)
Filters(n, K, g, L, h, t) ==
    /\ n \in Nat /\ K \subseteq 1..n /\ L \subseteq 1..(n + 1)
    /\ \A i \in 1..n : (i \in L <=> (i \in K /\ ~Hides(t, g[i]))) /\ g[i] \in Tags
    /\ \A i \in L : i # n + 1 =>
         /\ h[i].t = g[i].t /\ h[i].val = g[i].val
         /\ h[i].id = IF t.t = "CREATE" /\ t.id <= g[i].id THEN g[i].id + 1
                      ELSE IF t.t = "DELETE" /\ t.id <= g[i].id THEN g[i].id - 1
                      ELSE g[i].id
    /\ (n + 1 \in L) <=> ~IsSplice(t)
    /\ h[n + 1] = t

LEMMA KeptAppend ==
    ASSUME NEW log \in Seq(Tags), NEW t \in Tags, NEW n, n = Len(log),
           NEW K, K = KeptIn(log), NEW g, g = Survivors(log),
           NEW L, L = KeptIn(Append(log, t)), NEW h, h = Survivors(Append(log, t))
    PROVE  Filters(n, K, g, L, h, t)
<1>1. PICK w : w = Append(log, t)
  OBVIOUS
<1>2. n \in Nat /\ w \in Seq(Tags) /\ Len(w) = n + 1
  BY <1>1, AppendProperties, LenProperties
<1>3. L = {i \in 1..(n + 1) : IsKept(w, i)} /\ h = [i \in 1..(n + 1) |-> Fate(w, i).tag]
  BY <1>1, <1>2 DEF KeptIn, Survivors
<1>4. K = {i \in 1..n : IsKept(log, i)} /\ g = [i \in 1..n |-> Fate(log, i).tag]
  BY DEF KeptIn, Survivors
<1>5. ASSUME NEW i \in 1..n
      PROVE  /\ i \in L <=> i \in K /\ ~Hides(t, g[i])
             /\ g[i] \in Tags
             /\ i \in L =>
                /\ h[i].t = g[i].t /\ h[i].val = g[i].val
                /\ h[i].id = IF t.t = "CREATE" /\ t.id <= g[i].id THEN g[i].id + 1
                             ELSE IF t.t = "DELETE" /\ t.id <= g[i].id THEN g[i].id - 1
                             ELSE g[i].id
  <2>1. PICK a \in Fates : a = Fate(log, i)
    BY FateAppend
  <2>2. Fate(w, i) = Filter(a, t) /\ w[i] = log[i]
    BY <1>1, <2>1, FateAppend
  <2>3. g[i] = a.tag /\ a.tag \in Tags /\ i \in 1..(n + 1)
    BY <1>2, <1>4, <2>1 DEF Fates
  <2>4. h[i] = Filter(a, t).tag
    BY <1>3, <2>2, <2>3
  <2>5. i \in L <=> ~IsSplice(log[i]) /\ ~Filter(a, t).redundant
    BY <1>3, <2>2, <2>3 DEF IsKept
  <2>6. i \in K <=> ~IsSplice(log[i]) /\ ~a.redundant
    BY <1>4, <2>1 DEF IsKept
  <2> QED BY <2>3, <2>4, <2>5, <2>6, FilterCases
<1>6. Fate(w, n + 1) = Untouched(t) /\ w[n + 1] = t
  BY <1>1, FateAppend
<1>7. n + 1 \in 1..(n + 1)
  BY <1>2
<1>8. n + 1 \in L <=> ~IsSplice(t)
  BY <1>3, <1>6, <1>7, UntouchedIs DEF IsKept
<1>9. h[n + 1] = t
  BY <1>3, <1>6, <1>7, UntouchedIs
<1>10. \A i \in 1..(n + 1) : i # n + 1 => i \in 1..n
  BY <1>2
<1>11. \A i \in L : i # n + 1 => i \in 1..n
  BY <1>3, <1>10
<1>12. K \subseteq 1..n /\ L \subseteq 1..(n + 1)
  BY <1>3, <1>4
<1> QED BY <1>2, <1>5, <1>8, <1>9, <1>11, <1>12 DEF Filters

(***************************************************************************)
(* The search for a name while a block is fetched: the best match is the   *)
(* entry that has the name, or lies behind those with lesser names and not *)
(* behind those with greater ones.  F are the places that a name is still  *)
(* to be written to.                                                       *)
(***************************************************************************)
SearchOk(b, e, n, F) ==
    /\ b \in Bests
    /\ b.id >= 0 /\ (b.id = NoId \/ b.id <= Len(e))
    /\ b.valid => NameOf(e, b.id) = n
    /\ \A q \in Int : NameOf(e, q) = n => b.valid /\ q = b.id
    /\ \A q \in Int : NameOf(e, q) # None /\ NameOf(e, q) < n => q < b.id
    /\ \A q \in Int : NameOf(e, q) > n => q >= b.id
    /\ \A q \in F : q < b.id \/ \E p \in Int : p < q /\ NameOf(e, p) >= n

LEMMA FindStepCases ==
    ASSUME NEW b \in Bests, NEW t \in Tags, NEW n, NEW d, d = FindStep(n, b, t)
    PROVE  /\ d \in Bests
           /\ t.t = "DELETE" /\ t.id = b.id => d.id = b.id /\ ~d.valid
           /\ t.t = "DELETE" /\ t.id < b.id /\ b.id # NoId => d.id = b.id - 1 /\ d.valid = b.valid
           /\ t.t = "CREATE" /\ t.id <= b.id /\ b.id # NoId => d.id = b.id + 1 /\ d.valid = b.valid
           /\ t.t \in {"CREATE", "DELETE"} /\ (t.id > b.id \/ (b.id = NoId /\ t.id # b.id)) => d = b
           /\ t.t = "NAME" /\ t.val = n => d.id = t.id /\ d.valid
           /\ t.t = "NAME" /\ t.val # n /\ t.val > n /\ t.id <= b.id => d.id = t.id /\ ~d.valid
           /\ t.t = "NAME" /\ t.val # n /\ ~(t.val > n /\ t.id <= b.id) => d = b
           /\ t.t = "STRUCT" => d = b
<1>1. PICK i \in Int, v \in BOOLEAN : b = [id |-> i, valid |-> v]
  BY DEF Bests
<1>2. PICK no \in BOOLEAN : no = FALSE
  OBVIOUS
<1>3. PICK yes \in BOOLEAN : yes = TRUE
  OBVIOUS
<1>4. d \in Bests
  BY FindStepIs
<1>5. t.id \in Int
  BY DEF Tags
<1>6. ASSUME t.t = "DELETE", t.id = b.id PROVE d.id = b.id /\ ~d.valid
  <2>1. d = [b EXCEPT !.valid = no]
    BY <1>2, <1>6 DEF FindStep, IsSplice
  <2>2. d = [id |-> i, valid |-> no]
    BY <1>1, <2>1
  <2> QED BY <1>1, <1>2, <2>2
<1>7. ASSUME t.t = "DELETE", t.id < b.id, b.id # NoId PROVE d.id = b.id - 1 /\ d.valid = b.valid
  <2>1. PICK p \in Int : p = i - 1
    OBVIOUS
  <2>2. b.id + Splice(t) = p
    BY <1>1, <1>7, <2>1 DEF Splice
  <2>3. d = [b EXCEPT !.id = p]
    BY <1>1, <1>5, <1>7, <2>2 DEF FindStep, IsSplice
  <2>4. d = [id |-> p, valid |-> v]
    BY <1>1, <2>3
  <2> QED BY <1>1, <2>1, <2>4
<1>8. ASSUME t.t = "CREATE", t.id <= b.id, b.id # NoId PROVE d.id = b.id + 1 /\ d.valid = b.valid
  <2>1. PICK p \in Int : p = i + 1
    OBVIOUS
  <2>2. b.id + Splice(t) = p
    BY <1>1, <1>8, <2>1 DEF Splice
  <2>3. d = [b EXCEPT !.id = p]
    BY <1>1, <1>5, <1>8, <2>2 DEF FindStep, IsSplice
  <2>4. d = [id |-> p, valid |-> v]
    BY <1>1, <2>3
  <2> QED BY <1>1, <2>1, <2>4
<1>9. ASSUME t.t \in {"CREATE", "DELETE"}, t.id > b.id \/ (b.id = NoId /\ t.id # b.id) PROVE d = b
  BY <1>1, <1>5, <1>9 DEF FindStep, IsSplice
<1>10. ASSUME t.t = "NAME", t.val = n PROVE d.id = t.id /\ d.valid
  <2>1. d = [id |-> t.id, valid |-> yes]
    BY <1>3, <1>10 DEF FindStep, IsSplice
  <2> QED BY <1>3, <2>1
<1>11. ASSUME t.t = "NAME", t.val # n, t.val > n, t.id <= b.id PROVE d.id = t.id /\ ~d.valid
  <2>1. d = [id |-> t.id, valid |-> no]
    BY <1>2, <1>11 DEF FindStep, IsSplice
  <2> QED BY <1>2, <2>1
<1>12. ASSUME t.t = "NAME", t.val # n, ~(t.val > n /\ t.id <= b.id) PROVE d = b
  BY <1>12 DEF FindStep, IsSplice
<1>13. ASSUME t.t = "STRUCT" PROVE d = b
  BY <1>13 DEF FindStep, IsSplice
<1> QED BY <1>4, <1>6, <1>7, <1>8, <1>9, <1>10, <1>11, <1>12, <1>13

(* The place of a new entry, when every place before it has a name.        *)
LEMMA SearchCreate ==
    ASSUME NEW e \in Seq(Entry), NEW f, NEW n \in Names, NEW b, SearchOk(b, e, n, {}),
           NEW t \in Tags, t.t = "CREATE", NEW c \in Nat, c = t.id, c <= Len(e), Len(e) < NoId,
           \A q \in 0..Len(e) - 1 : NameOf(e, q) # None, Inserts(e, f, c)
    PROVE  SearchOk(FindStep(n, b, t), f, n, {c})
<1>1. PICK d : d = FindStep(n, b, t)
  OBVIOUS
<1>2. b \in Bests /\ b.id \in Int /\ c \in Int /\ n \in Nat /\ n # None
  BY PairAssumption DEF SearchOk, Bests, Tags, None
<1>3. PICK l \in Nat : l = Len(e) /\ \A q \in Int : NameOf(e, q) \in Nat
  BY EntriesAre
<1>0. NoId \in Nat
  BY DEF NoId
<1>4. Len(f) = l + 1 /\ c <= l /\ 0 <= c /\ l < NoId /\ NoId \in Nat
      /\ \A q \in Int : NameOf(f, q) = IF q < c THEN NameOf(e, q) ELSE IF q = c THEN None ELSE NameOf(e, q - 1)
  <2>1. l < NoId
    BY <1>3
  <2>2. c <= l /\ 0 <= c
    BY <1>3
  <2>3. Len(f) = l + 1
    BY <1>3 DEF Inserts
  <2>4. \A q \in Int : NameOf(f, q) = IF q < c THEN NameOf(e, q) ELSE IF q = c THEN None ELSE NameOf(e, q - 1)
    BY DEF Inserts
  <2> QED BY <1>0, <2>1, <2>2, <2>3, <2>4
<1>5. d \in Bests /\ d.id \in Int
  BY <1>1, <1>2, FindStepCases DEF Bests
<1>6. d.valid = b.valid /\ d.id = IF b.id # NoId /\ c <= b.id THEN b.id + 1 ELSE b.id
  <2>1. CASE b.id # NoId /\ c <= b.id
    BY <1>1, <1>2, <2>1, FindStepCases
  <2>2. CASE ~(b.id # NoId /\ c <= b.id)
    <3>1. c > b.id \/ (b.id = NoId /\ c # b.id)
      BY <1>2, <1>4, <2>2
    <3> QED BY <1>1, <1>2, <2>2, <3>1, FindStepCases
  <2> QED BY <2>1, <2>2
<1>7. /\ b.id >= 0 /\ (b.id = NoId \/ b.id <= l)
      /\ b.valid => NameOf(e, b.id) = n
      /\ \A q \in Int : NameOf(e, q) = n => b.valid /\ q = b.id
      /\ \A q \in Int : NameOf(e, q) # None /\ NameOf(e, q) < n => q < b.id
      /\ \A q \in Int : NameOf(e, q) > n => q >= b.id
  BY <1>3 DEF SearchOk
<1>8. \A q \in Int : NameOf(e, q) # None => q < l
  BY <1>3, EntriesAre
<1>9. d.id >= 0 /\ (d.id = NoId \/ d.id <= Len(f))
  BY <1>2, <1>4, <1>6, <1>7
<1>10. d.valid => NameOf(f, d.id) = n
  <2>1. CASE b.id # NoId /\ c <= b.id
    <3>1. d.id = b.id + 1 /\ d.id \in Int /\ (b.id + 1) - 1 = b.id
      BY <1>2, <1>6, <2>1
    <3>2. NameOf(f, d.id) = NameOf(e, b.id)
      BY <1>2, <1>4, <2>1, <3>1
    <3> QED BY <1>6, <1>7, <3>2
  <2>2. CASE ~(b.id # NoId /\ c <= b.id)
    <3>1. ASSUME d.valid PROVE c > b.id
      <4>1. NameOf(e, b.id) = n
        BY <1>6, <1>7, <3>1
      <4>2. b.id < l
        BY <1>2, <1>8, <4>1
      <4> QED BY <1>2, <1>4, <2>2, <4>2
    <3>2. d.id = b.id
      BY <1>6, <2>2
    <3> QED BY <1>2, <1>4, <1>6, <1>7, <3>1, <3>2
  <2> QED BY <2>1, <2>2
<1>11. ASSUME NEW q \in Int, NameOf(f, q) # None
       PROVE  \E p \in Int : /\ NameOf(f, q) = NameOf(e, p)
                             /\ q = IF p < c THEN p ELSE p + 1
  <2>1. CASE q < c
    BY <1>2, <1>4, <2>1
  <2>2. CASE q > c
    <3>1. q - 1 \in Int /\ ~(q - 1 < c) /\ q = (q - 1) + 1 /\ NameOf(f, q) = NameOf(e, q - 1)
      BY <1>2, <1>4, <2>2
    <3> QED BY <3>1
  <2>3. q # c
    BY <1>4, <1>11
  <2> QED BY <1>2, <2>1, <2>2, <2>3
<1>12. ASSUME NEW q \in Int, NameOf(f, q) = n PROVE d.valid /\ q = d.id
  <2>1. PICK p \in Int : NameOf(e, p) = n /\ q = IF p < c THEN p ELSE p + 1
    BY <1>2, <1>11, <1>12
  <2>2. b.valid /\ p = b.id /\ p < l
    BY <1>2, <1>7, <1>8, <2>1
  <2> QED BY <1>2, <1>4, <1>6, <2>1, <2>2
<1>13. ASSUME NEW q \in Int, NameOf(f, q) # None, NameOf(f, q) < n PROVE q < d.id
  <2>1. PICK p \in Int : NameOf(e, p) = NameOf(f, q) /\ q = IF p < c THEN p ELSE p + 1
    BY <1>11, <1>13
  <2>2. p < b.id /\ p < l
    BY <1>7, <1>8, <1>13, <2>1
  <2> QED BY <1>2, <1>4, <1>6, <2>1, <2>2
<1>14. ASSUME NEW q \in Int, NameOf(f, q) > n PROVE q >= d.id
  <2>0. NameOf(f, q) # None
    BY <1>2, <1>14 DEF None
  <2>1. PICK p \in Int : NameOf(e, p) = NameOf(f, q) /\ q = IF p < c THEN p ELSE p + 1
    BY <1>11, <2>0
  <2>2. p >= b.id /\ p < l
    BY <1>7, <1>8, <1>14, <2>0, <2>1
  <2> QED BY <1>2, <1>4, <1>6, <1>7, <2>1, <2>2
<1>15. c < d.id \/ \E p \in Int : p < c /\ NameOf(f, p) >= n
  <2>1. CASE b.id # NoId /\ c <= b.id
    BY <1>2, <1>6, <2>1
  <2>2. CASE b.id = NoId
    BY <1>2, <1>4, <1>6, <2>2
  <2>3. CASE b.id # NoId /\ ~(c <= b.id)
    <3>1. b.id < c /\ b.id \in 0..l - 1
      BY <1>2, <1>4, <1>7, <2>3
    <3>2. NameOf(e, b.id) # None /\ NameOf(f, b.id) = NameOf(e, b.id) /\ NameOf(e, b.id) \in Nat
      BY <1>2, <1>3, <1>4, <3>1
    <3>3. ~(NameOf(e, b.id) < n)
      BY <1>2, <1>7, <3>2
    <3>4. NameOf(f, b.id) >= n
      BY <1>2, <3>2, <3>3
    <3> QED BY <1>2, <3>1, <3>4
  <2> QED BY <2>1, <2>2, <2>3
<1> QED BY <1>1, <1>5, <1>9, <1>10, <1>12, <1>13, <1>14, <1>15 DEF SearchOk

LEMMA SearchDelete ==
    ASSUME NEW e \in Seq(Entry), NEW f, NEW n \in Names, NEW b, SearchOk(b, e, n, {}),
           NEW t \in Tags, t.t = "DELETE", NEW c \in Nat, c = t.id, c < Len(e), Len(e) < NoId,
           Removes(e, f, c)
    PROVE  SearchOk(FindStep(n, b, t), f, n, {})
<1>1. PICK d : d = FindStep(n, b, t)
  OBVIOUS
<1>2. b \in Bests /\ b.id \in Int /\ c \in Int /\ n \in Nat /\ n # None
  BY PairAssumption DEF SearchOk, Bests, Tags, None
<1>3. PICK l \in Nat : l = Len(e) /\ \A q \in Int : NameOf(e, q) \in Nat
  BY EntriesAre
<1>0. NoId \in Nat
  BY DEF NoId
<1>4. Len(f) = l - 1 /\ c < l /\ 0 <= c /\ l < NoId /\ NoId \in Nat
      /\ \A q \in Int : NameOf(f, q) = IF q < c THEN NameOf(e, q) ELSE NameOf(e, q + 1)
  <2>1. l < NoId
    BY <1>3
  <2>2. c < l /\ 0 <= c
    BY <1>3
  <2>3. Len(f) = l - 1
    BY <1>3 DEF Removes
  <2>4. \A q \in Int : NameOf(f, q) = IF q < c THEN NameOf(e, q) ELSE NameOf(e, q + 1)
    BY DEF Removes
  <2> QED BY <1>0, <2>1, <2>2, <2>3, <2>4
<1>a. l \in Nat /\ Len(f) = l - 1 /\ c < l /\ 0 <= c /\ l < NoId /\ NoId \in Nat /\ c \in Int /\ b.id \in Int
  BY <1>2, <1>3, <1>4
<1>5. d \in Bests /\ d.id \in Int
  BY <1>1, <1>2, FindStepCases DEF Bests
<1>6. /\ d.valid <=> (b.valid /\ c # b.id)
      /\ b.id # NoId /\ c < b.id => d.id = b.id - 1
      /\ ~(b.id # NoId /\ c < b.id) => d.id = b.id
  <2>1. CASE b.id # NoId /\ c < b.id
    <3>1. d.id = b.id - 1 /\ d.valid = b.valid
      BY <1>1, <1>2, <2>1, FindStepCases
    <3>2. c # b.id
      BY <1>2, <2>1
    <3> QED BY <2>1, <3>1, <3>2
  <2>2. CASE c = b.id
    <3>0. t.id = b.id
      BY <2>2
    <3>1. d.id = b.id /\ ~d.valid
      <4>1. b \in Bests /\ t \in Tags
        BY <1>2
      <4> QED BY <1>1, <3>0, <4>1, FindStepCases
    <3>2. ~(c < b.id)
      BY <1>2, <2>2
    <3> QED BY <2>2, <3>1, <3>2
  <2>3. CASE c # b.id /\ ~(b.id # NoId /\ c < b.id)
    <3>1. c > b.id \/ (b.id = NoId /\ c # b.id)
      BY <1>2, <2>3
    <3> QED BY <1>1, <1>2, <2>3, <3>1, FindStepCases
  <2> QED BY <2>1, <2>2, <2>3
<1>7. /\ b.id >= 0 /\ (b.id = NoId \/ b.id <= l)
      /\ b.valid => NameOf(e, b.id) = n
      /\ \A q \in Int : NameOf(e, q) = n => b.valid /\ q = b.id
      /\ \A q \in Int : NameOf(e, q) # None /\ NameOf(e, q) < n => q < b.id
      /\ \A q \in Int : NameOf(e, q) > n => q >= b.id
  BY <1>3 DEF SearchOk
<1>8. \A q \in Int : NameOf(e, q) # None => q < l
  BY <1>3, EntriesAre
<1>b. b.id >= 0 /\ (b.id = NoId \/ b.id <= l)
  BY <1>7
<1>9. d.id >= 0 /\ (d.id = NoId \/ d.id <= Len(f))
  BY <1>a, <1>b, <1>6
<1>10. d.valid => NameOf(f, d.id) = n
  <2>1. CASE b.id # NoId /\ c < b.id
    <3>1. d.id = b.id - 1 /\ d.id \in Int /\ (b.id - 1) + 1 = b.id /\ ~(d.id < c)
      BY <1>2, <1>6, <2>1
    <3>2. NameOf(f, d.id) = NameOf(e, b.id)
      BY <1>2, <1>4, <2>1, <3>1
    <3> QED BY <1>6, <1>7, <3>2
  <2>2. CASE ~(b.id # NoId /\ c < b.id)
    <3>1. ASSUME d.valid PROVE b.id < c
      <4>1. NameOf(e, b.id) = n /\ c # b.id
        BY <1>6, <1>7, <3>1
      <4>2. b.id < l
        BY <1>2, <1>8, <4>1
      <4> QED BY <1>a, <2>2, <4>1, <4>2
    <3>2. d.id = b.id
      BY <1>6, <2>2
    <3> QED BY <1>2, <1>4, <1>6, <1>7, <3>1, <3>2
  <2> QED BY <2>1, <2>2
<1>11. ASSUME NEW q \in Int
       PROVE  \E p \in Int : /\ NameOf(f, q) = NameOf(e, p) /\ p # c
                             /\ q = IF p < c THEN p ELSE p - 1
  <2>1. CASE q < c
    BY <1>2, <1>4, <2>1
  <2>2. CASE ~(q < c)
    <3>1. q + 1 \in Int /\ ~(q + 1 < c) /\ q + 1 # c /\ q = (q + 1) - 1 /\ NameOf(f, q) = NameOf(e, q + 1)
      BY <1>2, <1>4, <2>2
    <3> QED BY <3>1
  <2> QED BY <2>1, <2>2
<1>12. ASSUME NEW q \in Int, NameOf(f, q) = n PROVE d.valid /\ q = d.id
  <2>1. PICK p \in Int : NameOf(e, p) = n /\ p # c /\ q = IF p < c THEN p ELSE p - 1
    BY <1>11, <1>12
  <2>2. b.valid /\ p = b.id /\ p < l
    BY <1>2, <1>7, <1>8, <2>1
  <2> QED BY <1>a, <1>b, <1>6, <2>1, <2>2
<1>13. ASSUME NEW q \in Int, NameOf(f, q) # None, NameOf(f, q) < n PROVE q < d.id
  <2>1. PICK p \in Int : NameOf(e, p) = NameOf(f, q) /\ p # c /\ q = IF p < c THEN p ELSE p - 1
    BY <1>11
  <2>2. p < b.id /\ p < l
    BY <1>7, <1>8, <1>13, <2>1
  <2> QED BY <1>a, <1>b, <1>6, <2>1, <2>2
<1>14. ASSUME NEW q \in Int, NameOf(f, q) > n PROVE q >= d.id
  <2>0. NameOf(f, q) # None
    BY <1>2, <1>14 DEF None
  <2>1. PICK p \in Int : NameOf(e, p) = NameOf(f, q) /\ p # c /\ q = IF p < c THEN p ELSE p - 1
    BY <1>11
  <2>2. p >= b.id /\ p < l
    BY <1>7, <1>8, <1>14, <2>0, <2>1
  <2> QED BY <1>a, <1>b, <1>6, <2>1, <2>2
<1> QED BY <1>1, <1>5, <1>9, <1>10, <1>12, <1>13, <1>14 DEF SearchOk

(* A name is written to one of the places, in order.                       *)
LEMMA SearchName ==
    ASSUME NEW e \in Seq(Entry), NEW f, NEW n \in Names, NEW F \in SUBSET (0..NoId - 1), NEW b,
           SearchOk(b, e, n, F),
           NEW t \in Tags, t.t = "NAME", NEW m \in Names, m = t.val, NEW c \in F, c = t.id,
           \A q \in Int : NameOf(e, q) # None => (q < c /\ NameOf(e, q) < m) \/ (q > c /\ NameOf(e, q) > m),
           Names1(e, f, c, m)
    PROVE  SearchOk(FindStep(n, b, t), f, n, F \ {c})
<1>1. PICK d : d = FindStep(n, b, t)
  OBVIOUS
<1>0. NoId \in Nat
  BY DEF NoId
<1>2. b \in Bests /\ b.id \in Int /\ c \in Int /\ n \in Nat /\ n # None /\ m \in Nat /\ m # None
      /\ NoId \in Nat /\ c < NoId /\ 0 <= c /\ F \subseteq Int
  <2>1. b \in Bests /\ b.id \in Int
    BY DEF SearchOk, Bests
  <2>2. n \in Nat /\ n # None /\ m \in Nat /\ m # None
    BY PairAssumption DEF None
  <2>3. F \subseteq Int /\ c \in Int /\ c < NoId /\ 0 <= c
    BY <1>0
  <2> QED BY <1>0, <2>1, <2>2, <2>3
<1>3. PICK l \in Nat : l = Len(e) /\ \A q \in Int : NameOf(e, q) \in Nat
  BY EntriesAre
<1>4. PICK k \in Nat : k = Len(f) /\ k >= l /\ c < k /\ \A q \in Int : NameOf(f, q) = IF q = c THEN m ELSE NameOf(e, q)
  <2>0. l \in Nat /\ l = Len(e)
    BY <1>3
  <2>1. PICK k \in Nat : k = IF c < l THEN l ELSE c + 1
    BY <1>2, <2>0
  <2>2. k = Len(f)
    BY <2>0, <2>1 DEF Names1
  <2>3. k >= l /\ c < k
    BY <1>2, <2>0, <2>1
  <2>4. \A q \in Int : NameOf(f, q) = IF q = c THEN m ELSE NameOf(e, q)
    BY DEF Names1
  <2> QED BY <2>2, <2>3, <2>4
<1>5. d \in Bests /\ d.id \in Int
  BY <1>1, <1>2, FindStepCases DEF Bests
<1>6. /\ m = n => d.id = c /\ d.valid
      /\ m > n /\ c <= b.id => d.id = c /\ ~d.valid
      /\ (m < n \/ (m > n /\ b.id < c)) => d = b
  <2>1. m > n => m # n
    BY <1>2
  <2>2. (m < n \/ (m > n /\ b.id < c)) => m # n /\ ~(m > n /\ c <= b.id)
    BY <1>2
  <2> QED BY <1>1, <1>2, <2>1, <2>2, FindStepCases
<1>7. /\ b.id >= 0 /\ (b.id = NoId \/ b.id <= l)
      /\ b.valid => NameOf(e, b.id) = n
      /\ \A q \in Int : NameOf(e, q) = n => b.valid /\ q = b.id
      /\ \A q \in Int : NameOf(e, q) # None /\ NameOf(e, q) < n => q < b.id
      /\ \A q \in Int : NameOf(e, q) > n => q >= b.id
      /\ \A q \in F : q < b.id \/ \E p \in Int : p < q /\ NameOf(e, p) >= n
  BY <1>3 DEF SearchOk
<1>8. NameOf(e, c) = None /\ NameOf(f, c) = m
  BY <1>2, <1>4
<1>9. CASE m = n
  <2>1. d.id = c /\ d.valid
    BY <1>6, <1>9
  <2>2. d.id >= 0 /\ (d.id = NoId \/ d.id <= k)
    BY <1>2, <1>4, <2>1
  <2>3. ASSUME NEW q \in Int PROVE /\ NameOf(f, q) = n => q = d.id
                                   /\ NameOf(f, q) # None /\ NameOf(f, q) < n => q < d.id
                                   /\ NameOf(f, q) > n => q >= d.id
    <3>1. CASE q = c
      BY <1>2, <1>8, <1>9, <2>1, <3>1
    <3>2. CASE q # c
      <4>1. NameOf(f, q) = NameOf(e, q) /\ NameOf(e, q) \in Nat
        BY <1>3, <1>4, <3>2
      <4>2. NameOf(e, q) = None \/ (q < c /\ NameOf(e, q) < n) \/ (q > c /\ NameOf(e, q) > n)
        BY <1>9
      <4> QED BY <1>2, <2>1, <4>1, <4>2 DEF None
    <3> QED BY <3>1, <3>2
  <2>4. ASSUME NEW q \in F \ {c} PROVE q < d.id \/ \E p \in Int : p < q /\ NameOf(f, p) >= n
    <3>1. q < c \/ (c < q /\ NameOf(f, c) >= n)
      BY <1>2, <1>8, <1>9
    <3> QED BY <1>2, <2>1, <3>1
  <2> QED BY <1>1, <1>4, <1>5, <1>8, <1>9, <2>1, <2>2, <2>3, <2>4 DEF SearchOk
<1>10. CASE m > n /\ c <= b.id
  <2>1. d.id = c /\ ~d.valid
    BY <1>6, <1>10
  <2>2. d.id >= 0 /\ (d.id = NoId \/ d.id <= k)
    BY <1>2, <1>4, <2>1
  <2>3. ASSUME NEW q \in Int PROVE /\ NameOf(f, q) # n
                                   /\ NameOf(f, q) # None /\ NameOf(f, q) < n => q < d.id
                                   /\ NameOf(f, q) > n => q >= d.id
    <3>1. CASE q = c
      BY <1>2, <1>8, <1>10, <2>1, <3>1
    <3>2. CASE q # c
      <4>1. NameOf(f, q) = NameOf(e, q) /\ NameOf(e, q) \in Nat
        BY <1>3, <1>4, <3>2
      <4>2. NameOf(e, q) = None \/ (q < c /\ NameOf(e, q) < m) \/ (q > c /\ NameOf(e, q) > m)
        OBVIOUS
      <4>3. NameOf(e, q) # n
        <5>1. NameOf(e, q) = n => q = b.id
          BY <1>7
        <5> QED BY <1>2, <1>10, <4>2, <5>1
      <4>4. NameOf(e, q) > n => q >= b.id
        BY <1>7
      <4> QED BY <1>2, <1>10, <2>1, <4>1, <4>2, <4>3, <4>4
    <3> QED BY <3>1, <3>2
  <2>4. ASSUME NEW q \in F \ {c} PROVE q < d.id \/ \E p \in Int : p < q /\ NameOf(f, p) >= n
    <3>1. q < c \/ (c < q /\ NameOf(f, c) >= n)
      BY <1>2, <1>8, <1>10
    <3> QED BY <1>2, <2>1, <3>1
  <2> QED BY <1>1, <1>4, <1>5, <2>1, <2>2, <2>3, <2>4 DEF SearchOk
<1>11. CASE m < n \/ (m > n /\ b.id < c)
  <2>1. d = b
    BY <1>6, <1>11
  <2>2. d.id >= 0 /\ (d.id = NoId \/ d.id <= k)
    <3>1. l \in Nat /\ k \in Nat /\ k >= l
      BY <1>3, <1>4
    <3>2. b.id >= 0 /\ (b.id = NoId \/ b.id <= l)
      BY <1>7
    <3> QED BY <1>2, <2>1, <3>1, <3>2
  <2>3. m < n => c < b.id
    <3>1. ASSUME m < n, NEW p \in Int, p < c, NameOf(e, p) >= n PROVE FALSE
      <4>1. NameOf(e, p) # None /\ NameOf(e, p) \in Nat
        BY <1>2, <1>3, <3>1 DEF None
      <4> QED BY <1>2, <3>1, <4>1
    <3> QED BY <1>7, <3>1
  <2>4. d.valid => NameOf(f, d.id) = n
    <3>1. b.valid => b.id # c
      BY <1>2, <1>7, <1>8
    <3> QED BY <1>2, <1>4, <1>7, <2>1, <3>1
  <2>5. ASSUME NEW q \in Int PROVE /\ NameOf(f, q) = n => d.valid /\ q = d.id
                                   /\ NameOf(f, q) # None /\ NameOf(f, q) < n => q < d.id
                                   /\ NameOf(f, q) > n => q >= d.id
    <3>1. CASE q = c
      BY <1>2, <1>8, <1>11, <2>1, <2>3, <3>1
    <3>2. CASE q # c
      <4>1. NameOf(f, q) = NameOf(e, q)
        BY <1>4, <3>2
      <4> QED BY <1>7, <2>1, <4>1
    <3> QED BY <3>1, <3>2
  <2>6. ASSUME NEW q \in F \ {c} PROVE q < d.id \/ \E p \in Int : p < q /\ NameOf(f, p) >= n
    <3>1. CASE q < b.id
      BY <2>1, <3>1
    <3>2. CASE ~(q < b.id)
      <4>1. PICK p \in Int : p < q /\ NameOf(e, p) >= n
        BY <1>7, <3>2
      <4>2. p # c
        BY <1>2, <1>8, <4>1 DEF None
      <4>3. NameOf(f, p) = NameOf(e, p)
        BY <1>4, <4>2
      <4> QED BY <4>1, <4>3
    <3> QED BY <3>1, <3>2
  <2> QED BY <1>1, <1>4, <1>5, <2>2, <2>4, <2>5, <2>6 DEF SearchOk
<1> QED BY <1>2, <1>9, <1>10, <1>11

LEMMA SearchStruct ==
    ASSUME NEW e, NEW f, NEW n, NEW F, NEW b, SearchOk(b, e, n, F),
           NEW t \in Tags, t.t = "STRUCT", NEW c, NEW s, Fills(e, f, c, s)
    PROVE  SearchOk(FindStep(n, b, t), f, n, F)
<1>1. b \in Bests
  BY DEF SearchOk
<1>2. FindStep(n, b, t) = b
  BY <1>1, FindStepCases
<1>3. Len(f) = Len(e) /\ \A q \in Int : NameOf(f, q) = NameOf(e, q)
  BY DEF Fills
<1>4. b.valid => NameOf(f, b.id) = NameOf(e, b.id)
  BY <1>1, <1>3 DEF Bests
<1> QED BY <1>2, <1>3, <1>4 DEF SearchOk

(* The names are in order, whatever places have none.                      *)
Ordered(e) ==
    \A p, q \in Int :
        NameOf(e, p) # None /\ NameOf(e, q) # None /\ p < q => NameOf(e, p) < NameOf(e, q)

Named(e) == \A q \in 0..Len(e) - 1 : NameOf(e, q) # None

(* A log, and the entries it stands for, when names are still to be        *)
(* written to the places F.                                                *)
Mid(log, e, F) ==
    /\ log \in Seq(Tags) /\ e \in Seq(Entry) /\ e = Replay(log)
    /\ ReadsAre(log, e)
    /\ Count(log) = Len(e)
    /\ Tell(KeptIn(log), Survivors(log), e)
    /\ Ordered(e)
    /\ \A n \in Names : SearchOk(BestMatch(log, n), e, n, F)

LEMMA MidEmpty ==
    \A F \in SUBSET (0..NoId - 1) : Mid(<<>>, <<>>, F)
<1> SUFFICES ASSUME NEW F \in SUBSET (0..NoId - 1) PROVE Mid(<<>>, <<>>, F)
  OBVIOUS
<1>1. PICK t \in Tags : t = Tag("CREATE", 0, None)
  BY TagIs
<1>2. PICK l : l = <<>>
  OBVIOUS
<1>3. l \in Seq(Tags) /\ l \in Seq(Entry) /\ Len(l) = 0
  BY <1>2
<1>4. \A q \in Int : NameOf(l, q) = None /\ StructOf(l, q) = None
  BY <1>3 DEF NameOf, StructOf
<1>5. Replay(l) = l
  BY <1>1, <1>2, <1>3, ReplayAppend
<1>6. ReadsAre(l, l)
  <2>1. ASSUME NEW q \in Nat, NEW ty \in {"NAME", "STRUCT"} PROVE GetFrom(l, ty, Start(q)).val = None
    <3>1. Start(q) \in Reads
      BY <1>1, GetStepStart
    <3>2. GetFrom(l, ty, Start(q)) = Start(q)
      BY <1>1, <1>2, <1>3, <3>1, GetAppend
    <3> QED BY <3>2 DEF Start
  <2> QED BY <1>4, <2>1 DEF ReadsAre
<1>7. Count(l) = 0
  BY <1>1, <1>2, <1>3, CountAppend
<1>8. KeptIn(l) = {}
  BY <1>3 DEF KeptIn
<1>9. Tell(KeptIn(l), Survivors(l), l)
  BY <1>4, <1>8 DEF Tell, FieldOf
<1>10. Ordered(l)
  BY <1>4 DEF Ordered
<1>11. ASSUME NEW n \in Names PROVE SearchOk(BestMatch(l, n), l, n, F)
  <2>1. BestMatch(l, n) = Nowhere /\ Nowhere \in Bests
    BY <1>1, <1>2, <1>3, BestAppend, FindStepIs
  <2>2. PICK b \in Bests : b = Nowhere
    BY <2>1
  <2>3. b.id = NoId /\ ~b.valid /\ NoId \in Nat /\ NoId > 0
    BY <2>2 DEF Nowhere, NoId
  <2>4. n \in Nat /\ n # None /\ n > None
    BY PairAssumption DEF None
  <2>5. \A q \in Int : NameOf(l, q) # n /\ ~(NameOf(l, q) > n)
    BY <1>4, <2>4 DEF None
  <2>6. \A q \in F : q < b.id
    BY <2>3
  <2>7. SearchOk(b, l, n, F)
    BY <1>4, <2>3, <2>5, <2>6 DEF SearchOk
  <2> QED BY <2>1, <2>2, <2>7
<1> QED BY <1>2, <1>3, <1>5, <1>6, <1>7, <1>9, <1>10, <1>11 DEF Mid

LEMMA MidCreate ==
    ASSUME NEW log, NEW e, Mid(log, e, {}), Named(e), Len(e) < NoId,
           NEW t \in Tags, t.t = "CREATE", NEW c \in Nat, c = t.id, c <= Len(e),
           NEW f, f = Apply(e, t)
    PROVE  Mid(Append(log, t), f, {c}) /\ Inserts(e, f, c)
<1>1. log \in Seq(Tags) /\ e \in Seq(Entry) /\ e = Replay(log)
  BY DEF Mid
<1>2. PICK w : w = Append(log, t)
  OBVIOUS
<1>3. w \in Seq(Tags)
  BY <1>1, <1>2, AppendProperties
<1>4. f = Replay(w)
  BY <1>1, <1>2, ReplayAppend
<1>5. Inserts(e, f, c)
  <2>1. Len(e) \in Nat
    BY <1>1, LenProperties
  <2>2. PICK d \in 0..Len(e) : d = c
    BY <2>1
  <2>3. t.id = d
    BY <2>2
  <2>4. Inserts(e, Apply(e, t), d)
    BY <1>1, <2>3, CreateIs
  <2> QED BY <2>2, <2>4
<1>6. f \in Seq(Entry) /\ Len(f) = Len(e) + 1
  BY <1>5 DEF Inserts
<1>7. ReadsAre(w, f)
  BY <1>1, <1>2, <1>5, ReadsCreate DEF Mid
<1>8. Count(w) = Len(f)
  <2>1. Count(log) = Len(e)
    BY DEF Mid
  <2>2. Count(w) = CountStep(Count(log), t)
    BY <1>1, <1>2, CountAppend
  <2> QED BY <1>6, <2>1, <2>2 DEF CountStep, Splice
<1>9. Tell(KeptIn(w), Survivors(w), f)
  <2>1. PICK n, K, g, L, h : n = Len(log) /\ K = KeptIn(log) /\ g = Survivors(log)
                             /\ L = KeptIn(w) /\ h = Survivors(w)
    OBVIOUS
  <2>2. Filters(n, K, g, L, h, t)
    BY <1>1, <1>2, <2>1, KeptAppend
  <2>3. Tell(K, g, e)
    BY <2>1 DEF Mid
  <2>4. \A i \in K : ~Hides(t, g[i])
    BY <2>3 DEF Tell, Hides
  <2>5. n + 1 \notin L
    BY <2>2 DEF IsSplice, Filters
  <2>6. L = K
    <3>1. \A i \in 1..(n + 1) : i # n + 1 => i \in 1..n
      BY <2>2 DEF Filters
    <3>2. K \subseteq 1..n /\ L \subseteq 1..(n + 1)
          /\ \A i \in 1..n : (i \in L <=> (i \in K /\ ~Hides(t, g[i])))
      BY <2>2 DEF Filters
    <3> QED BY <2>4, <2>5, <3>1, <3>2
  <2>7. \A i \in K : /\ h[i].t = g[i].t /\ h[i].val = g[i].val
                     /\ h[i].id = IF c <= g[i].id THEN g[i].id + 1 ELSE g[i].id
    BY <2>2, <2>5, <2>6 DEF Filters
  <2>8. Tell(K, h, f)
    BY <1>5, <2>3, <2>7, TellCreate
  <2> QED BY <2>1, <2>6, <2>8
<1>10. Ordered(f)
  <2>1. ASSUME NEW p \in Int, NEW q \in Int, NameOf(f, p) # None, NameOf(f, q) # None, p < q
        PROVE  NameOf(f, p) < NameOf(f, q)
    <3>1. PICK a \in Int : a = IF p < c THEN p ELSE p - 1
      OBVIOUS
    <3>2. PICK b \in Int : b = IF q < c THEN q ELSE q - 1
      OBVIOUS
    <3>3. NameOf(f, p) = NameOf(e, a) /\ p # c
      BY <1>5, <2>1, <3>1 DEF Inserts
    <3>4. NameOf(f, q) = NameOf(e, b) /\ q # c
      BY <1>5, <2>1, <3>2 DEF Inserts
    <3>5. a < b
      BY <2>1, <3>1, <3>2, <3>3, <3>4
    <3> QED BY <2>1, <3>3, <3>4, <3>5 DEF Mid, Ordered
  <2> QED BY <2>1 DEF Ordered
<1>11. ASSUME NEW n \in Names PROVE SearchOk(BestMatch(w, n), f, n, {c})
  <2>1. BestMatch(w, n) = FindStep(n, BestMatch(log, n), t)
    BY <1>1, <1>2, BestAppend
  <2>2. SearchOk(BestMatch(log, n), e, n, {})
    BY DEF Mid
  <2>3. \A q \in 0..Len(e) - 1 : NameOf(e, q) # None
    BY DEF Named
  <2>4. SearchOk(FindStep(n, BestMatch(log, n), t), f, n, {c})
    BY <1>1, <1>5, <2>2, <2>3, SearchCreate
  <2> QED BY <2>1, <2>4
<1> QED BY <1>2, <1>3, <1>4, <1>5, <1>6, <1>7, <1>8, <1>9, <1>10, <1>11 DEF Mid

LEMMA MidDelete ==
    ASSUME NEW log, NEW e, Mid(log, e, {}), Len(e) < NoId,
           NEW t \in Tags, t.t = "DELETE", NEW c \in Nat, c = t.id, c < Len(e),
           NEW f, f = Apply(e, t)
    PROVE  Mid(Append(log, t), f, {}) /\ Removes(e, f, c)
<1>1. log \in Seq(Tags) /\ e \in Seq(Entry) /\ e = Replay(log)
  BY DEF Mid
<1>2. PICK w : w = Append(log, t)
  OBVIOUS
<1>3. w \in Seq(Tags)
  BY <1>1, <1>2, AppendProperties
<1>4. f = Replay(w)
  BY <1>1, <1>2, ReplayAppend
<1>5. Removes(e, f, c)
  <2>1. Len(e) \in Nat
    BY <1>1, LenProperties
  <2>2. PICK d \in 0..Len(e) - 1 : d = c
    BY <2>1
  <2>3. t.id = d
    BY <2>2
  <2>4. Removes(e, Apply(e, t), d)
    BY <1>1, <2>3, DeleteIs
  <2> QED BY <2>2, <2>4
<1>6. f \in Seq(Entry) /\ Len(f) = Len(e) - 1 /\ Len(e) \in Nat
  BY <1>1, <1>5, LenProperties DEF Removes
<1>7. ReadsAre(w, f)
  BY <1>1, <1>2, <1>5, ReadsDelete DEF Mid
<1>8. Count(w) = Len(f)
  <2>1. Count(log) = Len(e)
    BY DEF Mid
  <2>2. Count(w) = CountStep(Count(log), t)
    BY <1>1, <1>2, CountAppend
  <2>3. CountStep(Count(log), t) = Count(log) + (-1)
    BY DEF CountStep, Splice
  <2> QED BY <1>6, <2>1, <2>2, <2>3
<1>9. Tell(KeptIn(w), Survivors(w), f)
  <2>1. PICK n, K, g, L, h : n = Len(log) /\ K = KeptIn(log) /\ g = Survivors(log)
                             /\ L = KeptIn(w) /\ h = Survivors(w)
    OBVIOUS
  <2>2. Filters(n, K, g, L, h, t)
    BY <1>1, <1>2, <2>1, KeptAppend
  <2>3. Tell(K, g, e)
    BY <2>1 DEF Mid
  <2>4. \A i \in K : Hides(t, g[i]) <=> g[i].id = c
    BY DEF Hides
  <2>5. n + 1 \notin L
    BY <2>2 DEF IsSplice, Filters
  <2>6. L = Others(K, g, c)
    <3>1. \A i \in 1..(n + 1) : i # n + 1 => i \in 1..n
      BY <2>2 DEF Filters
    <3>2. K \subseteq 1..n /\ L \subseteq 1..(n + 1)
          /\ \A i \in 1..n : (i \in L <=> (i \in K /\ ~Hides(t, g[i])))
      BY <2>2 DEF Filters
    <3> QED BY <2>4, <2>5, <3>1, <3>2 DEF Others
  <2>7. \A i \in L : /\ h[i].t = g[i].t /\ h[i].val = g[i].val
                     /\ h[i].id = IF c <= g[i].id THEN g[i].id - 1 ELSE g[i].id
    BY <2>2, <2>5 DEF Filters
  <2>8. Tell(L, h, f)
    BY <1>5, <2>3, <2>6, <2>7, TellDelete
  <2> QED BY <2>1, <2>8
<1>10. Ordered(f)
  <2>1. ASSUME NEW p \in Int, NEW q \in Int, NameOf(f, p) # None, NameOf(f, q) # None, p < q
        PROVE  NameOf(f, p) < NameOf(f, q)
    <3>1. PICK a \in Int : a = IF p < c THEN p ELSE p + 1
      OBVIOUS
    <3>2. PICK b \in Int : b = IF q < c THEN q ELSE q + 1
      OBVIOUS
    <3>3. NameOf(f, p) = NameOf(e, a)
      BY <1>5, <3>1 DEF Removes
    <3>4. NameOf(f, q) = NameOf(e, b)
      BY <1>5, <3>2 DEF Removes
    <3>5. a < b
      BY <2>1, <3>1, <3>2
    <3> QED BY <2>1, <3>3, <3>4, <3>5 DEF Mid, Ordered
  <2> QED BY <2>1 DEF Ordered
<1>11. ASSUME NEW n \in Names PROVE SearchOk(BestMatch(w, n), f, n, {})
  <2>1. BestMatch(w, n) = FindStep(n, BestMatch(log, n), t)
    BY <1>1, <1>2, BestAppend
  <2>2. SearchOk(BestMatch(log, n), e, n, {})
    BY DEF Mid
  <2>4. SearchOk(FindStep(n, BestMatch(log, n), t), f, n, {})
    BY <1>1, <1>5, <2>2, SearchDelete
  <2> QED BY <2>1, <2>4
<1> QED BY <1>2, <1>3, <1>4, <1>5, <1>6, <1>7, <1>8, <1>9, <1>10, <1>11 DEF Mid

InOrder(e, c, m) ==
    \A q \in Int : NameOf(e, q) # None => (q < c /\ NameOf(e, q) < m) \/ (q > c /\ NameOf(e, q) > m)

(* What a tag that sets a part of an entry keeps.                          *)
LEMMA KeptSet ==
    ASSUME NEW log \in Seq(Tags), NEW e, Tell(KeptIn(log), Survivors(log), e),
           NEW t \in Tags, t.t \in {"NAME", "STRUCT"}, t.val # None,
           NEW f, Sets(e, f, t.t, t.id, t.val), t.t = "NAME" => StructOf(e, t.id) = None
    PROVE  Tell(KeptIn(Append(log, t)), Survivors(Append(log, t)), f)
<1>1. PICK n, K, g, L, h : n = Len(log) /\ K = KeptIn(log) /\ g = Survivors(log)
                           /\ L = KeptIn(Append(log, t)) /\ h = Survivors(Append(log, t))
  OBVIOUS
<1>2. Filters(n, K, g, L, h, t)
  BY <1>1, KeptAppend
<1>3. Tell(K, g, e)
  BY <1>1
<1>4. PICK k \in Nat : k = n + 1
  BY <1>2 DEF Filters
<1>5. n \in Nat /\ K \subseteq 1..n /\ L \subseteq 1..k
      /\ \A i \in 1..n : (i \in L <=> (i \in K /\ ~Hides(t, g[i])))
  BY <1>2, <1>4 DEF Filters
<1>6. k \in L /\ h[k] = t
  BY <1>2, <1>4 DEF Filters, IsSplice
<1>7. L = Kept(K, g, t.t, t.id, k)
  <2>1. \A i \in 1..k : i # k => i \in 1..n
    BY <1>4, <1>5
  <2>2. k \notin 1..n
    BY <1>4, <1>5
  <2>3. \A i \in K : Hides(t, g[i]) <=> (g[i].t = t.t /\ g[i].id = t.id)
    BY DEF Hides
  <2> QED BY <1>5, <1>6, <2>1, <2>2, <2>3 DEF Kept
<1>8. ASSUME NEW i \in L \ {k} PROVE h[i].t = g[i].t /\ h[i].val = g[i].val /\ h[i].id = g[i].id
  BY <1>2, <1>4, <1>8 DEF Filters
<1>9. ASSUME NEW i \in K PROVE i < k
  <2>1. i \in 1..n
    BY <1>5
  <2> QED BY <1>4, <1>5, <2>1
<1>10. PICK c \in Int : c = t.id
  BY DEF Tags
<1>11. Tell(L, h, f)
  <2>1. L = Kept(K, g, t.t, c, k) /\ Sets(e, f, t.t, c, t.val) /\ (t.t = "NAME" => StructOf(e, c) = None)
    BY <1>7, <1>10
  <2>2. Below(K, k) /\ Alike(L \ {k}, g, h)
    BY <1>8, <1>9 DEF Below, Alike
  <2>3. PICK ty, v : ty = t.t /\ v = t.val /\ h[k].t = ty /\ h[k].val = v /\ h[k].id = c
    BY <1>6, <1>10
  <2>4. ty \in {"NAME", "STRUCT"} /\ v # None /\ L = Kept(K, g, ty, c, k) /\ Sets(e, f, ty, c, v)
        /\ (ty = "NAME" => StructOf(e, c) = None)
    BY <2>1, <2>3
  <2> QED BY <1>3, <1>6, <2>2, <2>3, <2>4, TellSet
<1> QED BY <1>1, <1>11

LEMMA MidName ==
    ASSUME NEW log, NEW e, NEW F \in SUBSET (0..NoId - 1), Mid(log, e, F),
           NEW t \in Tags, t.t = "NAME", NEW m \in Names, m = t.val, NEW c \in F, c = t.id,
           StructOf(e, c) = None, InOrder(e, c, m), NEW f, f = Apply(e, t)
    PROVE  Mid(Append(log, t), f, F \ {c}) /\ Names1(e, f, c, m)
<1>1. log \in Seq(Tags) /\ e \in Seq(Entry) /\ e = Replay(log)
  BY DEF Mid
<1>2. PICK w : w = Append(log, t)
  OBVIOUS
<1>3. w \in Seq(Tags)
  BY <1>1, <1>2, AppendProperties
<1>4. f = Replay(w)
  BY <1>1, <1>2, ReplayAppend
<1>5. c \in Nat /\ m \in Nat /\ m # None
  <2>1. F \subseteq Nat
    <3>1. NoId - 1 \in Int
      BY DEF NoId
    <3> QED BY <3>1
  <2> QED BY <2>1, PairAssumption DEF None
<1>6. Names1(e, f, c, m)
  BY <1>1, <1>5, NameIs
<1>7. PICK l \in Nat : l = Len(e)
  BY <1>1, LenProperties
<1>8. f \in Seq(Entry) /\ Len(f) = IF c < l THEN l ELSE c + 1
  BY <1>6, <1>7 DEF Names1
<1>9. ReadsAre(w, f)
  BY <1>1, <1>2, <1>5, <1>6, ReadsName DEF Mid
<1>10. Count(w) = Len(f)
  <2>1. Count(log) = l
    BY <1>7 DEF Mid
  <2>2. Count(w) = CountStep(l, t)
    BY <1>1, <1>2, <2>1, CountAppend
  <2>3. CountStep(l, t) = IF c >= l THEN c + 1 ELSE l + 0
    BY DEF CountStep, Splice
  <2> QED BY <1>5, <1>7, <1>8, <2>2, <2>3
<1>11. Tell(KeptIn(w), Survivors(w), f)
  <2>1. Tell(KeptIn(log), Survivors(log), e)
    BY DEF Mid
  <2>2. Sets(e, f, t.t, t.id, t.val)
    BY <1>6 DEF Sets, FieldOf, Names1
  <2> QED BY <1>1, <1>2, <1>5, <2>1, <2>2, KeptSet
<1>12. Ordered(f)
  <2>1. ASSUME NEW p \in Int, NEW q \in Int, NameOf(f, p) # None, NameOf(f, q) # None, p < q
        PROVE  NameOf(f, p) < NameOf(f, q)
    <3>1. NameOf(f, p) = (IF p = c THEN m ELSE NameOf(e, p)) /\ NameOf(f, q) = (IF q = c THEN m ELSE NameOf(e, q))
      BY <1>6 DEF Names1
    <3>2. CASE p = c
      <4>1. q # c /\ ~(q < c)
        BY <1>5, <2>1, <3>2
      <4>2. NameOf(f, p) = m /\ NameOf(f, q) = NameOf(e, q)
        BY <3>1, <3>2, <4>1
      <4>3. NameOf(e, q) > m
        BY <2>1, <4>1, <4>2 DEF InOrder
      <4>4. NameOf(e, q) \in Nat
        BY <1>1, EntriesAre
      <4> QED BY <1>5, <4>2, <4>3, <4>4
    <3>3. CASE q = c
      <4>1. p # c /\ ~(p > c)
        BY <1>5, <2>1, <3>3
      <4>2. NameOf(f, q) = m /\ NameOf(f, p) = NameOf(e, p)
        BY <3>1, <3>3, <4>1
      <4> QED BY <2>1, <4>1, <4>2 DEF InOrder
    <3>4. CASE p # c /\ q # c
      BY <2>1, <3>1, <3>4 DEF Mid, Ordered
    <3> QED BY <3>2, <3>3, <3>4
  <2> QED BY <2>1 DEF Ordered
<1>13. ASSUME NEW n \in Names PROVE SearchOk(BestMatch(w, n), f, n, F \ {c})
  <2>1. BestMatch(w, n) = FindStep(n, BestMatch(log, n), t)
    BY <1>1, <1>2, BestAppend
  <2>2. SearchOk(BestMatch(log, n), e, n, F)
    BY DEF Mid
  <2>3. \A q \in Int : NameOf(e, q) # None => (q < c /\ NameOf(e, q) < m) \/ (q > c /\ NameOf(e, q) > m)
    BY DEF InOrder
  <2>4. SearchOk(FindStep(n, BestMatch(log, n), t), f, n, F \ {c})
    BY <1>1, <1>6, <2>2, <2>3, SearchName
  <2> QED BY <2>1, <2>4
<1> QED BY <1>2, <1>3, <1>4, <1>6, <1>8, <1>9, <1>10, <1>11, <1>12, <1>13 DEF Mid

LEMMA MidStruct ==
    ASSUME NEW log, NEW e, NEW F, Mid(log, e, F),
           NEW t \in Tags, t.t = "STRUCT", NEW s \in Structs, s = t.val, NEW c \in Nat, c = t.id, c < Len(e),
           NEW f, f = Apply(e, t)
    PROVE  Mid(Append(log, t), f, F) /\ Fills(e, f, c, s)
<1>1. log \in Seq(Tags) /\ e \in Seq(Entry) /\ e = Replay(log)
  BY DEF Mid
<1>2. PICK w : w = Append(log, t)
  OBVIOUS
<1>3. w \in Seq(Tags)
  BY <1>1, <1>2, AppendProperties
<1>4. f = Replay(w)
  BY <1>1, <1>2, ReplayAppend
<1>5. s # None
  BY PairAssumption
<1>6. Fills(e, f, c, s)
  <2>1. Len(e) \in Nat
    BY <1>1, LenProperties
  <2>2. PICK d \in 0..Len(e) - 1 : d = c
    BY <2>1
  <2>3. t.id = d
    BY <2>2
  <2>4. Fills(e, Apply(e, t), d, s)
    BY <1>1, <2>3, StructIs
  <2> QED BY <2>2, <2>4
<1>7. PICK l \in Nat : l = Len(e)
  BY <1>1, LenProperties
<1>8. f \in Seq(Entry) /\ Len(f) = l
  BY <1>6, <1>7 DEF Fills
<1>9. ReadsAre(w, f)
  BY <1>1, <1>2, <1>6, ReadsStruct DEF Mid
<1>10. Count(w) = Len(f)
  <2>1. Count(log) = l
    BY <1>7 DEF Mid
  <2>2. Count(w) = CountStep(l, t)
    BY <1>1, <1>2, <2>1, CountAppend
  <2>3. CountStep(l, t) = l + 0
    BY DEF CountStep, Splice
  <2> QED BY <1>7, <1>8, <2>2, <2>3
<1>11. Tell(KeptIn(w), Survivors(w), f)
  <2>1. Tell(KeptIn(log), Survivors(log), e)
    BY DEF Mid
  <2>2. Sets(e, f, t.t, t.id, t.val)
    BY <1>6 DEF Sets, FieldOf, Fills
  <2> QED BY <1>1, <1>2, <1>5, <2>1, <2>2, KeptSet
<1>12. Ordered(f)
  BY <1>6 DEF Mid, Ordered, Fills
<1>13. ASSUME NEW n \in Names PROVE SearchOk(BestMatch(w, n), f, n, F)
  <2>1. BestMatch(w, n) = FindStep(n, BestMatch(log, n), t)
    BY <1>1, <1>2, BestAppend
  <2>2. SearchOk(BestMatch(log, n), e, n, F)
    BY DEF Mid
  <2>4. SearchOk(FindStep(n, BestMatch(log, n), t), f, n, F)
    BY <1>1, <1>6, <2>2, SearchStruct
  <2> QED BY <2>1, <2>4
<1> QED BY <1>2, <1>3, <1>4, <1>6, <1>8, <1>9, <1>10, <1>11, <1>12, <1>13 DEF Mid

Complete(e) == \A q \in 0..Len(e) - 1 : NameOf(e, q) # None /\ StructOf(e, q) # None

(* The log of a directory at rest.                                         *)
Sound(log, e) == Mid(log, e, {}) /\ Complete(e)

LEMMA EntriesEqual ==
    ASSUME NEW e \in Seq(Entry), NEW f \in Seq(Entry), Len(e) = Len(f),
           \A ty \in {"NAME", "STRUCT"} : \A q \in Int : FieldOf(f, ty, q) = FieldOf(e, ty, q)
    PROVE  f = e
<1>1. PICK n \in Nat : n = Len(e) /\ n = Len(f)
  BY LenProperties
<1>2. ASSUME NEW i \in 1..n PROVE f[i] = e[i]
  <2>1. PICK q \in 0..n - 1 : i = q + 1
    <3>1. i - 1 \in 0..n - 1 /\ i = (i - 1) + 1
      BY <1>2
    <3> QED BY <3>1
  <2>2. FieldOf(f, "NAME", q) = FieldOf(e, "NAME", q) /\ FieldOf(f, "STRUCT", q) = FieldOf(e, "STRUCT", q)
    BY <2>1
  <2>3. f[i].name = e[i].name /\ f[i].struct = e[i].struct
    BY <1>1, <2>1, <2>2 DEF FieldOf, NameOf, StructOf
  <2>4. f[i] \in Entry /\ e[i] \in Entry
    BY <1>1, LenProperties
  <2> QED BY <2>3, <2>4 DEF Entry
<1> QED BY <1>1, <1>2, SeqEqual

(* The tags of a log without splices, each of which tells its own part of  *)
(* the entries e, names before structs, and those up to the k-th.          *)
Told(w, e, k, f) ==
    /\ \A ty \in {"NAME", "STRUCT"} : \A q \in Int :
        /\ (\E j \in 1..k : w[j].t = ty /\ w[j].id = q) => FieldOf(f, ty, q) = FieldOf(e, ty, q)
        /\ ~(\E j \in 1..k : w[j].t = ty /\ w[j].id = q) => FieldOf(f, ty, q) = None
    /\ Len(f) <= Len(e)

Free(f) == {q \in 0..NoId - 1 : NameOf(f, q) = None}

LEMMA ToldName ==
    ASSUME NEW w \in Seq(Tags), NEW e \in Seq(Entry), Tell(1..Len(w), w, e), Ordered(e), Len(e) < NoId,
           NEW k \in 1..Len(w), w[k].t = "NAME",
           NEW log, NEW f, Mid(log, f, Free(f)), Told(w, e, k - 1, f)
    PROVE  LET g == Apply(f, w[k]) IN Mid(Append(log, w[k]), g, Free(g)) /\ Told(w, e, k, g)
<1>1. PICK t \in Tags : t = w[k]
  BY ElementOfSeq
<1>2. PICK c \in Int : c = t.id
  BY DEF Tags
<1>3. PICK n : n = Len(w) /\ n \in Nat
  BY LenProperties
<1>4. k \in 1..n /\ k - 1 \in Nat /\ k \in Nat
  BY <1>3
<1>5. PICK m : m = t.val /\ m # None /\ NameOf(e, c) = m
  <2>1. w[k].val # None /\ FieldOf(e, w[k].t, w[k].id) = w[k].val
    BY DEF Tell
  <2> QED BY <1>1, <1>2, <2>1 DEF FieldOf
<1>6. m \in Names /\ c \in 0..Len(e) - 1 /\ Len(e) \in Nat /\ m \in Nat
  BY <1>2, <1>5, EntriesAre
<1>7. PICK g : g = Apply(f, t)
  OBVIOUS
<1>8. \A j \in 1..k - 1 : ~(w[j].t = "NAME" /\ w[j].id = c)
  <2>1. ASSUME NEW j \in 1..k - 1, w[j].t = "NAME", w[j].id = c PROVE FALSE
    <3>1. j \in 1..n /\ j # k
      BY <1>3, <1>4, <2>1
    <3> QED BY <1>1, <1>2, <1>3, <1>4, <2>1, <3>1 DEF Tell
  <2> QED BY <2>1
<1>9. \A j \in 1..k - 1 : ~(w[j].t = "STRUCT" /\ w[j].id = c)
  <2>1. ASSUME NEW j \in 1..k - 1, w[j].t = "STRUCT", w[j].id = c PROVE FALSE
    <3>1. j \in 1..n /\ ~(k < j)
      BY <1>3, <1>4, <2>1
    <3> QED BY <1>1, <1>2, <1>3, <1>4, <2>1, <3>1 DEF Tell
  <2> QED BY <2>1
<1>10. NameOf(f, c) = None /\ StructOf(f, c) = None
  <2>1. FieldOf(f, "NAME", c) = None
    BY <1>2, <1>8 DEF Told
  <2>2. FieldOf(f, "STRUCT", c) = None
    BY <1>2, <1>9 DEF Told
  <2> QED BY <2>1, <2>2 DEF FieldOf
<1>11. \A q \in Int : NameOf(f, q) # None => NameOf(f, q) = NameOf(e, q)
  <2>1. ASSUME NEW q \in Int, NameOf(f, q) # None PROVE NameOf(f, q) = NameOf(e, q)
    <3>1. FieldOf(f, "NAME", q) # None
      BY <2>1 DEF FieldOf
    <3>2. FieldOf(f, "NAME", q) = FieldOf(e, "NAME", q)
      BY <3>1 DEF Told
    <3> QED BY <3>2 DEF FieldOf
  <2> QED BY <2>1
<1>12. InOrder(f, c, m)
  <2>1. ASSUME NEW q \in Int, NameOf(f, q) # None
        PROVE  (q < c /\ NameOf(f, q) < m) \/ (q > c /\ NameOf(f, q) > m)
    <3>1. q # c
      BY <1>10, <2>1
    <3>2. NameOf(e, q) # None /\ NameOf(f, q) = NameOf(e, q)
      BY <1>11, <2>1
    <3>3. NameOf(e, q) \in Nat
      BY EntriesAre
    <3>4. q < c => NameOf(e, q) < m
      BY <1>2, <1>5, <3>2 DEF Ordered
    <3>5. c < q => m < NameOf(e, q)
      BY <1>2, <1>5, <3>2 DEF Ordered
    <3> QED BY <1>2, <1>6, <3>1, <3>2, <3>3, <3>4, <3>5
  <2> QED BY <2>1 DEF InOrder
<1>13. c \in Free(f) /\ Free(f) \in SUBSET (0..NoId - 1)
  <2>1. c \in 0..NoId - 1
    BY <1>6 DEF NoId
  <2> QED BY <1>10, <2>1 DEF Free
<1>14. Mid(Append(log, t), g, Free(f) \ {c}) /\ Names1(f, g, c, m)
  BY <1>1, <1>2, <1>5, <1>6, <1>7, <1>10, <1>12, <1>13, MidName
<1>15. \A q \in Int : /\ NameOf(g, q) = IF q = c THEN m ELSE NameOf(f, q)
                      /\ StructOf(g, q) = StructOf(f, q)
  BY <1>14 DEF Names1
<1>16. Free(g) = Free(f) \ {c}
  <2>1. \A q \in 0..NoId - 1 : q \in Int
    OBVIOUS
  <2> QED BY <1>5, <1>15, <2>1 DEF Free
<1>17. Len(g) <= Len(e)
  <2>1. Len(f) <= Len(e)
    BY DEF Told
  <2>2. Len(g) = IF c < Len(f) THEN Len(f) ELSE c + 1
    BY <1>14 DEF Names1
  <2>3. Len(f) \in Nat
    BY LenProperties DEF Mid
  <2> QED BY <1>6, <2>1, <2>2, <2>3
<1>18. ASSUME NEW ty \in {"NAME", "STRUCT"}, NEW q \in Int
       PROVE  /\ (\E j \in 1..k : w[j].t = ty /\ w[j].id = q) => FieldOf(g, ty, q) = FieldOf(e, ty, q)
              /\ ~(\E j \in 1..k : w[j].t = ty /\ w[j].id = q) => FieldOf(g, ty, q) = None
  <2>1. CASE ty = "NAME" /\ q = c
    <3>1. \E j \in 1..k : w[j].t = ty /\ w[j].id = q
      BY <1>1, <1>2, <1>4, <2>1
    <3>2. FieldOf(g, ty, q) = FieldOf(e, ty, q)
      BY <1>5, <1>15, <2>1 DEF FieldOf
    <3> QED BY <3>1, <3>2
  <2>2. CASE ~(ty = "NAME" /\ q = c)
    <3>1. (\E j \in 1..k : w[j].t = ty /\ w[j].id = q) <=> (\E j \in 1..k - 1 : w[j].t = ty /\ w[j].id = q)
      <4>1. \A j \in 1..k : j = k \/ j \in 1..k - 1
        BY <1>4
      <4>2. \A j \in 1..k - 1 : j \in 1..k
        BY <1>4
      <4>3. ~(w[k].t = ty /\ w[k].id = q)
        BY <1>1, <1>2, <2>2
      <4> QED BY <4>1, <4>2, <4>3
    <3>2. FieldOf(g, ty, q) = FieldOf(f, ty, q)
      BY <1>15, <2>2 DEF FieldOf
    <3> QED BY <3>1, <3>2 DEF Told
  <2> QED BY <2>1, <2>2
<1> QED BY <1>1, <1>7, <1>14, <1>16, <1>17, <1>18 DEF Told

LEMMA ToldStruct ==
    ASSUME NEW w \in Seq(Tags), NEW e \in Seq(Entry), Tell(1..Len(w), w, e), Complete(e),
           NEW k \in 1..Len(w), w[k].t = "STRUCT",
           NEW log, NEW f, Mid(log, f, Free(f)), Told(w, e, k - 1, f)
    PROVE  LET g == Apply(f, w[k]) IN Mid(Append(log, w[k]), g, Free(g)) /\ Told(w, e, k, g)
<1>1. PICK t \in Tags : t = w[k]
  BY ElementOfSeq
<1>2. PICK c \in Int : c = t.id
  BY DEF Tags
<1>3. PICK n : n = Len(w) /\ n \in Nat
  BY LenProperties
<1>4. k \in 1..n /\ k - 1 \in Nat /\ k \in Nat
  BY <1>3
<1>5. PICK s : s = t.val /\ s # None /\ StructOf(e, c) = s
  <2>1. w[k].val # None /\ FieldOf(e, w[k].t, w[k].id) = w[k].val
    BY DEF Tell
  <2> QED BY <1>1, <1>2, <2>1 DEF FieldOf
<1>6. s \in Structs /\ c \in 0..Len(e) - 1
  BY <1>2, <1>5, EntriesAre
<1>7. PICK g : g = Apply(f, t)
  OBVIOUS
<1>8. NameOf(f, c) # None
  <2>1. FieldOf(e, "NAME", c) # None
    BY <1>6 DEF FieldOf, Complete
  <2>2. PICK i \in 1..n : w[i].t = "NAME" /\ w[i].id = c
    BY <1>2, <1>3, <2>1 DEF Tell
  <2>3. i < k
    BY <1>1, <1>2, <1>3, <1>4, <2>2 DEF Tell
  <2>4. i \in 1..k - 1
    BY <1>4, <2>3
  <2>5. FieldOf(f, "NAME", c) = FieldOf(e, "NAME", c)
    BY <1>2, <2>2, <2>4 DEF Told
  <2> QED BY <2>1, <2>5 DEF FieldOf
<1>9. c \in Nat /\ c < Len(f) /\ Len(f) \in Nat
  <2>1. f \in Seq(Entry)
    BY DEF Mid
  <2>2. c \in 0..Len(f) - 1 /\ Len(f) \in Nat
    BY <1>2, <1>8, <2>1, EntriesAre
  <2> QED BY <2>2
<1>14. Mid(Append(log, t), g, Free(f)) /\ Fills(f, g, c, s)
  BY <1>1, <1>2, <1>5, <1>6, <1>7, <1>9, MidStruct
<1>15. \A q \in Int : /\ NameOf(g, q) = NameOf(f, q)
                      /\ StructOf(g, q) = IF q = c THEN s ELSE StructOf(f, q)
  BY <1>14 DEF Fills
<1>16. Free(g) = Free(f)
  <2>1. \A q \in 0..NoId - 1 : q \in Int
    OBVIOUS
  <2> QED BY <1>15, <2>1 DEF Free
<1>17. Len(g) <= Len(e)
  <2>1. Len(f) <= Len(e)
    BY DEF Told
  <2>2. Len(g) = Len(f)
    BY <1>14 DEF Fills
  <2> QED BY <2>1, <2>2
<1>18. ASSUME NEW ty \in {"NAME", "STRUCT"}, NEW q \in Int
       PROVE  /\ (\E j \in 1..k : w[j].t = ty /\ w[j].id = q) => FieldOf(g, ty, q) = FieldOf(e, ty, q)
              /\ ~(\E j \in 1..k : w[j].t = ty /\ w[j].id = q) => FieldOf(g, ty, q) = None
  <2>1. CASE ty = "STRUCT" /\ q = c
    <3>1. \E j \in 1..k : w[j].t = ty /\ w[j].id = q
      BY <1>1, <1>2, <1>4, <2>1
    <3>2. FieldOf(g, ty, q) = FieldOf(e, ty, q)
      BY <1>5, <1>15, <2>1 DEF FieldOf
    <3> QED BY <3>1, <3>2
  <2>2. CASE ~(ty = "STRUCT" /\ q = c)
    <3>1. (\E j \in 1..k : w[j].t = ty /\ w[j].id = q) <=> (\E j \in 1..k - 1 : w[j].t = ty /\ w[j].id = q)
      <4>1. \A j \in 1..k : j = k \/ j \in 1..k - 1
        BY <1>4
      <4>2. \A j \in 1..k - 1 : j \in 1..k
        BY <1>4
      <4>3. ~(w[k].t = ty /\ w[k].id = q)
        BY <1>1, <1>2, <2>2
      <4> QED BY <4>1, <4>2, <4>3
    <3>2. FieldOf(g, ty, q) = FieldOf(f, ty, q)
      BY <1>15, <2>2 DEF FieldOf
    <3> QED BY <3>1, <3>2 DEF Told
  <2> QED BY <2>1, <2>2
<1> QED BY <1>1, <1>7, <1>14, <1>16, <1>17, <1>18 DEF Told

(* A log in which each part of each entry is written once, a name before   *)
(* its struct, stands for the entries.                                     *)
LEMMA ToldIsSound ==
    ASSUME NEW w \in Seq(Tags), NEW e \in Seq(Entry), Tell(1..Len(w), w, e), Ordered(e), Complete(e),
           Len(e) < NoId
    PROVE  Sound(w, e)
<1>1. PICK n \in Nat : n = Len(w) /\ \A i \in 1..n : w[i] \in Tags
  BY LenProperties
<1>2. PICK S : S = {k \in 0..n : \E f : Mid(SubSeq(w, 1, k), f, Free(f)) /\ Told(w, e, k, f)}
  OBVIOUS
<1>3. 0 \in S
  <2>1. PICK l : l = <<>>
    OBVIOUS
  <2>2. SubSeq(w, 1, 0) = l
    BY <2>1, SubSeqEmpty
  <2>3. Free(l) \in SUBSET (0..NoId - 1)
    BY DEF Free
  <2>4. Mid(l, l, Free(l))
    BY <2>1, <2>3, MidEmpty
  <2>5. Told(w, e, 0, l)
    <3>1. Len(l) = 0 /\ Len(e) \in Nat
      BY <2>1, LenProperties
    <3>2. \A q \in Int : NameOf(l, q) = None /\ StructOf(l, q) = None
      BY <3>1 DEF NameOf, StructOf
    <3> QED BY <3>1, <3>2 DEF Told, FieldOf
  <2>6. 0 \in 0..n
    BY <1>1
  <2> QED BY <1>2, <2>2, <2>4, <2>5, <2>6
<1>4. ASSUME NEW i \in 1..n, i - 1 \in S PROVE i \in S
  <2>1. PICK u, v : u = SubSeq(w, 1, i - 1) /\ v = SubSeq(w, 1, i)
    OBVIOUS
  <2>2. /\ u \in Seq(Tags) /\ Len(u) = i - 1 /\ \A j \in 1..i - 1 : u[j] = w[j]
        /\ v \in Seq(Tags) /\ Len(v) = i /\ \A j \in 1..i : v[j] = w[j]
    BY <1>1, <2>1
  <2>3. PICK x : x = Append(u, w[i])
    OBVIOUS
  <2>4. w[i] \in Tags
    BY <1>1
  <2>5. x \in Seq(Tags) /\ Len(x) = Len(u) + 1 /\ (\A j \in 1..Len(u) : x[j] = u[j])
        /\ x[Len(u) + 1] = w[i]
    BY <2>2, <2>3, <2>4, AppendProperties
  <2>6. Len(x) = i /\ \A j \in 1..i : x[j] = v[j]
    <3>1. Len(u) = i - 1 /\ Len(x) = i /\ x[i] = w[i]
      BY <2>2, <2>5
    <3>2. ASSUME NEW j \in 1..i PROVE x[j] = v[j]
      <4>1. CASE j = i
        BY <2>2, <3>1, <4>1
      <4>2. CASE j # i
        <5>1. j \in 1..i - 1
          BY <4>2
        <5> QED BY <2>2, <2>5, <3>1, <5>1
      <4> QED BY <4>1, <4>2
    <3> QED BY <3>1, <3>2
  <2>7. x = v
    BY <2>2, <2>5, <2>6, SeqEqual
  <2>8. PICK f : Mid(u, f, Free(f)) /\ Told(w, e, i - 1, f)
    BY <1>2, <1>4, <2>1
  <2>9. i \in 1..Len(w)
    BY <1>1
  <2>10. PICK g : g = Apply(f, w[i])
    OBVIOUS
  <2>11. w[i].t \in {"NAME", "STRUCT"}
    BY <2>9 DEF Tell
  <2>12. Mid(x, g, Free(g)) /\ Told(w, e, i, g)
    <3>1. CASE w[i].t = "NAME"
      BY <2>3, <2>8, <2>9, <2>10, <3>1, ToldName
    <3>2. CASE w[i].t = "STRUCT"
      BY <2>3, <2>8, <2>9, <2>10, <3>2, ToldStruct
    <3> QED BY <2>11, <3>1, <3>2
  <2> QED BY <1>2, <2>1, <2>7, <2>12
<1>5. \A i \in 0..n : i \in S
  BY <1>1, <1>3, <1>4, UpTo
<1>6. SubSeq(w, 1, n) = w
  <2>1. PICK v : v = SubSeq(w, 1, n)
    OBVIOUS
  <2>2. v \in Seq(Tags) /\ Len(v) = n /\ \A j \in 1..n : v[j] = w[j]
    BY <1>1, <2>1
  <2> QED BY <1>1, <2>1, <2>2, SeqEqual
<1>7. PICK f : Mid(w, f, Free(f)) /\ Told(w, e, n, f)
  <2>1. n \in 0..n
    BY <1>1
  <2>2. n \in S
    BY <1>5, <2>1
  <2> QED BY <1>2, <1>6, <2>2
<1>8. f \in Seq(Entry)
  BY <1>7 DEF Mid
<1>9. ASSUME NEW ty \in {"NAME", "STRUCT"}, NEW q \in Int PROVE FieldOf(f, ty, q) = FieldOf(e, ty, q)
  <2>1. CASE FieldOf(e, ty, q) # None
    <3>1. \E j \in 1..n : w[j].t = ty /\ w[j].id = q
      BY <1>1, <2>1 DEF Tell
    <3> QED BY <1>7, <3>1 DEF Told
  <2>2. CASE FieldOf(e, ty, q) = None
    BY <1>7, <2>2 DEF Told
  <2> QED BY <2>1, <2>2
<1>10. Len(f) = Len(e)
  <2>1. Len(f) \in Nat /\ Len(e) \in Nat /\ Len(f) <= Len(e)
    BY <1>7, <1>8, LenProperties DEF Told
  <2>2. CASE Len(e) = 0
    BY <2>1, <2>2
  <2>3. CASE Len(e) # 0
    <3>1. PICK q \in Int : q = Len(e) - 1 /\ q \in 0..Len(e) - 1
      BY <2>1, <2>3
    <3>2. NameOf(e, q) # None
      BY <3>1 DEF Complete
    <3>3. NameOf(f, q) # None
      BY <1>9, <3>1, <3>2 DEF FieldOf
    <3>4. q \in 0..Len(f) - 1
      BY <1>8, <3>3, EntriesAre
    <3> QED BY <2>1, <3>1, <3>4
  <2> QED BY <2>2, <2>3
<1>11. f = e
  BY <1>8, <1>9, <1>10, EntriesEqual
<1>12. ASSUME NEW n1 \in Names PROVE SearchOk(BestMatch(w, n1), e, n1, {})
  <2>1. SearchOk(BestMatch(w, n1), e, n1, Free(e))
    BY <1>7, <1>11 DEF Mid
  <2> QED BY <2>1 DEF SearchOk
<1>13. Mid(w, e, {})
  BY <1>7, <1>11, <1>12 DEF Mid
<1> QED BY <1>13 DEF Sound

(* A compaction tells what the log told.                                   *)
LEMMA CompactedTells ==
    ASSUME NEW log, NEW e, NEW F, Mid(log, e, F), NEW w, w = Compacted(log)
    PROVE  w \in Seq(Tags) /\ Tell(1..Len(w), w, e)
<1>1. log \in Seq(Tags) /\ Tell(KeptIn(log), Survivors(log), e)
  BY DEF Mid
<1>2. PICK pos : Compacts(pos, w, log)
  BY <1>1, CompactedHas
<1>3. w \in Seq(Tags)
  BY <1>2 DEF Compacts
<1>4. PICK m \in Nat : m = Len(log)
  BY <1>1, LenProperties
<1>5. PICK n \in Nat : n = Len(w)
  BY <1>3, LenProperties
<1>6. PICK K, g : K = KeptIn(log) /\ g = Survivors(log)
  OBVIOUS
<1>7. ASSUME NEW k \in 1..n PROVE pos[k] \in K /\ w[k] = g[pos[k]]
  <2>1. pos[k] \in 1..m /\ IsKept(log, pos[k]) /\ w[k] = Fate(log, pos[k]).tag
    BY <1>2, <1>4, <1>5 DEF Compacts
  <2> QED BY <1>4, <1>6, <2>1 DEF KeptIn, Survivors
<1>8. ASSUME NEW i \in K PROVE \E k \in 1..n : pos[k] = i
  <2>1. i \in 1..m /\ IsKept(log, i)
    BY <1>4, <1>6 DEF KeptIn
  <2> QED BY <1>2, <1>4, <1>5, <2>1 DEF Compacts
<1>9. ASSUME NEW k \in 1..n, NEW l \in 1..n, k < l PROVE pos[k] < pos[l]
  BY <1>2, <1>5, <1>9 DEF Compacts
<1>10. ASSUME NEW k \in 1..n, NEW l \in 1..n, pos[k] = pos[l] PROVE k = l
  <2>1. pos[k] \in Int /\ pos[l] \in Int
    BY <1>2, <1>4, <1>5 DEF Compacts
  <2>2. ~(k < l) /\ ~(l < k)
    BY <1>9, <1>10, <2>1
  <2> QED BY <2>2
<1>11. ASSUME NEW k \in 1..n, NEW l \in 1..n, pos[k] < pos[l] PROVE k < l
  <2>1. pos[k] \in Int /\ pos[l] \in Int
    BY <1>2, <1>4, <1>5 DEF Compacts
  <2>2. ~(l < k) /\ k # l
    BY <1>9, <1>11, <2>1
  <2> QED BY <2>2
<1>12. Tell(K, g, e)
  BY <1>1, <1>6
<1>13. ASSUME NEW k \in 1..n
       PROVE  /\ w[k].t \in {"NAME", "STRUCT"} /\ w[k].id \in Int
              /\ w[k].val # None /\ FieldOf(e, w[k].t, w[k].id) = w[k].val
  BY <1>7, <1>12 DEF Tell
<1>14. ASSUME NEW ty \in {"NAME", "STRUCT"}, NEW q \in Int, FieldOf(e, ty, q) # None
       PROVE  \E k \in 1..n : w[k].t = ty /\ w[k].id = q
  <2>1. PICK i \in K : g[i].t = ty /\ g[i].id = q
    BY <1>12, <1>14 DEF Tell
  <2>2. PICK k \in 1..n : pos[k] = i
    BY <1>8
  <2> QED BY <1>7, <2>1, <2>2
<1>15. ASSUME NEW k \in 1..n, NEW l \in 1..n, w[k].t = w[l].t, w[k].id = w[l].id PROVE k = l
  <2>1. pos[k] \in K /\ pos[l] \in K /\ g[pos[k]].t = g[pos[l]].t /\ g[pos[k]].id = g[pos[l]].id
    BY <1>7, <1>15
  <2>2. \A i, j \in K : g[i].t = g[j].t /\ g[i].id = g[j].id => i = j
    BY <1>12 DEF Tell
  <2>3. pos[k] = pos[l]
    BY <2>1, <2>2
  <2> QED BY <1>10, <2>3
<1>16. ASSUME NEW k \in 1..n, NEW l \in 1..n, w[k].t = "NAME", w[l].t = "STRUCT", w[k].id = w[l].id
       PROVE  k < l
  <2>1. /\ pos[k] \in K /\ pos[l] \in K /\ g[pos[k]].id = g[pos[l]].id
        /\ g[pos[k]].t = "NAME" /\ g[pos[l]].t = "STRUCT"
    BY <1>7, <1>16
  <2>2. pos[k] < pos[l]
    BY <1>12, <2>1 DEF Tell
  <2> QED BY <1>11, <2>2
<1>17. 1..n \subseteq Nat
  OBVIOUS
<1> QED BY <1>3, <1>5, <1>13, <1>14, <1>15, <1>16, <1>17 DEF Tell

LEMMA CompactedIsSound ==
    ASSUME NEW log, NEW e, Sound(log, e), Len(e) < NoId
    PROVE  Sound(Compacted(log), e)
<1>1. Mid(log, e, {}) /\ Complete(e)
  BY DEF Sound
<1>2. e \in Seq(Entry) /\ Ordered(e)
  BY <1>1 DEF Mid
<1>3. PICK w : w = Compacted(log)
  OBVIOUS
<1>4. w \in Seq(Tags) /\ Tell(1..Len(w), w, e)
  BY <1>1, <1>3, CompactedTells
<1> QED BY <1>1, <1>2, <1>3, <1>4, ToldIsSound

(***************************************************************************)
(* The directories a volume begins with.                                   *)
(***************************************************************************)
LEMMA ListingIsSound ==
    ASSUME NEW l \in Listings, Len(l) < NoId
    PROVE  LogOf(l) \in Seq(Tags) /\ l \in Seq(Entry) /\ Sound(LogOf(l), l)
<1>1. PICK k \in Nat : l \in [1..k -> [name : Names, struct : Structs]]
  BY DEF Listings
<1>2. \A i, j \in DOMAIN l : i < j => l[i].name < l[j].name
  BY DEF Listings
<1>3. l \in Seq(Entry) /\ Len(l) = k /\ DOMAIN l = 1..k
      /\ \A i \in 1..k : l[i].name \in Names /\ l[i].struct \in Structs
  <2>1. l \in [1..k -> Entry]
    BY <1>1 DEF Entry
  <2>2. l \in Seq(Entry) /\ Len(l) = k /\ DOMAIN l = 1..k
    BY <1>1, <2>1
  <2> QED BY <1>1, <2>2
<1>4. PICK a, b, w : /\ a = [i \in 1..k |-> Tag("NAME", i - 1, l[i].name)]
                     /\ b = [i \in 1..k |-> Tag("STRUCT", i - 1, l[i].struct)]
                     /\ w = a \o b
  OBVIOUS
<1>5. w = LogOf(l)
  BY <1>3, <1>4 DEF LogOf
<1>6. a \in Seq(Tags) /\ Len(a) = k /\ b \in Seq(Tags) /\ Len(b) = k
  <2>1. \A i \in 1..k : Tag("NAME", i - 1, l[i].name) \in Tags /\ Tag("STRUCT", i - 1, l[i].struct) \in Tags
    BY <1>3, TagIs
  <2>2. a \in [1..k -> Tags] /\ b \in [1..k -> Tags]
    BY <1>4, <2>1
  <2> QED BY <1>1, <2>2
<1>7. w \in Seq(Tags) /\ Len(w) = k + k
      /\ \A j \in 1..(k + k) : w[j] = IF j <= k THEN a[j] ELSE b[j - k]
  BY <1>4, <1>6, ConcatProperties
<1>8. ASSUME NEW j \in 1..k
      PROVE  w[j].t = "NAME" /\ w[j].id = j - 1 /\ w[j].val = l[j].name
  <2>1. w[j] = a[j]
    BY <1>1, <1>7
  <2> QED BY <1>4, <2>1 DEF Tag
<1>9. ASSUME NEW j \in (k + 1)..(k + k)
      PROVE  w[j].t = "STRUCT" /\ w[j].id = (j - k) - 1 /\ w[j].val = l[j - k].struct /\ j - k \in 1..k
  <2>1. j \in 1..(k + k) /\ ~(j <= k) /\ j - k \in 1..k
    BY <1>1
  <2>2. w[j] = b[j - k]
    BY <1>7, <2>1
  <2> QED BY <1>4, <2>1, <2>2 DEF Tag
<1>10. \A j \in 1..(k + k) : j \in 1..k \/ j \in (k + 1)..(k + k)
  BY <1>1
<1>11. ASSUME NEW q \in 0..k - 1 PROVE NameOf(l, q) = l[q + 1].name /\ StructOf(l, q) = l[q + 1].struct
  BY <1>3 DEF NameOf, StructOf
<1>12. \A n \in Names : n # None /\ n \in Nat
  BY PairAssumption DEF None
<1>13. \A s \in Structs : s # None
  BY PairAssumption
<1>14. Complete(l)
  <2>1. ASSUME NEW q \in 0..k - 1 PROVE NameOf(l, q) # None /\ StructOf(l, q) # None
    <3>1. q + 1 \in 1..k
      BY <1>1
    <3> QED BY <1>3, <1>11, <1>12, <1>13, <3>1
  <2> QED BY <1>3, <2>1 DEF Complete
<1>15. Ordered(l)
  <2>1. ASSUME NEW p \in Int, NEW q \in Int, NameOf(l, p) # None, NameOf(l, q) # None, p < q
        PROVE  NameOf(l, p) < NameOf(l, q)
    <3>1. p \in 0..k - 1 /\ q \in 0..k - 1
      BY <1>3, <2>1, EntriesAre
    <3>2. p + 1 \in 1..k /\ q + 1 \in 1..k /\ p + 1 < q + 1
      BY <1>1, <2>1, <3>1
    <3>3. l[p + 1].name < l[q + 1].name
      BY <1>2, <1>3, <3>2
    <3> QED BY <1>11, <3>1, <3>3
  <2> QED BY <2>1 DEF Ordered
<1>16. ASSUME NEW j \in 1..(k + k)
       PROVE  /\ w[j].t \in {"NAME", "STRUCT"} /\ w[j].id \in Int
              /\ w[j].val # None /\ FieldOf(l, w[j].t, w[j].id) = w[j].val
  <2>1. CASE j \in 1..k
    <3>1. j - 1 \in 0..k - 1 /\ (j - 1) + 1 = j /\ j - 1 \in Int
      BY <1>1, <2>1
    <3>2. NameOf(l, j - 1) = l[j].name
      BY <1>11, <3>1
    <3>3. l[j].name # None
      BY <1>3, <1>12, <2>1
    <3> QED BY <1>8, <2>1, <3>1, <3>2, <3>3 DEF FieldOf
  <2>2. CASE j \in (k + 1)..(k + k)
    <3>1. (j - k) - 1 \in 0..k - 1 /\ ((j - k) - 1) + 1 = j - k /\ (j - k) - 1 \in Int /\ j - k \in 1..k
      BY <1>1, <2>2
    <3>2. StructOf(l, (j - k) - 1) = l[j - k].struct
      BY <1>11, <3>1
    <3>3. l[j - k].struct # None
      BY <1>3, <1>13, <3>1
    <3> QED BY <1>9, <2>2, <3>1, <3>2, <3>3 DEF FieldOf
  <2> QED BY <1>10, <2>1, <2>2
<1>17. ASSUME NEW ty \in {"NAME", "STRUCT"}, NEW q \in Int, FieldOf(l, ty, q) # None
       PROVE  \E j \in 1..(k + k) : w[j].t = ty /\ w[j].id = q
  <2>1. q \in 0..k - 1
    BY <1>3, <1>17, EntriesAre DEF FieldOf
  <2>2. CASE ty = "NAME"
    <3>1. q + 1 \in 1..k /\ (q + 1) - 1 = q /\ q + 1 \in 1..(k + k)
      BY <1>1, <2>1
    <3>2. w[q + 1].t = ty /\ w[q + 1].id = q
      BY <1>8, <2>2, <3>1
    <3> QED BY <3>1, <3>2
  <2>3. CASE ty = "STRUCT"
    <3>1. PICK j \in Int : j = k + q + 1
      BY <1>1
    <3>2. j \in (k + 1)..(k + k) /\ (j - k) - 1 = q /\ j \in 1..(k + k)
      BY <1>1, <2>1, <3>1
    <3>3. w[j].t = ty /\ w[j].id = q
      BY <1>9, <2>3, <3>2
    <3> QED BY <3>2, <3>3
  <2> QED BY <2>2, <2>3
<1>18. ASSUME NEW i \in 1..(k + k), NEW j \in 1..(k + k)
       PROVE  /\ w[i].t = w[j].t /\ w[i].id = w[j].id => i = j
              /\ w[i].t = "NAME" /\ w[j].t = "STRUCT" => i < j
  <2>1. CASE i \in 1..k /\ j \in 1..k
    <3>1. w[i].id = i - 1 /\ w[j].id = j - 1 /\ w[j].t = "NAME"
      BY <1>8, <2>1
    <3> QED BY <2>1, <3>1
  <2>2. CASE i \in 1..k /\ j \in (k + 1)..(k + k)
    <3>1. w[i].t = "NAME" /\ w[j].t = "STRUCT"
      BY <1>8, <1>9, <2>2
    <3>2. i < j
      BY <1>1, <2>2
    <3> QED BY <3>1, <3>2
  <2>3. CASE i \in (k + 1)..(k + k) /\ j \in 1..k
    <3>1. w[j].t = "NAME" /\ w[i].t = "STRUCT"
      BY <1>8, <1>9, <2>3
    <3> QED BY <3>1
  <2>4. CASE i \in (k + 1)..(k + k) /\ j \in (k + 1)..(k + k)
    <3>1. w[i].id = (i - k) - 1 /\ w[j].id = (j - k) - 1 /\ w[i].t = "STRUCT"
      BY <1>9, <2>4
    <3> QED BY <1>1, <2>4, <3>1
  <2> QED BY <1>10, <2>1, <2>2, <2>3, <2>4
<1>19. Tell(1..Len(w), w, l)
  <2>1. 1..(k + k) \subseteq Nat
    OBVIOUS
  <2> QED BY <1>7, <1>16, <1>17, <1>18, <2>1 DEF Tell
<1>20. Sound(w, l)
  BY <1>3, <1>7, <1>14, <1>15, <1>19, ToldIsSound
<1> QED BY <1>3, <1>5, <1>7, <1>20

LEMMA EmptyIsSound == Sound(<<>>, <<>>)
<1>1. PICK l : l = <<>>
  OBVIOUS
<1>2. Mid(l, l, {})
  BY <1>1, MidEmpty
<1>3. Complete(l)
  BY <1>1 DEF Complete
<1> QED BY <1>1, <1>2, <1>3 DEF Sound

(* Names in order are at most as many as there are.                        *)
FewNames == IsFiniteSet(Names) /\ Cardinality(Names) + 1 < NoId

LEMMA FewEntries ==
    ASSUME FewNames, NEW e \in Seq(Entry), Ordered(e), Named(e)
    PROVE  Len(e) \in Nat /\ Len(e) <= Cardinality(Names) /\ Len(e) + 1 < NoId
<1>1. PICK n \in Nat : n = Len(e)
  BY LenProperties
<1>2. IsFiniteSet(1..n) /\ Cardinality(1..n) = n
  <2>1. 1 \in Int /\ n \in Int
    BY <1>1
  <2>2. IsFiniteSet(1..n) /\ Cardinality(1..n) = IF 1 > n THEN 0 ELSE n - 1 + 1
    BY <2>1, FS_Interval
  <2> QED BY <1>1, <2>2
<1>3. PICK g : g = [i \in 1..n |-> NameOf(e, i - 1)]
  OBVIOUS
<1>4. ASSUME NEW i \in 1..n PROVE NameOf(e, i - 1) \in Names /\ NameOf(e, i - 1) # None /\ i - 1 \in Int
  <2>1. i - 1 \in 0..n - 1 /\ i - 1 \in Int
    BY <1>1
  <2>2. NameOf(e, i - 1) # None
    BY <1>1, <2>1 DEF Named
  <2> QED BY <2>1, <2>2, EntriesAre
<1>5. g \in Injection(1..n, Names)
  <2>1. g \in [1..n -> Names]
    BY <1>3, <1>4
  <2>2. ASSUME NEW i \in 1..n, NEW j \in 1..n, g[i] = g[j] PROVE i = j
    <3>1. NameOf(e, i - 1) = NameOf(e, j - 1)
      BY <1>3, <2>2
    <3>2. NameOf(e, i - 1) \in Nat
      BY <1>4, EntriesAre
    <3>3. ~(i - 1 < j - 1)
      BY <1>4, <3>1, <3>2 DEF Ordered
    <3>4. ~(j - 1 < i - 1)
      BY <1>4, <3>1, <3>2 DEF Ordered
    <3> QED BY <3>3, <3>4
  <2> QED BY <2>1, <2>2 DEF Injection, IsInjective
<1>6. n <= Cardinality(Names)
  BY <1>2, <1>5, FS_Injection DEF FewNames
<1>7. Cardinality(Names) \in Nat
  BY FS_CardinalityType DEF FewNames
<1> QED BY <1>1, <1>6, <1>7 DEF FewNames, NoId

(***************************************************************************)
(* The operations.                                                         *)
(***************************************************************************)
LEMMA ConcatAppend ==
    ASSUME NEW S, NEW s \in Seq(S), NEW t \in Seq(S), NEW x \in S
    PROVE  /\ s \o Append(t, x) = Append(s \o t, x)
           /\ s \o <<x>> = Append(s, x)
<1>1. <<x>> \in Seq(S)
  OBVIOUS
<1>2. Append(t, x) = t \o <<x>>
  BY AppendIsConcat
<1>3. s \o t \in Seq(S)
  BY ConcatProperties
<1>4. Append(s \o t, x) = (s \o t) \o <<x>>
  BY <1>3, AppendIsConcat
<1>5. (s \o t) \o <<x>> = s \o (t \o <<x>>)
  BY <1>1, ConcatAssociative
<1>6. s \o <<x>> = Append(s, x)
  BY AppendIsConcat
<1> QED BY <1>2, <1>4, <1>5, <1>6

LEMMA AddThree ==
    ASSUME NEW log \in Seq(Tags), NEW x \in Tags, NEW y \in Tags, NEW z \in Tags
    PROVE  log \o <<x, y, z>> = Append(Append(Append(log, x), y), z)
<1>1. PICK a, b, c : a = <<x>> /\ b = <<x, y>> /\ c = <<x, y, z>>
  OBVIOUS
<1>2. a \in Seq(Tags) /\ b \in Seq(Tags) /\ c \in Seq(Tags)
  BY <1>1
<1>3. b = Append(a, y) /\ c = Append(b, z)
  BY <1>1
<1>4. log \o a = Append(log, x)
  BY <1>1, <1>2, ConcatAppend
<1>5. log \o b = Append(Append(log, x), y)
  BY <1>2, <1>3, <1>4, ConcatAppend
<1>6. log \o c = Append(Append(Append(log, x), y), z)
  BY <1>2, <1>3, <1>5, ConcatAppend
<1> QED BY <1>1, <1>6

(* What the search for a name finds.                                       *)
Finds(e, id, valid, n) ==
    /\ id \in Nat /\ id <= Len(e) /\ Len(e) \in Nat
    /\ valid => id < Len(e) /\ NameOf(e, id) = n
    /\ \A q \in Int : NameOf(e, q) = n => valid /\ q = id
    /\ \A q \in Int : NameOf(e, q) # None /\ NameOf(e, q) < n => q < id
    /\ \A q \in Int : NameOf(e, q) > n => q >= id

LEMMA FindNameFinds ==
    ASSUME NEW log, NEW e, Mid(log, e, {}), NEW n \in Names
    PROVE  Finds(e, FindName(log, n).id, FindName(log, n).valid, n)
<1>1. log \in Seq(Tags) /\ e \in Seq(Entry) /\ Count(log) = Len(e)
  BY DEF Mid
<1>2. PICK l \in Nat : l = Len(e)
  BY <1>1, LenProperties
<1>3. PICK b \in Bests : b = BestMatch(log, n) /\ SearchOk(b, e, n, {})
  BY DEF Mid, SearchOk
<1>4. b.id \in Int /\ b.id >= 0
  BY <1>3 DEF SearchOk, Bests
<1>5. PICK id \in Int : id = IF b.id < l THEN b.id ELSE l
  BY <1>2, <1>4
<1>6. FindName(log, n).id = id /\ FindName(log, n).valid = b.valid
  BY <1>1, <1>2, <1>3, <1>5, FindNameIs
<1>7. id \in Nat /\ id <= l /\ (b.id < l => id = b.id) /\ id <= b.id
  BY <1>2, <1>4, <1>5
<1>8. \A q \in Int : NameOf(e, q) # None => q < l
  BY <1>1, <1>2, EntriesAre
<1>9. n # None /\ n \in Nat
  BY PairAssumption DEF None
<1>10. ASSUME b.valid PROVE id < l /\ NameOf(e, id) = n
  <2>1. NameOf(e, b.id) = n
    BY <1>3, <1>10 DEF SearchOk
  <2>2. b.id < l
    BY <1>4, <1>8, <1>9, <2>1
  <2> QED BY <1>7, <2>1, <2>2
<1>11. ASSUME NEW q \in Int, NameOf(e, q) = n PROVE b.valid /\ q = id
  <2>1. b.valid /\ q = b.id
    BY <1>3, <1>11 DEF SearchOk
  <2>2. q < l
    BY <1>8, <1>9, <1>11
  <2> QED BY <1>7, <2>1, <2>2
<1>12. ASSUME NEW q \in Int, NameOf(e, q) # None, NameOf(e, q) < n PROVE q < id
  <2>1. q < b.id
    BY <1>3, <1>12 DEF SearchOk
  <2>2. q < l
    BY <1>8, <1>12
  <2> QED BY <1>5, <2>1, <2>2
<1>13. ASSUME NEW q \in Int, NameOf(e, q) > n PROVE q >= id
  <2>1. q >= b.id
    BY <1>3, <1>13 DEF SearchOk
  <2> QED BY <1>4, <1>7, <2>1
<1> QED BY <1>2, <1>6, <1>7, <1>10, <1>11, <1>12, <1>13 DEF Finds

(* The entries with one more, in its place.                                *)
Puts(e, g, c, n, s) ==
    /\ g \in Seq(Entry)
    /\ Len(g) = Len(e) + 1
    /\ \A q \in Int :
        /\ NameOf(g, q) = IF q < c THEN NameOf(e, q) ELSE IF q = c THEN n ELSE NameOf(e, q - 1)
        /\ StructOf(g, q) = IF q < c THEN StructOf(e, q) ELSE IF q = c THEN s ELSE StructOf(e, q - 1)

Slot(e, c, n) ==
    \A q \in Int : NameOf(e, q) # None => (q < c /\ NameOf(e, q) < n) \/ (q >= c /\ NameOf(e, q) > n)

LEMMA AddIs ==
    ASSUME NEW log, NEW e, Sound(log, e), Len(e) + 1 < NoId,
           NEW c \in Nat, c <= Len(e), NEW n \in Names, NEW s \in Structs, Slot(e, c, n),
           NEW x, x = Tag("CREATE", c, None), NEW y, y = Tag("NAME", c, n),
           NEW z, z = Tag("STRUCT", c, s)
    PROVE  \E g : Sound(Append(Append(Append(log, x), y), z), g) /\ Puts(e, g, c, n, s)
<1>1. x \in Tags /\ y \in Tags /\ z \in Tags
  BY TagIs
<1>2. /\ x.t = "CREATE" /\ x.id = c
      /\ y.t = "NAME" /\ y.id = c /\ y.val = n
      /\ z.t = "STRUCT" /\ z.id = c /\ z.val = s
  BY DEF Tag
<1>3. Mid(log, e, {}) /\ Complete(e) /\ e \in Seq(Entry)
  BY DEF Sound, Mid
<1>4. PICK l \in Nat : l = Len(e) /\ l < NoId /\ c <= l
  <2>1. Len(e) \in Nat
    BY <1>3, LenProperties
  <2> QED BY <2>1 DEF NoId
<1>5. Named(e)
  BY <1>3 DEF Complete, Named
<1>6. PICK e1 : e1 = Apply(e, x)
  OBVIOUS
<1>7. Mid(Append(log, x), e1, {c}) /\ Inserts(e, e1, c)
  BY <1>1, <1>2, <1>3, <1>4, <1>5, <1>6, MidCreate
<1>8. \A q \in Int :
        /\ NameOf(e1, q) = IF q < c THEN NameOf(e, q) ELSE IF q = c THEN None ELSE NameOf(e, q - 1)
        /\ StructOf(e1, q) = IF q < c THEN StructOf(e, q) ELSE IF q = c THEN None ELSE StructOf(e, q - 1)
  BY <1>7 DEF Inserts
<1>9. {c} \in SUBSET (0..NoId - 1) /\ c \in {c} /\ {c} \ {c} = {}
  <2>1. c < NoId /\ NoId \in Int
    BY <1>4 DEF NoId
  <2> QED BY <2>1
<1>10. StructOf(e1, c) = None
  BY <1>8
<1>11. InOrder(e1, c, n)
  <2>1. ASSUME NEW q \in Int, NameOf(e1, q) # None
        PROVE  (q < c /\ NameOf(e1, q) < n) \/ (q > c /\ NameOf(e1, q) > n)
    <3>1. CASE q < c
      <4>1. NameOf(e1, q) = NameOf(e, q)
        BY <1>8, <3>1
      <4> QED BY <2>1, <3>1, <4>1 DEF Slot
    <3>2. CASE q > c
      <4>1. NameOf(e1, q) = NameOf(e, q - 1) /\ q - 1 \in Int /\ ~(q - 1 < c)
        BY <1>8, <3>2
      <4> QED BY <2>1, <3>2, <4>1 DEF Slot
    <3>3. q # c
      BY <1>8, <2>1
    <3> QED BY <3>1, <3>2, <3>3
  <2> QED BY <2>1 DEF InOrder
<1>12. PICK e2 : e2 = Apply(e1, y)
  OBVIOUS
<1>13. Mid(Append(Append(log, x), y), e2, {}) /\ Names1(e1, e2, c, n)
  <2>1. PICK F, u : F = {c} /\ u = Append(log, x)
    OBVIOUS
  <2>2. F \in SUBSET (0..NoId - 1) /\ c \in F /\ F \ {c} = {}
    BY <1>9, <2>1
  <2>3. Mid(u, e1, F)
    BY <1>7, <2>1
  <2>4. Mid(Append(u, y), e2, F \ {c}) /\ Names1(e1, e2, c, n)
    BY <1>1, <1>2, <1>10, <1>11, <1>12, <2>2, <2>3, MidName
  <2> QED BY <2>1, <2>2, <2>4
<1>14. e2 \in Seq(Entry) /\ Len(e2) = l + 1
       /\ \A q \in Int : NameOf(e2, q) = (IF q = c THEN n ELSE NameOf(e1, q)) /\ StructOf(e2, q) = StructOf(e1, q)
  <2>1. Len(e1) = l + 1
    BY <1>4, <1>7 DEF Inserts
  <2>2. c < Len(e1)
    BY <1>4, <2>1
  <2> QED BY <1>13, <2>1, <2>2 DEF Names1
<1>15. PICK g : g = Apply(e2, z)
  OBVIOUS
<1>16. c < Len(e2)
  BY <1>4, <1>14
<1>17. PICK w : w = Append(Append(log, x), y)
  OBVIOUS
<1>18. Mid(w, e2, {})
  BY <1>13, <1>17
<1>19. Mid(Append(w, z), g, {}) /\ Fills(e2, g, c, s)
  BY <1>1, <1>2, <1>15, <1>16, <1>18, MidStruct
<1>20. g \in Seq(Entry) /\ Len(g) = l + 1
       /\ \A q \in Int : NameOf(g, q) = NameOf(e2, q) /\ StructOf(g, q) = IF q = c THEN s ELSE StructOf(e2, q)
  BY <1>14, <1>19 DEF Fills
<1>21. ASSUME NEW q \in Int
       PROVE  /\ NameOf(g, q) = IF q < c THEN NameOf(e, q) ELSE IF q = c THEN n ELSE NameOf(e, q - 1)
              /\ StructOf(g, q) = IF q < c THEN StructOf(e, q) ELSE IF q = c THEN s ELSE StructOf(e, q - 1)
  <2>1. NameOf(g, q) = IF q = c THEN n ELSE NameOf(e1, q)
    BY <1>14, <1>20
  <2>2. StructOf(g, q) = IF q = c THEN s ELSE StructOf(e1, q)
    BY <1>14, <1>20
  <2> QED BY <1>8, <2>1, <2>2
<1>22. Puts(e, g, c, n, s)
  BY <1>4, <1>20, <1>21 DEF Puts
<1>23. Complete(g)
  <2>1. ASSUME NEW q \in 0..l PROVE NameOf(g, q) # None /\ StructOf(g, q) # None
    <3>1. q \in Int /\ q - 1 \in Int
      BY <1>4
    <3>2. n # None /\ s # None
      BY PairAssumption DEF None
    <3>3. CASE q < c
      <4>1. q \in 0..l - 1
        BY <1>4, <3>3
      <4> QED BY <1>3, <1>4, <1>21, <3>1, <3>3, <4>1 DEF Complete
    <3>4. CASE q = c
      BY <1>21, <3>1, <3>2, <3>4
    <3>5. CASE q > c
      <4>1. q - 1 \in 0..l - 1 /\ ~(q < c) /\ q # c
        BY <1>4, <3>5
      <4> QED BY <1>3, <1>4, <1>21, <3>1, <4>1 DEF Complete
    <3> QED BY <1>4, <3>1, <3>3, <3>4, <3>5
  <2>2. Len(g) - 1 = l
    BY <1>4, <1>20
  <2> QED BY <2>1, <2>2 DEF Complete
<1> QED BY <1>17, <1>19, <1>22, <1>23 DEF Sound

LEMMA DropIs ==
    ASSUME NEW log, NEW e, Sound(log, e), Len(e) < NoId,
           NEW c \in Nat, c < Len(e), NEW x, x = Tag("DELETE", c, None)
    PROVE  \E g : Sound(Append(log, x), g) /\ Removes(e, g, c)
<1>1. x \in Tags /\ x.t = "DELETE" /\ x.id = c
  <2>1. x \in Tags
    BY TagIs
  <2> QED BY <2>1 DEF Tag
<1>2. Mid(log, e, {}) /\ Complete(e) /\ e \in Seq(Entry)
  BY DEF Sound, Mid
<1>3. PICK l \in Nat : l = Len(e) /\ c < l
  BY <1>2, LenProperties
<1>4. PICK g : g = Apply(e, x)
  OBVIOUS
<1>5. Mid(Append(log, x), g, {}) /\ Removes(e, g, c)
  BY <1>1, <1>2, <1>4, MidDelete
<1>6. Complete(g)
  <2>1. ASSUME NEW q \in 0..l - 2 PROVE NameOf(g, q) # None /\ StructOf(g, q) # None
    <3>1. q \in 0..l - 1 /\ q + 1 \in 0..l - 1 /\ q \in Int /\ q + 1 \in Int
      BY <1>3
    <3>2. NameOf(e, q) # None /\ StructOf(e, q) # None /\ NameOf(e, q + 1) # None /\ StructOf(e, q + 1) # None
      BY <1>2, <1>3, <3>1 DEF Complete
    <3> QED BY <1>5, <3>1, <3>2 DEF Removes
  <2>2. Len(g) - 1 = l - 2
    BY <1>3, <1>5 DEF Removes
  <2> QED BY <2>1, <2>2 DEF Complete
<1> QED BY <1>5, <1>6 DEF Sound

LEMMA FillIs ==
    ASSUME NEW log, NEW e, Sound(log, e), NEW c \in Nat, c < Len(e), NEW s \in Structs,
           NEW x, x = Tag("STRUCT", c, s)
    PROVE  \E g : Sound(Append(log, x), g) /\ Fills(e, g, c, s)
<1>1. x \in Tags /\ x.t = "STRUCT" /\ x.id = c /\ x.val = s
  <2>1. x \in Tags
    BY TagIs
  <2> QED BY <2>1 DEF Tag
<1>2. Mid(log, e, {}) /\ Complete(e) /\ e \in Seq(Entry)
  BY DEF Sound, Mid
<1>4. PICK g : g = Apply(e, x)
  OBVIOUS
<1>5. Mid(Append(log, x), g, {}) /\ Fills(e, g, c, s)
  BY <1>1, <1>2, <1>4, MidStruct
<1>6. Complete(g)
  <2>1. ASSUME NEW q \in 0..Len(e) - 1 PROVE NameOf(g, q) # None /\ StructOf(g, q) # None
    <3>1. Len(e) \in Nat
      BY <1>2, LenProperties
    <3>2. q \in Int /\ s # None
      BY <3>1, PairAssumption
    <3> QED BY <1>2, <1>5, <3>2 DEF Fills, Complete
  <2> QED BY <1>5, <2>1 DEF Complete, Fills
<1> QED BY <1>5, <1>6 DEF Sound

(***************************************************************************)
(* The directory the entries are.                                          *)
(***************************************************************************)
Has(e, m, t) == \E q \in Int : NameOf(e, q) = m /\ StructOf(e, q) = t

(* The same but for a name.                                                *)
Alters(e, g, n) == \A m \in Names : m # n => \A t : Has(e, m, t) <=> Has(g, m, t)

Lists(d, e) ==
    /\ d = [m \in DOMAIN d |-> d[m]]
    /\ DOMAIN d \subseteq Names
    /\ \A m \in Names : m \in DOMAIN d <=> \E t : Has(e, m, t)
    /\ \A m \in Names : \A t : Has(e, m, t) => d[m] = t /\ t \in Structs

LEMMA DirectoryIs ==
    ASSUME NEW e \in Seq(Entry), Ordered(e), Complete(e)
    PROVE  Lists(Directory(e), e)
<1>1. PICK l \in Nat : l = Len(e) /\ DOMAIN e = 1..l
  BY LenProperties
<1>2. ASSUME NEW i \in 1..l
      PROVE  /\ i - 1 \in Int /\ e[i].name = NameOf(e, i - 1) /\ e[i].struct = StructOf(e, i - 1)
             /\ e[i].name \in Names /\ e[i].struct \in Structs /\ e[i].name # None
  <2>1. i - 1 \in 0..l - 1 /\ i - 1 \in Int /\ (i - 1) + 1 = i
    BY <1>1
  <2>2. e[i].name = NameOf(e, i - 1) /\ e[i].struct = StructOf(e, i - 1)
    BY <1>1, <2>1 DEF NameOf, StructOf
  <2>3. NameOf(e, i - 1) # None /\ StructOf(e, i - 1) # None
    BY <1>1, <2>1 DEF Complete
  <2>4. NameOf(e, i - 1) \in Names \cup {None} /\ StructOf(e, i - 1) \in Structs \cup {None}
    BY <2>1, EntriesAre
  <2> QED BY <2>1, <2>2, <2>3, <2>4
<1>3. PICK d : d = Directory(e)
  OBVIOUS
<1>4. PICK R : R = {e[i] : i \in DOMAIN e}
  OBVIOUS
<1>5. d = [n \in {e[i].name : i \in DOMAIN e} |-> (CHOOSE x \in R : x.name = n).struct]
  BY <1>3, <1>4 DEF Directory
<1>6. ASSUME NEW q \in Int, NameOf(e, q) # None
      PROVE  \E i \in 1..l : e[i].name = NameOf(e, q) /\ e[i].struct = StructOf(e, q) /\ q = i - 1
  <2>1. q \in 0..l - 1
    BY <1>1, <1>6, EntriesAre
  <2>2. q + 1 \in 1..l /\ (q + 1) - 1 = q
    BY <1>1, <2>1
  <2> QED BY <1>2, <2>2
<1>7. ASSUME NEW i \in 1..l PROVE d[e[i].name] = e[i].struct
  <2>1. PICK n : n = e[i].name
    OBVIOUS
  <2>2. PICK r : r = CHOOSE x \in R : x.name = n
    OBVIOUS
  <2>3. e[i] \in R /\ e[i].name = n
    BY <1>1, <1>4, <2>1
  <2>4. r \in R /\ r.name = n
    BY <2>2, <2>3
  <2>5. PICK j \in 1..l : r = e[j]
    BY <1>1, <1>4, <2>4
  <2>6. j = i
    <3>1. PICK p, q : p = i - 1 /\ q = j - 1
      OBVIOUS
    <3>2. p \in Int /\ q \in Int /\ NameOf(e, p) = n /\ NameOf(e, q) = n /\ n # None
      BY <1>2, <2>1, <2>4, <2>5, <3>1
    <3>3. n \in Nat
      BY <3>2, EntriesAre
    <3>4. ~(p < q)
      BY <3>2, <3>3 DEF Ordered
    <3>5. ~(q < p)
      BY <3>2, <3>3 DEF Ordered
    <3> QED BY <3>1, <3>2, <3>4, <3>5
  <2>7. n \in {e[k].name : k \in DOMAIN e}
    BY <1>1, <2>1
  <2> QED BY <1>5, <2>1, <2>2, <2>5, <2>6, <2>7
<1>8. DOMAIN d = {e[i].name : i \in 1..l} /\ d = [m \in DOMAIN d |-> d[m]]
  BY <1>1, <1>5
<1>9. \A m \in Names : m # None
  BY PairAssumption DEF None
<1>10. ASSUME NEW m \in Names PROVE m \in DOMAIN d <=> \E t : Has(e, m, t)
  <2>1. ASSUME m \in DOMAIN d PROVE \E t : Has(e, m, t)
    <3>1. PICK i \in 1..l : m = e[i].name
      BY <1>8, <2>1
    <3> QED BY <1>2, <3>1 DEF Has
  <2>2. ASSUME NEW t, Has(e, m, t) PROVE m \in DOMAIN d
    <3>1. PICK q \in Int : NameOf(e, q) = m
      BY <2>2 DEF Has
    <3>2. PICK i \in 1..l : e[i].name = m
      BY <1>6, <1>9, <3>1
    <3> QED BY <1>8, <3>2
  <2> QED BY <2>1, <2>2
<1>11. ASSUME NEW m \in Names, NEW t, Has(e, m, t) PROVE d[m] = t /\ t \in Structs
  <2>1. PICK q \in Int : NameOf(e, q) = m /\ StructOf(e, q) = t
    BY <1>11 DEF Has
  <2>2. PICK i \in 1..l : e[i].name = m /\ e[i].struct = t
    BY <1>6, <1>9, <2>1
  <2> QED BY <1>2, <1>7, <2>2
<1>12. DOMAIN d \subseteq Names
  BY <1>2, <1>8
<1> QED BY <1>3, <1>8, <1>10, <1>11, <1>12 DEF Lists

LEMMA PutsHas ==
    ASSUME NEW e, NEW g, NEW c \in Nat, NEW n, NEW s, Puts(e, g, c, n, s)
    PROVE  Has(g, n, s) /\ Alters(e, g, n)
<1>1. NameOf(g, c) = n /\ StructOf(g, c) = s
  BY DEF Puts
<1>2. Has(g, n, s)
  BY <1>1 DEF Has
<1>3. ASSUME NEW m, NEW t, m # n, Has(e, m, t) PROVE Has(g, m, t)
  <2>1. PICK p \in Int : NameOf(e, p) = m /\ StructOf(e, p) = t
    BY <1>3 DEF Has
  <2>2. CASE p < c
    <3>1. NameOf(g, p) = m /\ StructOf(g, p) = t
      BY <2>1, <2>2 DEF Puts
    <3> QED BY <3>1 DEF Has
  <2>3. CASE ~(p < c)
    <3>1. PICK q \in Int : q = p + 1
      OBVIOUS
    <3>2. ~(q < c) /\ q # c /\ q - 1 = p
      BY <2>3, <3>1
    <3>3. NameOf(g, q) = m /\ StructOf(g, q) = t
      BY <2>1, <3>2 DEF Puts
    <3> QED BY <3>3 DEF Has
  <2> QED BY <2>2, <2>3
<1>4. ASSUME NEW m, NEW t, m # n, Has(g, m, t) PROVE Has(e, m, t)
  <2>1. PICK q \in Int : NameOf(g, q) = m /\ StructOf(g, q) = t
    BY <1>4 DEF Has
  <2>2. q # c
    BY <1>1, <1>4, <2>1
  <2>3. CASE q < c
    <3>1. NameOf(e, q) = m /\ StructOf(e, q) = t
      BY <2>1, <2>3 DEF Puts
    <3> QED BY <3>1 DEF Has
  <2>4. CASE ~(q < c)
    <3>1. q - 1 \in Int /\ NameOf(e, q - 1) = m /\ StructOf(e, q - 1) = t
      BY <2>1, <2>2, <2>4 DEF Puts
    <3> QED BY <3>1 DEF Has
  <2> QED BY <2>3, <2>4
<1> QED BY <1>2, <1>3, <1>4 DEF Alters

LEMMA RemovesHas ==
    ASSUME NEW e \in Seq(Entry), Ordered(e), NEW g, NEW c \in Nat, NEW n \in Names, NameOf(e, c) = n, Removes(e, g, c)
    PROVE  Alters(e, g, n) /\ \A t : ~Has(g, n, t)
<1>1. n # None /\ n \in Nat
  BY PairAssumption DEF None
<1>2. ASSUME NEW q \in Int, NameOf(e, q) = n PROVE q = c
  <2>1. ~(q < c)
    BY <1>1, <1>2 DEF Ordered
  <2>2. ~(c < q)
    BY <1>1, <1>2 DEF Ordered
  <2> QED BY <2>1, <2>2
<1>3. ASSUME NEW m, NEW t, m # n, Has(e, m, t) PROVE Has(g, m, t)
  <2>1. PICK p \in Int : NameOf(e, p) = m /\ StructOf(e, p) = t
    BY <1>3 DEF Has
  <2>2. CASE p < c
    <3>1. NameOf(g, p) = m /\ StructOf(g, p) = t
      BY <2>1, <2>2 DEF Removes
    <3> QED BY <3>1 DEF Has
  <2>3. CASE ~(p < c)
    <3>1. PICK q \in Int : q = p - 1
      OBVIOUS
    <3>2. p # c
      BY <1>3, <2>1
    <3>3. ~(q < c) /\ q + 1 = p
      BY <2>3, <3>1, <3>2
    <3>4. NameOf(g, q) = m /\ StructOf(g, q) = t
      BY <2>1, <3>3 DEF Removes
    <3> QED BY <3>4 DEF Has
  <2> QED BY <2>2, <2>3
<1>4. ASSUME NEW m, NEW t, Has(g, m, t) PROVE m # n /\ Has(e, m, t)
  <2>1. PICK q \in Int : NameOf(g, q) = m /\ StructOf(g, q) = t
    BY <1>4 DEF Has
  <2>2. CASE q < c
    <3>1. NameOf(e, q) = m /\ StructOf(e, q) = t
      BY <2>1, <2>2 DEF Removes
    <3>2. m # n
      BY <1>2, <2>2, <3>1
    <3> QED BY <3>1, <3>2 DEF Has
  <2>3. CASE ~(q < c)
    <3>1. PICK p \in Int : p = q + 1
      OBVIOUS
    <3>2. NameOf(e, p) = m /\ StructOf(e, p) = t
      BY <2>1, <2>3, <3>1 DEF Removes
    <3>3. m # n
      BY <1>2, <2>3, <3>1, <3>2
    <3> QED BY <3>2, <3>3 DEF Has
  <2> QED BY <2>2, <2>3
<1> QED BY <1>3, <1>4 DEF Alters

LEMMA FillsHas ==
    ASSUME NEW e, NEW g, NEW c \in Nat, NEW n, NEW s, NameOf(e, c) = n, Fills(e, g, c, s)
    PROVE  Has(g, n, s) /\ Alters(e, g, n)
<1>1. NameOf(g, c) = n /\ StructOf(g, c) = s
  BY DEF Fills
<1>2. ASSUME NEW m, NEW t, m # n PROVE Has(e, m, t) <=> Has(g, m, t)
  <2>1. \A q \in Int : NameOf(e, q) = m => StructOf(g, q) = StructOf(e, q)
    BY <1>2 DEF Fills
  <2> QED BY <2>1 DEF Has, Fills
<1> QED BY <1>1, <1>2 DEF Has, Alters

LEMMA WithIs ==
    ASSUME NEW d, NEW e, Lists(d, e), NEW f, NEW g, Lists(f, g),
           NEW n \in Names, NEW s, Has(g, n, s), Alters(e, g, n)
    PROVE  f = D!With(d, n, s)
<1>1. PICK h : h = D!With(d, n, s)
  OBVIOUS
<1>2. h = [m \in DOMAIN d \cup {n} |-> IF m = n THEN s ELSE d[m]]
  BY <1>1 DEF D!With
<1>3. DOMAIN f = DOMAIN d \cup {n}
  <2>1. ASSUME NEW m \in Names PROVE m \in DOMAIN f <=> m \in DOMAIN d \cup {n}
    BY DEF Lists, Alters
  <2> QED BY <2>1 DEF Lists
<1>4. ASSUME NEW m \in DOMAIN f PROVE f[m] = h[m]
  <2>1. m \in Names
    BY DEF Lists
  <2>2. CASE m = n
    BY <1>2, <2>2 DEF Lists
  <2>3. CASE m # n
    <3>1. PICK t : Has(g, m, t)
      BY <2>1 DEF Lists
    <3>2. Has(e, m, t)
      BY <2>1, <2>3, <3>1 DEF Alters
    <3> QED BY <1>2, <1>3, <2>1, <2>3, <3>1, <3>2 DEF Lists
  <2> QED BY <2>2, <2>3
<1>5. f = [m \in DOMAIN f |-> f[m]]
  BY DEF Lists
<1> QED BY <1>1, <1>2, <1>3, <1>4, <1>5

LEMMA WithoutIs ==
    ASSUME NEW d, NEW e, Lists(d, e), NEW f, NEW g, Lists(f, g),
           NEW n \in Names, \A t : ~Has(g, n, t), Alters(e, g, n)
    PROVE  f = D!Without(d, n)
<1>1. PICK h : h = D!Without(d, n)
  OBVIOUS
<1>2. h = [m \in DOMAIN d \ {n} |-> d[m]]
  BY <1>1 DEF D!Without
<1>3. DOMAIN f = DOMAIN d \ {n}
  <2>1. ASSUME NEW m \in Names PROVE m \in DOMAIN f <=> m \in DOMAIN d \ {n}
    BY DEF Lists, Alters
  <2> QED BY <2>1 DEF Lists
<1>4. ASSUME NEW m \in DOMAIN f PROVE f[m] = h[m]
  <2>1. m \in Names /\ m # n
    BY <1>3 DEF Lists
  <2>2. PICK t : Has(g, m, t)
    BY <2>1 DEF Lists
  <2>3. Has(e, m, t)
    BY <2>1, <2>2 DEF Alters
  <2> QED BY <1>2, <1>3, <2>1, <2>2, <2>3 DEF Lists
<1>5. f = [m \in DOMAIN f |-> f[m]]
  BY DEF Lists
<1> QED BY <1>1, <1>2, <1>3, <1>4, <1>5

(* An entry taken away, perhaps, and one put in its place with the struct  *)
(* of another one, which is taken away.                                    *)
LEMMA RenameIs ==
    ASSUME NEW d, NEW e, Lists(d, e), NEW f, NEW g, Lists(f, g),
           NEW a \in Names, NEW b \in Names, a # b, NEW s, Has(e, a, s), Has(g, b, s), \A t : ~Has(g, a, t),
           \A m \in Names : m \notin {a, b} => \A t : Has(e, m, t) <=> Has(g, m, t)
    PROVE  f = D!With(D!Without(d, a), b, d[a])
<1>1. PICK w : w = D!Without(d, a)
  OBVIOUS
<1>2. w = [m \in DOMAIN d \ {a} |-> d[m]] /\ DOMAIN w = DOMAIN d \ {a}
  BY <1>1 DEF D!Without
<1>3. PICK h : h = D!With(w, b, s)
  OBVIOUS
<1>4. h = [m \in DOMAIN w \cup {b} |-> IF m = b THEN s ELSE w[m]]
  BY <1>3 DEF D!With
<1>5. DOMAIN f = DOMAIN w \cup {b}
  <2>1. ASSUME NEW m \in Names PROVE m \in DOMAIN f <=> m \in DOMAIN w \cup {b}
    <3>1. CASE m = a
      BY <1>2, <3>1 DEF Lists
    <3>2. CASE m = b
      BY <3>2 DEF Lists
    <3>3. CASE m \notin {a, b}
      BY <1>2, <3>3 DEF Lists
    <3> QED BY <3>1, <3>2, <3>3
  <2> QED BY <1>2, <2>1 DEF Lists
<1>6. ASSUME NEW m \in DOMAIN f PROVE f[m] = h[m]
  <2>1. m \in Names
    BY DEF Lists
  <2>2. CASE m = b
    BY <1>4, <2>2 DEF Lists
  <2>3. CASE m # b
    <3>1. PICK t : Has(g, m, t)
      BY <2>1 DEF Lists
    <3>2. m # a
      BY <3>1
    <3>3. Has(e, m, t)
      BY <2>1, <2>3, <3>1, <3>2
    <3>4. h[m] = d[m]
      BY <1>2, <1>4, <1>5, <2>3
    <3> QED BY <2>1, <3>1, <3>3, <3>4 DEF Lists
  <2> QED BY <2>2, <2>3
<1>7. f = [m \in DOMAIN f |-> f[m]]
  BY DEF Lists
<1>8. d[a] = s
  BY DEF Lists
<1>9. f = h
  BY <1>4, <1>5, <1>6, <1>7
<1> QED BY <1>1, <1>3, <1>8, <1>9

(***************************************************************************)
(* What the attributes of an operation do.                                 *)
(***************************************************************************)
LEMMA MovedIs ==
    ASSUME NEW log, NEW e, Sound(log, e), NEW c \in Nat, c < Len(e), NEW to \in Int,
           NEW s, s = StructOf(e, c)
    PROVE  MovedTags(log, c, to) = <<Tag("STRUCT", to, s)>> /\ s \in Structs
<1>1. Mid(log, e, {}) /\ Complete(e) /\ e \in Seq(Entry) /\ log \in Seq(Tags)
  BY DEF Sound, Mid
<1>2. c \in 0..Len(e) - 1 /\ c \in Int
  BY <1>1, LenProperties
<1>3. s # None /\ s \in Structs
  <2>1. s # None
    BY <1>1, <1>2 DEF Complete
  <2> QED BY <1>1, <1>2, <2>1, EntriesAre
<1>4. PICK kept : kept = Compacted(log)
  OBVIOUS
<1>5. kept \in Seq(Tags) /\ Tell(1..Len(kept), kept, e)
  BY <1>1, <1>4, CompactedTells
<1>6. PICK w : w = MovedTags(log, c, to)
  OBVIOUS
<1>7. PICK pos : Moves(pos, w, kept, c, to)
  BY <1>1, <1>4, <1>6, MovedHas
<1>8. PICK n \in Nat : n = Len(w)
  BY <1>7, LenProperties DEF Moves
<1>9. PICK m \in Nat : m = Len(kept)
  BY <1>5, LenProperties
<1>10. PICK i \in 1..m : kept[i].t = "STRUCT" /\ kept[i].id = c /\ kept[i].val = s
  <2>1. FieldOf(e, "STRUCT", c) = s
    BY DEF FieldOf
  <2>2. PICK i \in 1..m : kept[i].t = "STRUCT" /\ kept[i].id = c
    BY <1>2, <1>3, <1>5, <1>9, <2>1 DEF Tell
  <2>3. FieldOf(e, kept[i].t, kept[i].id) = kept[i].val
    BY <1>5, <1>9 DEF Tell
  <2> QED BY <2>1, <2>2, <2>3
<1>11. \A j \in 1..m : kept[j].t = "STRUCT" /\ kept[j].id = c => j = i
  BY <1>5, <1>9, <1>10 DEF Tell
<1>12. ASSUME NEW k \in 1..n PROVE pos[k] = i /\ w[k] = Tag("STRUCT", to, s)
  <2>1. pos[k] \in 1..m
    BY <1>7, <1>8, <1>9 DEF Moves
  <2>2. kept[pos[k]].t = "STRUCT" /\ kept[pos[k]].id = c /\ w[k] = Tag("STRUCT", to, kept[pos[k]].val)
    BY <1>7, <1>8 DEF Moves
  <2>3. pos[k] = i
    BY <1>11, <2>1, <2>2
  <2> QED BY <1>10, <2>2, <2>3
<1>13. n = 1
  <2>1. PICK k \in 1..n : pos[k] = i
    BY <1>7, <1>8, <1>9, <1>10 DEF Moves
  <2>2. ASSUME n > 1 PROVE FALSE
    <3>1. 1 \in 1..n /\ 2 \in 1..n
      BY <2>2
    <3>2. pos[1] < pos[2]
      BY <1>7, <1>8, <3>1 DEF Moves
    <3>3. pos[1] = i /\ pos[2] = i /\ i \in Int
      BY <1>12, <3>1
    <3> QED BY <3>2, <3>3
  <2> QED BY <2>1, <2>2
<1>14. PICK x : x = Tag("STRUCT", to, s) /\ x \in Tags
  BY <1>3, TagIs
<1>15. w = <<x>>
  <2>1. PICK v : v = <<x>>
    OBVIOUS
  <2>2. v \in Seq(Tags) /\ Len(v) = 1 /\ v[1] = x
    BY <1>14, <2>1
  <2>3. w \in Seq(Tags) /\ Len(w) = 1 /\ w[1] = x
    <3>1. 1 \in 1..n
      BY <1>13
    <3> QED BY <1>7, <1>8, <1>12, <1>13, <1>14, <3>1 DEF Moves
  <2>4. \A k \in 1..Len(w) : w[k] = v[k]
    BY <2>2, <2>3
  <2> QED BY <2>1, <2>2, <2>3, <2>4, SeqEqual
<1> QED BY <1>3, <1>6, <1>14, <1>15

(* What is sound is in order, and not too long.                            *)
LEMMA SoundIs ==
    ASSUME NEW log, NEW e, Sound(log, e)
    PROVE  /\ log \in Seq(Tags) /\ e \in Seq(Entry) /\ Ordered(e) /\ Complete(e) /\ Named(e)
           /\ e = Replay(log) /\ Count(log) = Len(e) /\ Mid(log, e, {}) /\ Len(e) \in Nat
           /\ Lists(Directory(e), e)
           /\ FewNames => Len(e) + 1 < NoId /\ Len(e) < NoId
<1>1. log \in Seq(Tags) /\ e \in Seq(Entry) /\ Ordered(e) /\ Complete(e) /\ e = Replay(log) /\ Count(log) = Len(e)
  BY DEF Sound, Mid
<1>2. Named(e)
  BY <1>1 DEF Complete, Named
<1>3. Len(e) \in Nat
  BY <1>1, LenProperties
<1>4. Lists(Directory(e), e)
  BY <1>1, DirectoryIs
<1>5. ASSUME FewNames PROVE Len(e) + 1 < NoId /\ Len(e) < NoId
  <2>1. Len(e) + 1 < NoId
    BY <1>1, <1>2, <1>5, FewEntries
  <2> QED BY <1>3, <2>1 DEF NoId
<1> QED BY <1>1, <1>2, <1>3, <1>4, <1>5 DEF Sound

LEMMA CreateTold ==
    ASSUME FewNames, NEW log, NEW e, Sound(log, e), NEW n \in Names, NEW s \in Structs,
           NEW c, c = FindName(log, n).id, ~FindName(log, n).valid
    PROVE  c \in Nat /\ c <= Len(e) /\ Slot(e, c, n) /\ \E g : Sound(log \o CreateAttrs(log, n, s), g) /\ Puts(e, g, c, n, s)
<1>1. log \in Seq(Tags) /\ Len(e) + 1 < NoId /\ Mid(log, e, {})
  BY SoundIs
<1>2. PICK v : v = FindName(log, n).valid
  OBVIOUS
<1>3. Finds(e, c, v, n)
  BY <1>1, <1>2, FindNameFinds
<1>4. c \in Nat /\ c <= Len(e)
  BY <1>3 DEF Finds
<1>5. Slot(e, c, n)
  <2>1. ASSUME NEW q \in Int, NameOf(e, q) # None
        PROVE  (q < c /\ NameOf(e, q) < n) \/ (q >= c /\ NameOf(e, q) > n)
    <3>1. NameOf(e, q) \in Nat /\ n \in Nat
      BY SoundIs, EntriesAre, PairAssumption
    <3>2. NameOf(e, q) # n
      BY <1>2, <1>3 DEF Finds
    <3>3. NameOf(e, q) < n => q < c
      BY <1>3, <2>1 DEF Finds
    <3>4. NameOf(e, q) > n => q >= c
      BY <1>3, <2>1 DEF Finds
    <3> QED BY <3>1, <3>2, <3>3, <3>4
  <2> QED BY <2>1 DEF Slot
<1>6. PICK x, y, z : x = Tag("CREATE", c, None) /\ y = Tag("NAME", c, n) /\ z = Tag("STRUCT", c, s)
  OBVIOUS
<1>7. x \in Tags /\ y \in Tags /\ z \in Tags
  BY <1>4, <1>6, TagIs
<1>8. \E g : Sound(Append(Append(Append(log, x), y), z), g) /\ Puts(e, g, c, n, s)
  BY <1>1, <1>4, <1>5, <1>6, AddIs
<1>9. log \o <<x, y, z>> = Append(Append(Append(log, x), y), z)
  BY <1>1, <1>7, AddThree
<1>10. CreateAttrs(log, n, s) = <<x, y, z>>
  BY <1>6 DEF CreateAttrs
<1> QED BY <1>4, <1>5, <1>8, <1>9, <1>10

LEMMA RemoveTold ==
    ASSUME FewNames, NEW log, NEW e, Sound(log, e), NEW n \in Names,
           NEW c, c = FindName(log, n).id, FindName(log, n).valid
    PROVE  c \in Nat /\ c < Len(e) /\ NameOf(e, c) = n
           /\ \E g : Sound(log \o RemoveAttrs(log, n), g) /\ Removes(e, g, c)
<1>1. log \in Seq(Tags) /\ Len(e) < NoId /\ Mid(log, e, {})
  BY SoundIs
<1>2. PICK v : v = FindName(log, n).valid
  OBVIOUS
<1>3. Finds(e, c, v, n)
  BY <1>1, <1>2, FindNameFinds
<1>4. c \in Nat /\ c < Len(e) /\ NameOf(e, c) = n
  BY <1>2, <1>3 DEF Finds
<1>5. PICK x : x = Tag("DELETE", c, None) /\ x \in Tags
  BY <1>4, TagIs
<1>6. \E g : Sound(Append(log, x), g) /\ Removes(e, g, c)
  BY <1>1, <1>4, <1>5, DropIs
<1>7. log \o <<x>> = Append(log, x)
  BY <1>1, <1>5, ConcatAppend
<1> QED BY <1>4, <1>5, <1>6, <1>7 DEF RemoveAttrs

LEMMA SyncTold ==
    ASSUME NEW log, NEW e, Sound(log, e), NEW c \in Int, NameOf(e, c) # None, NEW s \in Structs
    PROVE  c \in Nat /\ \E g : Sound(log \o <<Tag("STRUCT", c, s)>>, g) /\ Fills(e, g, c, s)
<1>1. log \in Seq(Tags) /\ e \in Seq(Entry) /\ Len(e) \in Nat
  BY SoundIs
<1>2. c \in 0..Len(e) - 1
  BY <1>1, EntriesAre
<1>3. c \in Nat /\ c < Len(e)
  BY <1>1, <1>2
<1>4. PICK x : x = Tag("STRUCT", c, s) /\ x \in Tags
  BY <1>3, TagIs
<1>5. \E g : Sound(Append(log, x), g) /\ Fills(e, g, c, s)
  BY <1>3, <1>4, FillIs
<1>6. log \o <<x>> = Append(log, x)
  BY <1>1, <1>4, ConcatAppend
<1> QED BY <1>3, <1>4, <1>5, <1>6

Add(a, x, y, z, d) == Append(Append(Append(Append(a, x), y), z), d)

LEMMA AddTwo ==
    ASSUME NEW a \in Seq(Tags), NEW x \in Tags, NEW y \in Tags
    PROVE  a \o <<x, y>> = Append(Append(a, x), y)
<1>1. PICK p, u : p = <<x>> /\ u = <<x, y>>
  OBVIOUS
<1>2. p \in Seq(Tags) /\ u = Append(p, y)
  BY <1>1
<1>3. a \o p = Append(a, x)
  BY <1>1, ConcatAppend
<1>4. a \o Append(p, y) = Append(a \o p, y)
  BY <1>2, ConcatAppend
<1> QED BY <1>1, <1>2, <1>3, <1>4

(* The log w stands for the entries e with a renamed to b.                 *)
Becomes(w, e, a, b, s) ==
    \E g : /\ Sound(w, g)
           /\ Has(g, b, s) /\ \A t : ~Has(g, a, t)
           /\ \A m \in Names : m \notin {a, b} => \A t : Has(e, m, t) <=> Has(g, m, t)

(* An entry is put under its new name and taken away under the old one.    *)
LEMMA PutAndDrop ==
    ASSUME NEW log, NEW e, Sound(log, e), FewNames, Len(e) + 1 < NoId,
           NEW c \in Nat, c <= Len(e), NEW a \in Names, NEW b \in Names, a # b, NEW s \in Structs, Slot(e, c, b),
           NEW x, x = Tag("CREATE", c, None), NEW y, y = Tag("NAME", c, b), NEW z, z = Tag("STRUCT", c, s),
           NEW o \in Nat, NameOf(e, o) = a,
           NEW j \in Nat, j = IF o < c THEN o ELSE o + 1, NEW d, d = Tag("DELETE", j, None)
    PROVE  Becomes(Add(log, x, y, z, d), e, a, b, s)
<1>1. PICK w : w = Append(Append(Append(log, x), y), z)
  OBVIOUS
<1>2. PICK f : Sound(w, f) /\ Puts(e, f, c, b, s)
  BY <1>1, AddIs
<1>3. f \in Seq(Entry) /\ Ordered(f) /\ Len(f) \in Nat /\ Len(f) < NoId
  BY <1>2, SoundIs
<1>4. NameOf(f, j) = a
  <2>1. CASE o < c
    BY <1>2, <2>1 DEF Puts
  <2>2. CASE ~(o < c)
    <3>1. j = o + 1 /\ ~(j < c) /\ j # c /\ j - 1 = o
      BY <2>2
    <3> QED BY <1>2, <3>1 DEF Puts
  <2> QED BY <2>1, <2>2
<1>5. j < Len(f)
  <2>1. a # None
    BY PairAssumption DEF None
  <2>2. j \in Int /\ NameOf(f, j) # None
    BY <1>4, <2>1
  <2>3. j \in 0..Len(f) - 1
    BY <1>3, <2>2, EntriesAre
  <2> QED BY <1>3, <2>3
<1>6. PICK g : Sound(Append(w, d), g) /\ Removes(f, g, j)
  BY <1>2, <1>3, <1>5, DropIs
<1>7. Has(f, b, s) /\ Alters(e, f, b)
  BY <1>2, PutsHas
<1>8. Alters(f, g, a) /\ \A t : ~Has(g, a, t)
  BY <1>3, <1>4, <1>6, RemovesHas
<1>9. Has(g, b, s)
  BY <1>7, <1>8 DEF Alters
<1>10. \A m \in Names : m \notin {a, b} => \A t : Has(e, m, t) <=> Has(g, m, t)
  BY <1>7, <1>8 DEF Alters
<1> QED BY <1>1, <1>6, <1>8, <1>9, <1>10 DEF Becomes, Add

LEMMA RenameTold ==
    ASSUME FewNames, NEW log, NEW e, Sound(log, e), NEW a \in Names, NEW b \in Names, a # b,
           FindName(log, a).valid
    PROVE  \E s : Has(e, a, s) /\ Becomes(log \o RenameAttrs(log, a, b), e, a, b, s)
<1>1. log \in Seq(Tags) /\ e \in Seq(Entry) /\ Len(e) + 1 < NoId /\ Len(e) < NoId /\ Mid(log, e, {})
      /\ Len(e) \in Nat /\ Ordered(e)
  BY SoundIs
<1>2. PICK o : o = FindName(log, a).id
  OBVIOUS
<1>3. o \in Nat /\ o < Len(e) /\ NameOf(e, o) = a
  BY <1>2, RemoveTold
<1>4. PICK c, v : c = FindName(log, b).id /\ v = FindName(log, b).valid
  OBVIOUS
<1>5. Finds(e, c, v, b)
  BY <1>1, <1>4, FindNameFinds
<1>6. c \in Nat /\ c <= Len(e)
  BY <1>5 DEF Finds
<1>7. PICK s : s = StructOf(e, o)
  OBVIOUS
<1>8. MovedTags(log, o, c) = <<Tag("STRUCT", c, s)>> /\ s \in Structs
  BY <1>3, <1>6, <1>7, MovedIs
<1>9. Has(e, a, s)
  BY <1>3, <1>7 DEF Has
<1>10. PICK j : j = IF ~v /\ c <= o THEN o + 1 ELSE o
  OBVIOUS
<1>11. j \in Nat
  BY <1>3, <1>10
<1>12. PICK x, y, z, d, p : /\ x = Tag("CREATE", c, None) /\ y = Tag("NAME", c, b) /\ z = Tag("STRUCT", c, s)
                            /\ d = Tag("DELETE", j, None) /\ p = Tag("DELETE", c, None)
  OBVIOUS
<1>13. x \in Tags /\ y \in Tags /\ z \in Tags /\ d \in Tags /\ p \in Tags
  BY <1>6, <1>8, <1>11, <1>12, TagIs
<1>14. PICK h : h = IF v THEN <<p>> ELSE <<>>
  OBVIOUS
<1>15. RenameAttrs(log, a, b) = ((h \o <<x, y>>) \o <<z>>) \o <<d>>
  BY <1>2, <1>4, <1>8, <1>10, <1>12, <1>14 DEF RenameAttrs
<1>16. h \in Seq(Tags)
  BY <1>13, <1>14, EmptySeq
<1>17. log \o RenameAttrs(log, a, b) = Add(log \o h, x, y, z, d)
  <2>1. PICK a2, a3, k : a2 = h \o <<x, y>> /\ a3 = a2 \o <<z>> /\ k = a3 \o <<d>>
    OBVIOUS
  <2>2. PICK h1 : h1 = Append(h, x) /\ h1 \in Seq(Tags)
    BY <1>13, <1>16, AppendProperties
  <2>3. a2 = Append(h1, y)
    BY <1>13, <1>16, <2>1, <2>2, AddTwo
  <2>4. a2 \in Seq(Tags)
    BY <1>13, <2>2, <2>3, AppendProperties
  <2>5. a3 = Append(a2, z)
    BY <1>13, <2>1, <2>4, ConcatAppend
  <2>6. a3 \in Seq(Tags)
    BY <1>13, <2>4, <2>5, AppendProperties
  <2>7. k = Append(a3, d)
    BY <1>13, <2>1, <2>6, ConcatAppend
  <2>8. log \o h1 = Append(log \o h, x) /\ log \o a2 = Append(log \o h1, y)
    BY <1>1, <1>13, <1>16, <2>2, <2>3, ConcatAppend
  <2>9. log \o a3 = Append(log \o a2, z)
    BY <1>1, <1>13, <2>4, <2>5, ConcatAppend
  <2>10. log \o k = Append(log \o a3, d)
    BY <1>1, <1>13, <2>6, <2>7, ConcatAppend
  <2>11. log \o k = Add(log \o h, x, y, z, d)
    BY <2>8, <2>9, <2>10 DEF Add
  <2> QED BY <1>15, <2>1, <2>11
<1>18. \A q \in Int : NameOf(e, q) \in Nat /\ b \in Nat
  BY <1>1, EntriesAre, PairAssumption
<1>19. CASE ~v
  <2>1. log \o h = log
    <3>1. h = <<>>
      BY <1>14, <1>19
    <3> QED BY <1>1, <3>1, ConcatEmptySeq
  <2>2. Slot(e, c, b)
    <3>1. ASSUME NEW q \in Int, NameOf(e, q) # None
          PROVE  (q < c /\ NameOf(e, q) < b) \/ (q >= c /\ NameOf(e, q) > b)
      <4>1. PICK m \in Nat : m = NameOf(e, q)
        BY <1>18
      <4>2. m # b
        BY <1>5, <1>19, <4>1 DEF Finds
      <4>3. m < b => q < c
        BY <1>5, <3>1, <4>1 DEF Finds
      <4>4. m > b => q >= c
        BY <1>5, <3>1, <4>1 DEF Finds
      <4>5. b \in Nat
        BY PairAssumption
      <4> QED BY <4>1, <4>2, <4>3, <4>4, <4>5
    <3> QED BY <3>1 DEF Slot
  <2>3. j = IF o < c THEN o ELSE o + 1
    BY <1>3, <1>6, <1>10, <1>19
  <2>4. Becomes(Add(log, x, y, z, d), e, a, b, s)
    BY <1>1, <1>3, <1>6, <1>8, <1>11, <1>12, <2>2, <2>3, PutAndDrop
  <2> QED BY <1>9, <1>17, <2>1, <2>4
<1>20. CASE v
  <2>1. c < Len(e) /\ NameOf(e, c) = b
    BY <1>5, <1>20 DEF Finds
  <2>2. log \o h = Append(log, p)
    <3>1. h = <<p>>
      BY <1>14, <1>20
    <3> QED BY <1>1, <1>13, <3>1, ConcatAppend
  <2>3. PICK f : Sound(Append(log, p), f) /\ Removes(e, f, c)
    BY <1>1, <1>6, <1>12, <2>1, DropIs
  <2>4. Alters(e, f, b) /\ \A t : ~Has(f, b, t)
    BY <1>1, <1>6, <2>1, <2>3, RemovesHas
  <2>5. Len(f) = Len(e) - 1
    BY <2>3 DEF Removes
  <2>6. c <= Len(f) /\ Len(f) + 1 < NoId
    BY <1>1, <1>6, <2>1, <2>5 DEF NoId
  <2>7. b # None
    BY PairAssumption DEF None
  <2>8. Slot(f, c, b)
    <3>1. ASSUME NEW q \in Int, NameOf(f, q) # None
          PROVE  (q < c /\ NameOf(f, q) < b) \/ (q >= c /\ NameOf(f, q) > b)
      <4>1. CASE q < c
        <5>1. NameOf(f, q) = NameOf(e, q)
          BY <2>3, <4>1 DEF Removes
        <5>2. NameOf(e, q) < NameOf(e, c)
          BY <1>1, <1>6, <2>1, <2>7, <3>1, <4>1, <5>1 DEF Ordered
        <5> QED BY <2>1, <4>1, <5>1, <5>2
      <4>2. CASE ~(q < c)
        <5>1. PICK k \in Int : k = q + 1
          OBVIOUS
        <5>2. NameOf(f, q) = NameOf(e, k)
          BY <2>3, <4>2, <5>1 DEF Removes
        <5>3. c < k
          BY <1>6, <4>2, <5>1
        <5>4. NameOf(e, c) < NameOf(e, k)
          BY <1>1, <1>6, <2>1, <2>7, <3>1, <5>2, <5>3 DEF Ordered
        <5>5. q >= c
          BY <1>6, <4>2
        <5>6. PICK m \in Nat : m = NameOf(e, k)
          BY <1>18
        <5>7. m > b
          BY <2>1, <5>4, <5>6
        <5> QED BY <5>2, <5>5, <5>6, <5>7
      <4> QED BY <4>1, <4>2
    <3> QED BY <3>1 DEF Slot
  <2>9. o # c
    BY <1>3, <2>1
  <2>10. PICK i \in Nat : i = IF o < c THEN o ELSE o - 1
    <3>1. CASE o < c
      BY <1>3, <3>1
    <3>2. CASE ~(o < c)
      <4>1. o - 1 \in Nat
        BY <1>3, <1>6, <2>9, <3>2
      <4> QED BY <3>2, <4>1
    <3> QED BY <3>1, <3>2
  <2>11. NameOf(f, i) = a
    <3>1. CASE o < c
      BY <1>3, <2>3, <2>10, <3>1 DEF Removes
    <3>2. CASE ~(o < c)
      <4>1. ~(i < c) /\ i + 1 = o
        BY <1>3, <1>6, <2>9, <2>10, <3>2
      <4> QED BY <1>3, <2>3, <4>1 DEF Removes
    <3> QED BY <3>1, <3>2
  <2>12. j = IF i < c THEN i ELSE i + 1
    BY <1>3, <1>6, <1>10, <1>20, <2>9, <2>10
  <2>13. PICK u : u = Append(log, p)
    OBVIOUS
  <2>14. Becomes(Add(u, x, y, z, d), f, a, b, s)
    BY <1>6, <1>8, <1>11, <1>12, <2>3, <2>6, <2>8, <2>11, <2>12, <2>13, PutAndDrop
  <2>15. PICK g : /\ Sound(Add(u, x, y, z, d), g)
                  /\ Has(g, b, s) /\ \A t : ~Has(g, a, t)
                  /\ \A m \in Names : m \notin {a, b} => \A t : Has(f, m, t) <=> Has(g, m, t)
    BY <2>14 DEF Becomes
  <2>16. \A m \in Names : m \notin {a, b} => \A t : Has(e, m, t) <=> Has(g, m, t)
    BY <2>4, <2>15 DEF Alters
  <2> QED BY <1>9, <1>17, <2>2, <2>13, <2>15, <2>16 DEF Becomes
<1> QED BY <1>19, <1>20

(***************************************************************************)
(* What lfs.c finds in a sound log.                                        *)
(***************************************************************************)
LEMMA SoundReads ==
    ASSUME NEW log, NEW e, Sound(log, e), NEW q \in Nat
    PROVE  GetTag(log, "NAME", q) = NameOf(e, q) /\ GetTag(log, "STRUCT", q) = StructOf(e, q)
BY DEF Sound, Mid, ReadsAre, GetTag, Start

Agrees(log, ents) ==
    /\ Count(log) = Len(ents)
    /\ \A i \in DOMAIN ents :
        /\ GetTag(log, "NAME", i - 1) = ents[i].name
        /\ GetTag(log, "STRUCT", i - 1) = ents[i].struct
    /\ \A n \in Names :
        LET found == FindName(log, n)
            below == {i \in DOMAIN ents : ents[i].name < n}
        IN  /\ found.valid <=> \E i \in DOMAIN ents : ents[i].name = n
            /\ found.id = Cardinality(below)

LEMMA SoundAgrees ==
    ASSUME NEW log, NEW e, Sound(log, e)
    PROVE  Agrees(log, e)
<1>1. log \in Seq(Tags) /\ e \in Seq(Entry) /\ Count(log) = Len(e) /\ Mid(log, e, {}) /\ Named(e)
  BY SoundIs
<1>2. PICK l \in Nat : l = Len(e) /\ DOMAIN e = 1..l
  BY <1>1, LenProperties
<1>3. ASSUME NEW i \in 1..l
      PROVE  i - 1 \in 0..l - 1 /\ e[i].name = NameOf(e, i - 1) /\ e[i].struct = StructOf(e, i - 1)
  <2>1. i - 1 \in 0..l - 1 /\ (i - 1) + 1 = i
    BY <1>2
  <2> QED BY <1>2, <2>1 DEF NameOf, StructOf
<1>4. ASSUME NEW i \in 1..l
      PROVE  GetTag(log, "NAME", i - 1) = e[i].name /\ GetTag(log, "STRUCT", i - 1) = e[i].struct
  <2>1. i - 1 \in Nat
    BY <1>2
  <2> QED BY <1>3, <2>1, SoundReads
<1>5. ASSUME NEW n \in Names
      PROVE  /\ FindName(log, n).valid <=> \E i \in 1..l : e[i].name = n
             /\ FindName(log, n).id = Cardinality({i \in 1..l : e[i].name < n})
  <2>0. PICK id, v : id = FindName(log, n).id /\ v = FindName(log, n).valid
    OBVIOUS
  <2>1. Finds(e, id, v, n)
    BY <1>1, <2>0, FindNameFinds
  <2>2. id \in Nat /\ id <= l
    BY <1>2, <2>1 DEF Finds
  <2>3. ASSUME v PROVE \E i \in 1..l : e[i].name = n
    <3>1. id < l /\ NameOf(e, id) = n
      BY <1>2, <2>1, <2>3 DEF Finds
    <3>2. id + 1 \in 1..l /\ (id + 1) - 1 = id
      BY <1>2, <2>2, <3>1
    <3> QED BY <1>3, <3>1, <3>2
  <2>4. ASSUME NEW i \in 1..l, e[i].name = n PROVE v
    <3>1. i - 1 \in Int /\ NameOf(e, i - 1) = n
      BY <1>3, <2>4
    <3> QED BY <2>1, <3>1 DEF Finds
  <2>5. ASSUME NEW i \in 1..l PROVE e[i].name < n <=> i \in 1..id
    <3>1. PICK p \in Int : p = i - 1 /\ p \in 0..l - 1
      BY <1>2
    <3>2. PICK m \in Nat : m = NameOf(e, p) /\ m = e[i].name /\ m # None
      <4>1. NameOf(e, p) # None
        BY <1>1, <1>2, <3>1 DEF Named
      <4> QED BY <1>1, <1>3, <3>1, <4>1, EntriesAre
    <3>3. n \in Nat
      BY PairAssumption
    <3>4. m < n => p < id
      BY <2>1, <3>2 DEF Finds
    <3>5. m > n => p >= id
      BY <2>1, <3>2 DEF Finds
    <3>6. m = n => p = id
      BY <2>1, <3>2 DEF Finds
    <3> QED BY <2>2, <3>1, <3>2, <3>3, <3>4, <3>5, <3>6
  <2>6. {i \in 1..l : e[i].name < n} = 1..id
    <3>1. 1..id \subseteq 1..l
      BY <1>2, <2>2
    <3> QED BY <2>5, <3>1
  <2>7. Cardinality(1..id) = id
    <3>1. 1 \in Int /\ id \in Int
      BY <2>2
    <3>2. Cardinality(1..id) = IF 1 > id THEN 0 ELSE id - 1 + 1
      BY <3>1, FS_Interval
    <3> QED BY <2>2, <3>2
  <2>8. v \in BOOLEAN
    <3>1. BestMatch(log, n) \in Bests
      BY <1>1 DEF Mid, SearchOk
    <3>2. v = BestMatch(log, n).valid
      BY <1>1, <2>0, FindNameIs
    <3> QED BY <3>1, <3>2 DEF Bests
  <2>9. v <=> \E i \in 1..l : e[i].name = n
    BY <2>3, <2>4, <2>8
  <2> QED BY <2>0, <2>6, <2>7, <2>9
<1>6. ASSUME NEW n \in Names
      PROVE  LET found == FindName(log, n)
                 below == {i \in DOMAIN e : e[i].name < n}
             IN  /\ found.valid <=> \E i \in DOMAIN e : e[i].name = n
                 /\ found.id = Cardinality(below)
  BY <1>2, <1>5
<1>7. \A i \in DOMAIN e : /\ GetTag(log, "NAME", i - 1) = e[i].name
                         /\ GetTag(log, "STRUCT", i - 1) = e[i].struct
  BY <1>2, <1>4
<1> QED BY <1>1, <1>6, <1>7 DEF Agrees

LEMMA DirectoryTyped ==
    ASSUME NEW d, NEW e, Lists(d, e)
    PROVE  d \in UNION {[S -> Structs] : S \in SUBSET Names}
<1>1. PICK S : S = DOMAIN d /\ S \in SUBSET Names
  BY DEF Lists
<1>2. ASSUME NEW m \in S PROVE d[m] \in Structs
  <2>1. PICK t : Has(e, m, t)
    BY <1>1 DEF Lists
  <2> QED BY <1>1, <2>1 DEF Lists
<1>3. d = [m \in S |-> d[m]]
  BY <1>1 DEF Lists
<1>4. d \in [S -> Structs]
  BY <1>2, <1>3
<1> QED BY <1>1, <1>4

-----------------------------------------------------------------------------
(* Of the blocks f, the one of the pair p that a fetch reads.              *)
Best(f, p) ==
    LET first == IF Newer(f[p[2]].rev, f[p[1]].rev) THEN p[2] ELSE p[1]
        other == IF Newer(f[p[2]].rev, f[p[1]].rev) THEN p[1] ELSE p[2]
    IN  IF f[first].used > 0 THEN first ELSE other

LEMMA FetchIsBest ==
    ASSUME NEW p \in Blocks \X Blocks
    PROVE  /\ Fetch(p).pair \in Blocks \X Blocks
           /\ Fetch(p).pair[1] = Best(flash, p)
           /\ {Fetch(p).pair[1], Fetch(p).pair[2]} = {p[1], p[2]}
           /\ Fetch(p).pair[2] = IF Fetch(p).pair[1] = p[1] THEN p[2] ELSE p[1]
           /\ Fetch(p) = [pair |-> Fetch(p).pair, rev |-> flash[Best(flash, p)].rev,
                          off |-> flash[Best(flash, p)].used,
                          erased |-> ~flash[Best(flash, p)].torn]
BY DEF Fetch, Best

LEMMA BestInPair ==
    ASSUME NEW f, NEW p PROVE Best(f, p) \in {p[1], p[2]}
BY DEF Best

(* A block of which neither the revision nor the presence of a commit      *)
(* changes is read as before.                                              *)
LEMMA BestStays ==
    ASSUME NEW f, NEW g, NEW p,
           \A b \in {p[1], p[2]} : g[b].rev = f[b].rev /\ (g[b].used > 0 <=> f[b].used > 0)
    PROVE  Best(g, p) = Best(f, p)
BY DEF Best

(* A block without a commit is not read while the other has one.           *)
LEMMA BestHasCommit ==
    ASSUME NEW f, NEW p, NEW a, NEW t, {p[1], p[2]} = {a, t}, a # t,
           f[a].used > 0, ~(f[t].used > 0)
    PROVE  Best(f, p) = a
BY DEF Best

(* Of two blocks with a commit the newer one is read.                      *)
LEMMA BestIsNewer ==
    ASSUME NEW f, NEW p, NEW a, NEW t, {p[1], p[2]} = {a, t}, a # t,
           f[t].used > 0, Newer(f[t].rev, f[a].rev), ~Newer(f[a].rev, f[t].rev)
    PROVE  Best(f, p) = t
BY DEF Best

LEMMA ModIsInRange ==
    ASSUME NEW n \in Int PROVE n % Revs \in 0..(Revs - 1)
BY PairAssumption

LEMMA NextIsNewer ==
    ASSUME NEW r \in 0..(Revs - 1), NEW s, s = (r + 1) % Revs
    PROVE  s \in 0..(Revs - 1) /\ Newer(s, r) /\ ~Newer(r, s)
<1>1. Revs \in Nat /\ Revs >= 4 /\ Revs \div 2 \in Nat /\ Revs \div 2 > 1 /\ Revs \div 2 <= Revs - 1
  BY PairAssumption
<1>2. s = IF r = Revs - 1 THEN 0 ELSE r + 1
  <2>1. CASE r = Revs - 1
    BY <1>1, <2>1
  <2>2. CASE r # Revs - 1
    <3>1. r + 1 \in 0..(Revs - 1)
      BY <1>1, <2>2
    <3> QED BY <1>1, <2>2, <3>1
  <2> QED BY <2>1, <2>2
<1>3. (s - r) % Revs = 1
  <2>1. CASE r = Revs - 1
    <3>1. s - r = 1 - Revs
      BY <1>1, <1>2, <2>1
    <3>2. (1 - Revs) % Revs = 1
      BY <1>1
    <3> QED BY <3>1, <3>2
  <2>2. CASE r # Revs - 1
    <3>1. s - r = 1
      BY <1>1, <1>2, <2>2
    <3> QED BY <1>1, <3>1
  <2> QED BY <2>1, <2>2
<1>4. (r - s) % Revs = Revs - 1
  <2>1. CASE r = Revs - 1
    <3>1. r - s = Revs - 1
      BY <1>1, <1>2, <2>1
    <3> QED BY <1>1, <3>1
  <2>2. CASE r # Revs - 1
    <3>1. r - s = -1
      BY <1>1, <1>2, <2>2
    <3>2. (-1) % Revs = Revs - 1
      BY <1>1
    <3> QED BY <3>1, <3>2
  <2> QED BY <2>1, <2>2
<1> QED BY <1>1, <1>2, <1>3, <1>4 DEF Newer

-----------------------------------------------------------------------------
(* The inductive invariant.                                                *)
IsBlock(r) ==
    /\ r = [rev |-> r.rev, log |-> r.log, used |-> r.used, torn |-> r.torn, dir |-> r.dir]
    /\ r.rev \in 0..(Revs - 1)
    /\ r.used \in Nat
    /\ r.torn \in BOOLEAN
    /\ r.log \in Seq(Tags)
    /\ r.dir = Directory(Replay(r.log))

Mdirs == [pair : (Blocks \X Blocks) \cup {NullPair}, rev : 0..(Revs - 1), off : Nat,
          erased : BOOLEAN]

Pair == {ptr[1], ptr[2]}

Here == Best(flash, ptr)

NextTo(b) == (flash[b].rev + 1) % Revs

(* A commit to the superblock's pair that can not leave its active block.  *)
Stuck(b) == super /\ b \in bad

Doing == {D!Put(n, s) : n \in Names, s \in Structs}
         \cup {D!Remove(n) : n \in Names}
         \cup {D!Rename(a, b) : a \in Names, b \in Names}

FlashIs ==
    /\ flash = [b \in Blocks |-> flash[b]]
    /\ \A b \in Blocks : IsBlock(flash[b])

PtrIs ==
    /\ ptr \in Blocks \X Blocks
    /\ ptr[1] # ptr[2]
    /\ super \in BOOLEAN
    /\ flash[Here].used > 0

OfPair(d) ==
    /\ d.pair \in Blocks \X Blocks
    /\ d.pair[1] = Here
    /\ d.pair[1] # d.pair[2]
    /\ {d.pair[1], d.pair[2]} = Pair

(* An open file whose entry is there has a copy of the pair, of which the  *)
(* revision may be wrong in the superblock's pair when it is stuck.        *)
FileIs(f) ==
    \/ f = Closed
    \/ /\ f = [open |-> TRUE, m |-> f.m, id |-> f.id, name |-> f.name]
       /\ f.m \in Mdirs
       /\ f.name \in Names \cup {None}
       /\ f.id \in Int
       /\ \/ f.m.pair = NullPair
          \/ /\ OfPair(f.m)
             /\ f.name \in Names
             /\ f.m.rev = flash[Here].rev \/ Stuck(f.m.pair[2])

FilesAre ==
    /\ files = [h \in Handles |-> files[h]]
    /\ \A h \in Handles : FileIs(files[h])

Phases == {"Append", "Compact", "Relocate", "Erase", "Write", "Relink"}

(* What a commit has in hand.                                              *)
CommitHas(c) ==
    /\ c = [phase |-> c.phase, dir |-> c.dir, attrs |-> c.attrs, file |-> c.file, n |-> c.n,
            appended |-> c.appended, compacted |-> c.compacted,
            relocated |-> c.relocated, tried |-> c.tried]
    /\ c.phase \in Phases
    /\ c.dir \in Mdirs
    /\ c.dir.pair \in Blocks \X Blocks
    /\ c.dir.pair[1] # c.dir.pair[2]
    /\ c.file \in Handles \cup {NoFile}
    /\ c.n \in Nat
    /\ IsBlock(c.appended) /\ c.appended.used > 0
    /\ IsBlock(c.compacted) /\ c.compacted.used > 0
    /\ c.relocated \in BOOLEAN

(* Where it is: which block it reads, which it writes and which revision   *)
(* that gets.                                                              *)
CommitAt(c) ==
    LET active == c.dir.pair[1]
        target == c.dir.pair[2]
    IN  /\ IF c.phase = "Relink"
           THEN /\ target = Here /\ active \notin Pair
                /\ flash[active] = c.compacted
                /\ c.relocated
           ELSE active = Here
        /\ IF c.relocated
           THEN /\ ~super /\ c.phase \in {"Erase", "Write", "Relocate", "Relink"}
                /\ c.phase \in {"Erase", "Write"} => target \notin Pair
           ELSE {active, target} = Pair
        /\ c.phase = "Relocate" =>
                target \in bad \cup Pair /\ (super => target \in bad)
        /\ c.tried \subseteq bad \cup Pair
        /\ c.appended.rev = flash[Here].rev
        /\ c.compacted.rev = NextTo(Here) \/ Stuck(target)
        /\ \/ c.dir.rev = IF c.phase \in {"Append", "Compact"} THEN flash[Here].rev ELSE NextTo(Here)
           \/ Stuck(target)
        /\ c.file # NoFile => /\ files[c.file] # Closed
                              /\ files[c.file].m.pair # NullPair

CommitIs == commit = NoCommit \/ (CommitHas(commit) /\ CommitAt(commit))

BadIs == bad \subseteq Blocks /\ IsFiniteSet(bad) /\ Cardinality(bad) <= MaxBad

TaskIs == IF commit = NoCommit THEN task \in D!Idle ELSE task \in Doing

PairInv == FlashIs /\ PtrIs /\ FilesAre /\ CommitIs /\ BadIs /\ TaskIs

(* There is always a block left to move to.                                *)
SpareBlocks == MaxBad \in Nat /\ IsFiniteSet(Blocks) /\ Cardinality(Blocks) > MaxBad + 2

(* What a commit is about to write, behind the log or in the other block,  *)
(* is the directory with what was asked for done to it: the tags of the    *)
(* operation, and what a compaction keeps of them (lfs_dir_traverse).      *)
CommitsMeanTheirTask ==
    commit # NoCommit =>
        /\ commit.appended.dir = D!Effect(OnFlash, task)
        /\ commit.compacted.dir = D!Effect(OnFlash, task)

Meaning ==
    /\ OnFlash \in UNION {[S -> Structs] : S \in SUBSET Names}
    /\ LookupsAgree
    /\ HandlesFollow
    /\ CommitsMeanTheirTask

(* The entries that are read, and those a commit is about to leave.        *)
Ents  == Replay(flash[Here].log)
After == Replay(commit.appended.log)

AllSound == \A b \in Blocks : Sound(flash[b].log, Replay(flash[b].log))

(* A file has the id of its entry among e, or no entry.                    *)
Sits(f, e) ==
    f.open => IF f.name = None THEN f.m.pair = NullPair
              ELSE f.m.pair # NullPair /\ NameOf(e, f.id) = f.name

FilesSit == commit = NoCommit => \A h \in Handles : Sits(files[h], Ents)

(* A file is where it was while a commit goes on, except one that is being *)
(* created.                                                                *)
Splices == \E i \in DOMAIN commit.attrs : IsSplice(commit.attrs[i])

Stays(h) == (commit.file = h /\ Splices) \/ Sits(files[h], Ents)

(* What the end of the commit makes of it is right among the entries it    *)
(* leaves.                                                                 *)
NameThen(h) == IF commit.file = h THEN files[h].name ELSE Renamed(files[h].name)

IdThen(h) ==
    IF files[h].id > Deleted THEN files[h].id - 1
    ELSE IF h # commit.file /\ files[h].id >= Created THEN files[h].id + 1
    ELSE files[h].id

Lands(h) ==
    files[h].open =>
        IF files[h].m.pair = NullPair THEN files[h].name = None
        ELSE IF files[h].id = Deleted THEN NameThen(h) = None
        ELSE NameThen(h) # None /\ NameOf(After, IdThen(h)) = NameThen(h)

CommitMeans ==
    commit # NoCommit =>
        /\ Sound(commit.appended.log, After) /\ Sound(commit.compacted.log, After)
        /\ commit.appended.dir = D!Effect(OnFlash, task)
        /\ \A h \in Handles : Stays(h) /\ Lands(h)

LogInv == AllSound /\ FilesSit /\ CommitMeans

(* One commit, further on.                                                 *)
SameTask(c, e) ==
    e.attrs = c.attrs /\ e.file = c.file /\ e.appended = c.appended /\ e.compacted = c.compacted

-----------------------------------------------------------------------------
LEMMA PairIsHere ==
    ASSUME PairInv
    PROVE  /\ Here \in Pair /\ Here \in Blocks /\ Pair \subseteq Blocks
           /\ Fetch(ptr) \in Mdirs /\ OfPair(Fetch(ptr)) /\ Fetch(ptr).rev = flash[Here].rev
           /\ Fetch(ptr).erased = ~flash[Here].torn
           /\ OnFlash = flash[Here].dir
           /\ Log(Fetch(ptr)) = flash[Here].log
<1>1. ptr \in Blocks \X Blocks /\ ptr[1] # ptr[2] /\ IsBlock(flash[Here])
  BY BestInPair DEF PairInv, PtrIs, FlashIs, Here
<1>2. Here \in Pair /\ Here \in Blocks /\ Pair \subseteq Blocks
  BY <1>1, BestInPair DEF Here, Pair
<1>3. /\ Fetch(ptr).pair \in Blocks \X Blocks
      /\ Fetch(ptr).pair[1] = Here
      /\ {Fetch(ptr).pair[1], Fetch(ptr).pair[2]} = {ptr[1], ptr[2]}
      /\ Fetch(ptr) = [pair |-> Fetch(ptr).pair, rev |-> flash[Here].rev,
                       off |-> flash[Here].used, erased |-> ~flash[Here].torn]
  BY <1>1, FetchIsBest DEF Here
<1>4. Fetch(ptr) \in Mdirs
  <2>1. flash[Here].rev \in 0..(Revs - 1) /\ flash[Here].used \in Nat /\ (~flash[Here].torn) \in BOOLEAN
    BY <1>1 DEF IsBlock
  <2>2. PICK d : d = Fetch(ptr)
    OBVIOUS
  <2>3. PICK e \in BOOLEAN : e = ~flash[Here].torn
    OBVIOUS
  <2>4. d = [pair |-> d.pair, rev |-> flash[Here].rev, off |-> flash[Here].used, erased |-> e]
    BY <1>3, <2>2, <2>3
  <2>5. d.pair \in Blocks \X Blocks
    BY <1>3, <2>2
  <2> QED BY <2>1, <2>2, <2>4, <2>5 DEF Mdirs
<1>5. OfPair(Fetch(ptr))
  BY <1>1, <1>3 DEF OfPair, Pair
<1> QED BY <1>2, <1>3, <1>4, <1>5 DEF OnFlash, Log

LEMMA HereIsSound ==
    ASSUME PairInv, LogInv
    PROVE  /\ Sound(flash[Here].log, Ents) /\ Here \in Blocks /\ OnFlash = Directory(Ents)
           /\ Lists(OnFlash, Ents) /\ Log(Fetch(ptr)) = flash[Here].log
           /\ \A h \in Handles : files[h].open /\ files[h].m.pair # NullPair =>
                  Log(files[h].m) = flash[Here].log
<1>1. Here \in Blocks /\ OnFlash = flash[Here].dir /\ Log(Fetch(ptr)) = flash[Here].log
  BY PairIsHere
<1>2. Sound(flash[Here].log, Ents)
  BY <1>1 DEF LogInv, AllSound, Ents
<1>3. OnFlash = Directory(Ents)
  BY <1>1 DEF PairInv, FlashIs, IsBlock, Ents
<1>4. Lists(OnFlash, Ents)
  BY <1>2, <1>3, SoundIs
<1>5. ASSUME NEW h \in Handles, files[h].open, files[h].m.pair # NullPair
      PROVE  Log(files[h].m) = flash[Here].log
  <2>1. FileIs(files[h]) /\ files[h] # Closed
    BY <1>5 DEF PairInv, FilesAre, Closed
  <2>2. OfPair(files[h].m)
    BY <1>5, <2>1 DEF FileIs
  <2> QED BY <2>2 DEF OfPair, Log
<1> QED BY <1>1, <1>2, <1>3, <1>4, <1>5

LEMMA MeaningHolds ==
    ASSUME PairInv, LogInv
    PROVE  Meaning
<1>1. /\ Sound(flash[Here].log, Ents) /\ OnFlash = Directory(Ents) /\ Lists(OnFlash, Ents)
      /\ Log(Fetch(ptr)) = flash[Here].log
  BY HereIsSound
<1>2. OnFlash \in UNION {[S -> Structs] : S \in SUBSET Names}
  BY <1>1, DirectoryTyped
<1>3. LookupsAgree
  <2>1. Agrees(flash[Here].log, Ents)
    BY <1>1, SoundAgrees
  <2>2. Agrees(Log(Fetch(ptr)), Replay(Log(Fetch(ptr))))
    BY <1>1, <2>1 DEF Ents
  <2> QED BY <2>2 DEF LookupsAgree, Agrees
<1>4. HandlesFollow
  <2>1. ASSUME commit = NoCommit, NEW h \in Handles, files[h].open
        PROVE  IF files[h].name = None THEN files[h].m.pair = NullPair
               ELSE /\ files[h].m.pair # NullPair
                    /\ GetTag(Log(files[h].m), "NAME", files[h].id) = files[h].name
    <3>1. Sits(files[h], Ents)
      BY <2>1 DEF LogInv, FilesSit
    <3>2. CASE files[h].name = None
      BY <2>1, <3>1, <3>2 DEF Sits
    <3>3. CASE files[h].name # None
      <4>1. files[h].m.pair # NullPair /\ NameOf(Ents, files[h].id) = files[h].name
        BY <2>1, <3>1, <3>3 DEF Sits
      <4>2. Log(files[h].m) = flash[Here].log
        BY <2>1, <4>1, HereIsSound
      <4>3. files[h].id \in Int
        BY <2>1 DEF PairInv, FilesAre, FileIs, Closed
      <4>4. files[h].id \in Nat
        <5>1. Ents \in Seq(Entry)
          BY <1>1, SoundIs
        <5>2. files[h].id \in 0..Len(Ents) - 1
          BY <3>3, <4>1, <4>3, <5>1, EntriesAre
        <5> QED BY <5>2
      <4>5. GetTag(flash[Here].log, "NAME", files[h].id) = NameOf(Ents, files[h].id)
        BY <1>1, <4>4, SoundReads
      <4> QED BY <3>3, <4>1, <4>2, <4>5
    <3> QED BY <3>2, <3>3
  <2> QED BY <2>1 DEF HandlesFollow, OpenFiles
<1>5. CommitsMeanTheirTask
  <2>1. ASSUME commit # NoCommit PROVE commit.compacted.dir = commit.appended.dir
    <3>1. IsBlock(commit.appended) /\ IsBlock(commit.compacted)
      BY <2>1 DEF PairInv, CommitIs, CommitHas
    <3>2. Replay(commit.compacted.log) = After
      BY <2>1, SoundIs DEF LogInv, CommitMeans
    <3> QED BY <3>1, <3>2 DEF IsBlock, After
  <2> QED BY <2>1 DEF LogInv, CommitMeans, CommitsMeanTheirTask
<1> QED BY <1>2, <1>3, <1>4, <1>5 DEF Meaning

(* The start of a commit.                                                  *)
LEMMA ContentIs ==
    ASSUME NEW rev \in 0..(Revs - 1), NEW log \in Seq(Tags), NEW used \in Nat, NEW torn \in BOOLEAN
    PROVE  /\ IsBlock(Content(rev, log, used, torn))
           /\ Content(rev, log, used, torn).rev = rev
           /\ Content(rev, log, used, torn).log = log
           /\ Content(rev, log, used, torn).used = used
           /\ Content(rev, log, used, torn).torn = torn
           /\ Content(rev, log, used, torn).dir = Directory(Replay(log))
BY DEF Content, IsBlock

LEMMA TornIs ==
    ASSUME NEW rev \in 0..(Revs - 1)
    PROVE  /\ IsBlock(Content(rev, <<>>, 0, TRUE)) /\ Content(rev, <<>>, 0, TRUE).used = 0
           /\ IsBlock(Erased(rev)) /\ Erased(rev).used = 0
           /\ Content(rev, <<>>, 0, TRUE).log = <<>> /\ Erased(rev).log = <<>>
BY EmptySeq DEF Erased, Content, IsBlock

LEMMA UnitsIs ==
    ASSUME NEW log \in Seq(Tags) PROVE UnitsOf(log) \in Nat /\ UnitsOf(log) > 0
BY LenProperties DEF UnitsOf

LEMMA WholeIs ==
    ASSUME NEW rev \in 0..(Revs - 1), NEW log \in Seq(Tags)
    PROVE  /\ IsBlock(Whole(rev, log)) /\ Whole(rev, log).used > 0 /\ Whole(rev, log).rev = rev
           /\ Whole(rev, log).log = log
BY ContentIs, UnitsIs DEF Whole

-----------------------------------------------------------------------------
(* What leaves the block that is read, its revision and the bad blocks     *)
(* alone leaves alone what is known of an open file.                       *)
LEMMA FileStays ==
    ASSUME NEW f, FileIs(f), Here' = Here, UNCHANGED <<ptr, super>>,
           flash'[Here].rev = flash[Here].rev, bad \subseteq bad'
    PROVE  FileIs(f)'
<1>1. Pair' = Pair
  BY DEF Pair
<1>2. CASE f = Closed
  BY <1>2 DEF FileIs
<1>3. CASE f.m.pair = NullPair /\ f # Closed
  BY <1>3 DEF FileIs
<1>4. CASE OfPair(f.m) /\ f.name \in Names /\ (f.m.rev = flash[Here].rev \/ Stuck(f.m.pair[2])) /\ f # Closed
  <2>1. OfPair(f.m)'
    BY <1>1, <1>4 DEF OfPair
  <2>2. (f.m.rev = flash[Here].rev \/ Stuck(f.m.pair[2]))'
    BY <1>4 DEF Stuck
  <2> QED BY <1>4, <2>1, <2>2 DEF FileIs
<1> QED BY <1>2, <1>3, <1>4 DEF FileIs

(* A step of a commit that goes on.                                        *)
LogsKept == \A b \in Blocks : flash'[b].log \in {flash[b].log, <<>>, commit.compacted.log}

Quiet ==
    /\ commit # NoCommit /\ commit' # NoCommit /\ SameTask(commit, commit')
    /\ UNCHANGED <<OnFlash, task, files>>
    /\ flash'[Here'].log = flash[Here].log
    /\ LogsKept

(* Its end.                                                                *)
LogsDone ==
    \A b \in Blocks : flash'[b].log \in {flash[b].log, commit.appended.log, commit.compacted.log}

Finishes ==
    /\ D!Finish /\ commit # NoCommit /\ commit' = NoCommit
    /\ Ents' = After
    /\ \A h \in Handles : Sits(files'[h], After)
    /\ LogsDone

(* Its end with an error.                                                  *)
GivesUp ==
    /\ D!GiveUp /\ commit' = NoCommit
    /\ flash' = flash /\ Here' = Here
    /\ \A h \in Handles : Sits(files'[h], Ents)

LEMMA QuietLog ==
    ASSUME PairInv, LogInv, Quiet
    PROVE  LogInv'
<1>1. Ents' = Ents /\ After' = After
  BY DEF Quiet, SameTask, Ents, After
<1>2. AllSound'
  <2>1. ASSUME NEW b \in Blocks PROVE Sound(flash'[b].log, Replay(flash'[b].log))
    <3>1. PICK s : s = flash'[b].log
      OBVIOUS
    <3>2. CASE s = flash[b].log
      BY <3>1, <3>2 DEF LogInv, AllSound
    <3>3. CASE s = <<>>
      <4>1. Sound(<<>>, Replay(<<>>))
        BY EmptyIsSound, SoundIs
      <4> QED BY <3>1, <3>3, <4>1
    <3>4. CASE s = commit.compacted.log
      <4>1. Sound(s, After)
        BY <3>4 DEF LogInv, CommitMeans, Quiet
      <4>2. After = Replay(s)
        BY <4>1, SoundIs
      <4> QED BY <3>1, <4>1, <4>2
    <3> QED BY <3>1, <3>2, <3>3, <3>4 DEF Quiet, LogsKept
  <2> QED BY <2>1 DEF AllSound
<1>3. FilesSit'
  BY DEF FilesSit, Quiet
<1>4. CommitMeans'
  <2>1. /\ commit'.attrs = commit.attrs /\ commit'.file = commit.file
        /\ commit'.appended = commit.appended /\ commit'.compacted = commit.compacted
        /\ files' = files /\ task' = task /\ OnFlash' = OnFlash
    BY DEF Quiet, SameTask
  <2>2. /\ Sound(commit.appended.log, After) /\ Sound(commit.compacted.log, After)
        /\ commit.appended.dir = D!Effect(OnFlash, task)
    BY DEF LogInv, CommitMeans, Quiet
  <2>3. ASSUME NEW h \in Handles PROVE Stays(h)' /\ Lands(h)'
    <3>1. Stays(h) /\ Lands(h)
      BY DEF LogInv, CommitMeans, Quiet
    <3>2. Stays(h)'
      BY <1>1, <2>1, <3>1 DEF Stays, Splices
    <3>3. Deleted' = Deleted /\ Created' = Created
      BY <2>1 DEF Deleted, Created, LastOf
    <3>4. NameThen(h)' = NameThen(h)
      BY <2>1 DEF NameThen, Renamed
    <3>5. IdThen(h)' = IdThen(h)
      BY <2>1, <3>3 DEF IdThen
    <3>6. Lands(h)'
      BY <1>1, <2>1, <3>1, <3>3, <3>4, <3>5 DEF Lands
    <3> QED BY <3>2, <3>6
  <2>4. Sound(commit.appended.log, After)' /\ Sound(commit.compacted.log, After)'
    BY <1>1, <2>1, <2>2
  <2>5. (commit.appended.dir = D!Effect(OnFlash, task))'
    BY <2>1, <2>2
  <2> QED BY <2>3, <2>4, <2>5 DEF CommitMeans
<1> QED BY <1>2, <1>3, <1>4 DEF LogInv

LEMMA FinishLog ==
    ASSUME PairInv, LogInv, Finishes
    PROVE  LogInv'
<1>1. AllSound'
  <2>1. Sound(commit.appended.log, After) /\ Sound(commit.compacted.log, After)
    BY DEF LogInv, CommitMeans, Finishes
  <2>2. After = Replay(commit.appended.log) /\ After = Replay(commit.compacted.log)
    BY <2>1, SoundIs
  <2>3. ASSUME NEW b \in Blocks PROVE Sound(flash'[b].log, Replay(flash'[b].log))
    <3>1. CASE flash'[b].log = flash[b].log
      BY <3>1 DEF LogInv, AllSound
    <3>2. CASE flash'[b].log = commit.appended.log
      BY <2>1, <2>2, <3>2
    <3>3. CASE flash'[b].log = commit.compacted.log
      BY <2>1, <2>2, <3>3
    <3> QED BY <3>1, <3>2, <3>3 DEF Finishes, LogsDone
  <2> QED BY <2>3 DEF AllSound
<1>2. FilesSit'
  BY DEF FilesSit, Finishes
<1>3. CommitMeans'
  BY DEF CommitMeans, Finishes
<1> QED BY <1>1, <1>2, <1>3 DEF LogInv

LEMMA GiveUpLog ==
    ASSUME PairInv, LogInv, GivesUp
    PROVE  LogInv'
<1>1. AllSound' /\ Ents' = Ents
  BY DEF LogInv, AllSound, Ents, GivesUp
<1>2. FilesSit'
  BY <1>1 DEF FilesSit, GivesUp
<1>3. CommitMeans'
  BY DEF CommitMeans, GivesUp
<1> QED BY <1>1, <1>2, <1>3 DEF LogInv

-----------------------------------------------------------------------------
(* The end of a commit: every open file takes the new copy of the pair, or *)
(* has no entry any more.                                                  *)
LEMMA RenamedIs ==
    ASSUME PairInv, commit # NoCommit, NEW name \in Names \cup {None}
    PROVE  Renamed(name) \in Names \cup {None}
<1>1. task \in Doing
  BY DEF PairInv, TaskIs
<1>2. CASE \E n \in Names, s \in Structs : task = D!Put(n, s)
  BY <1>2 DEF Renamed, D!Put
<1>3. CASE \E n \in Names : task = D!Remove(n)
  BY <1>3 DEF Renamed, D!Remove
<1>4. CASE \E a \in Names, b \in Names : task = D!Rename(a, b)
  BY <1>4 DEF Renamed, D!Rename
<1> QED BY <1>1, <1>2, <1>3, <1>4 DEF Doing

LEMMA DoneIs ==
    ASSUME PairInv, LogInv, commit # NoCommit, NEW dir \in Mdirs, Done(dir),
           OfPair(dir)', (dir.rev = flash[Here].rev \/ Stuck(dir.pair[2]))',
           Here \in {dir.pair[1], dir.pair[2]},
           dir.pair \in Blocks \X Blocks
    PROVE  /\ FilesAre' /\ CommitIs' /\ TaskIs' /\ task' = D!Returned /\ commit' = NoCommit
           /\ \A h \in Handles : Sits(files'[h], After)
<1>1. files' = [h \in Handles |-> UpdateFile(h, dir)] /\ commit' = NoCommit /\ task' = D!Returned
  BY DEF Done
<1>2. ASSUME NEW h \in Handles PROVE FileIs(files[h])' /\ Sits(files'[h], After)
  <2>1. PICK f : f = files[h] /\ FileIs(f) /\ Lands(h)
    BY DEF PairInv, FilesAre, LogInv, CommitMeans
  <2>2. PICK g : g = UpdateFile(h, dir)
    OBVIOUS
  <2>3. files'[h] = g
    BY <1>1, <2>2
  <2>4. CASE f = Closed
    <3>1. g = Closed
      BY <2>1, <2>2, <2>4 DEF UpdateFile, Closed
    <3> QED BY <2>3, <3>1 DEF FileIs, Sits, Closed
  <2>5. CASE f # Closed /\ f.m.pair = NullPair
    <3>1. 0 \notin Blocks
      BY PairAssumption
    <3>2. ~SamePair(f.m.pair, dir.pair)
      BY <2>5, <3>1 DEF SamePair, NullPair
    <3>3. g = f
      BY <2>1, <2>2, <3>2 DEF UpdateFile
    <3>4. f.open => f.name = None
      BY <2>1, <2>5 DEF Lands
    <3>5. Sits(g, After)
      BY <2>5, <3>3, <3>4 DEF Sits
    <3> QED BY <2>1, <2>3, <2>5, <3>3, <3>5 DEF FileIs
  <2>6. CASE f # Closed /\ f.m.pair # NullPair
    <3>1. /\ f = [open |-> TRUE, m |-> f.m, id |-> f.id, name |-> f.name]
          /\ f.m \in Mdirs /\ f.id \in Int /\ OfPair(f.m) /\ f.name \in Names
      BY <2>1, <2>6 DEF FileIs
    <3>2. SamePair(f.m.pair, dir.pair)
      BY <3>1 DEF SamePair, OfPair
    <3>3. PICK named \in Names \cup {None} : /\ named = IF commit.file = h THEN f.name ELSE Renamed(f.name)
                                            /\ named = NameThen(h)
      BY <2>1, <3>1, RenamedIs DEF NameThen
    <3>6. /\ f.id = Deleted => named = None
          /\ f.id # Deleted => named # None /\ NameOf(After, IdThen(h)) = named
      BY <2>1, <2>6, <3>1, <3>3 DEF Lands
    <3>4. CASE f.id = Deleted
      <4>1. g = [f EXCEPT !.m = [dir EXCEPT !.pair = NullPair], !.name = named]
        BY <2>1, <2>2, <3>1, <3>2, <3>3, <3>4 DEF UpdateFile
      <4>2. PICK m : m = [dir EXCEPT !.pair = NullPair]
        OBVIOUS
      <4>3. m \in Mdirs /\ m.pair = NullPair
        <5>1. PICK p \in (Blocks \X Blocks) \cup {NullPair}, r \in 0..(Revs - 1), o \in Nat, e \in BOOLEAN :
                 dir = [pair |-> p, rev |-> r, off |-> o, erased |-> e]
          BY DEF Mdirs
        <5>2. m = [pair |-> NullPair, rev |-> r, off |-> o, erased |-> e]
          BY <4>2, <5>1
        <5> QED BY <5>2 DEF Mdirs
      <4>4. g = [open |-> TRUE, m |-> m, id |-> f.id, name |-> named]
        <5>1. PICK m0, i0, n0 : /\ f = [open |-> TRUE, m |-> m0, id |-> i0, name |-> n0]
                                /\ i0 = f.id
          BY <3>1
        <5> QED BY <4>1, <4>2, <5>1
      <4>5. FileIs(g)'
        BY <3>1, <4>3, <4>4 DEF FileIs
      <4>6. Sits(g, After)
        BY <3>4, <3>6, <4>3, <4>4 DEF Sits
      <4> QED BY <2>3, <4>5, <4>6
    <3>5. CASE f.id # Deleted
      <4>1. PICK id \in Int : id = IF f.id > Deleted THEN f.id - 1
                                   ELSE IF h # commit.file /\ f.id >= Created THEN f.id + 1
                                   ELSE f.id
        BY <3>1
      <4>5. id = IdThen(h)
        BY <2>1, <4>1 DEF IdThen
      <4>2. g = [f EXCEPT !.m = dir, !.name = named, !.id = id]
        BY <2>1, <2>2, <3>1, <3>2, <3>3, <3>5, <4>1 DEF UpdateFile
      <4>3. g = [open |-> TRUE, m |-> dir, id |-> id, name |-> named]
        <5>1. PICK m0, i0, n0 : f = [open |-> TRUE, m |-> m0, id |-> i0, name |-> n0]
          BY <3>1
        <5> QED BY <4>2, <5>1
      <4>4. named # None /\ NameOf(After, id) = named
        BY <3>5, <3>6, <4>5
      <4>6. named \in Names
        BY <4>4
      <4>7. dir.pair # NullPair
        BY PairAssumption DEF NullPair
      <4>8. Sits(g, After)
        BY <4>3, <4>4, <4>7 DEF Sits
      <4> QED BY <2>3, <4>3, <4>6, <4>8 DEF FileIs
    <3> QED BY <3>4, <3>5
  <2> QED BY <2>4, <2>5, <2>6
<1>3. FilesAre'
  BY <1>1, <1>2 DEF FilesAre
<1> QED BY <1>1, <1>2, <1>3 DEF CommitIs, TaskIs, D!Idle

-----------------------------------------------------------------------------
(* The steps of a commit.                                                  *)
LEMMA CommitNow ==
    ASSUME PairInv, commit # NoCommit
    PROVE  /\ CommitHas(commit) /\ CommitAt(commit) /\ task \in Doing
           /\ IsBlock(flash[Here]) /\ Here \in Blocks /\ Here \in Pair
           /\ flash[Here].used > 0
           /\ Active \in Blocks /\ Target \in Blocks /\ Active # Target
BY PairIsHere DEF PairInv, CommitIs, TaskIs, FlashIs, PtrIs, CommitHas, Active, Target

(* A block is changed that is not read, or is read as before.              *)
LEMMA FlashChanges ==
    ASSUME PairInv, NEW b \in Blocks, NEW r, IsBlock(r), flash' = [flash EXCEPT ![b] = r]
    PROVE  FlashIs' /\ flash'[b] = r /\ \A c \in Blocks : c # b => flash'[c] = flash[c]
<1>1. flash = [c \in Blocks |-> flash[c]] /\ \A c \in Blocks : IsBlock(flash[c])
  BY DEF PairInv, FlashIs
<1>2. flash' = [c \in Blocks |-> IF c = b THEN r ELSE flash[c]]
  BY <1>1
<1>3. ASSUME NEW c \in Blocks PROVE IsBlock(flash[c])'
  <2>1. PICK g : g = flash'[c] /\ IsBlock(g)
    BY <1>1, <1>2
  <2> QED BY <2>1 DEF IsBlock
<1> QED BY <1>2, <1>3 DEF FlashIs

(* What of the blocks matters to the open files and to the pair.           *)
LEMMA HereStays ==
    ASSUME PairInv, Here' = Here, UNCHANGED <<ptr, super>>, bad \subseteq bad',
           flash'[Here].rev = flash[Here].rev, flash'[Here].used > 0
    PROVE  PtrIs' /\ Pair' = Pair /\ \A f : FileIs(f) => FileIs(f)'
<1>1. PtrIs'
  BY DEF PairInv, PtrIs
<1>2. ASSUME NEW f, FileIs(f) PROVE FileIs(f)'
  BY <1>2, FileStays
<1> QED BY <1>1, <1>2 DEF Pair

LEMMA OnFlashIs ==
    /\ ptr \in Blocks \X Blocks => OnFlash = flash[Here].dir
    /\ ptr' \in Blocks \X Blocks => OnFlash' = flash'[Here'].dir
BY DEF OnFlash, Fetch, Here, Best

LEMMA TearIs ==
    ASSUME NEW r, IsBlock(r), NEW s, s = [r EXCEPT !.torn = TRUE]
    PROVE  IsBlock(s) /\ s.rev = r.rev /\ s.used = r.used /\ s.dir = r.dir /\ s.log = r.log
<1>1. PICK v, l, u, t, d : r = [rev |-> v, log |-> l, used |-> u, torn |-> t, dir |-> d]
  BY DEF IsBlock
<1>2. s = [rev |-> v, log |-> l, used |-> u, torn |-> TRUE, dir |-> d]
  BY <1>1
<1> QED BY <1>1, <1>2 DEF IsBlock

(* A commit with another phase, pair, count and history is a commit.       *)
LEMMA CommitMoves ==
    ASSUME NEW c, CommitHas(c), NEW ph \in Phases, NEW d \in Mdirs,
           d.pair \in Blocks \X Blocks, d.pair[1] # d.pair[2],
           NEW n \in Nat, NEW rel \in BOOLEAN, NEW tr, NEW e,
           e = [phase |-> ph, dir |-> d, attrs |-> c.attrs, file |-> c.file, n |-> n,
                appended |-> c.appended, compacted |-> c.compacted, relocated |-> rel, tried |-> tr]
    PROVE  CommitHas(e) /\ e # NoCommit /\ SameTask(c, e)
<1>1. CommitHas(e) /\ SameTask(c, e)
  BY DEF CommitHas, SameTask
<1>2. e.phase = ph /\ NoCommit.phase \notin Phases
  BY DEF NoCommit, Phases
<1> QED BY <1>1, <1>2

(* A step of a commit that leaves what is read and what was asked alone.   *)
LEMMA QuietStep ==
    ASSUME PairInv, commit # NoCommit, FlashIs', BadIs',
           Here' = Here, UNCHANGED <<ptr, super, files, task>>, bad \subseteq bad',
           flash'[Here].rev = flash[Here].rev, flash'[Here].used = flash[Here].used,
           flash'[Here].dir = flash[Here].dir, flash'[Here].log = flash[Here].log, LogsKept,
           CommitHas(commit)', CommitAt(commit)', commit' # NoCommit, SameTask(commit, commit')
    PROVE  PairInv' /\ Quiet
<1>1. flash[Here].used > 0 /\ task \in Doing /\ ptr \in Blocks \X Blocks
  BY CommitNow DEF PairInv, PtrIs
<1>2. PtrIs' /\ \A f : FileIs(f) => FileIs(f)'
  BY <1>1, HereStays
<1>3. FilesAre'
  <2>1. files = [k \in Handles |-> files[k]] /\ \A k \in Handles : FileIs(files[k])
    BY DEF PairInv, FilesAre
  <2>2. ASSUME NEW k \in Handles PROVE FileIs(files[k])'
    <3>1. PICK g : g = files[k] /\ FileIs(g)
      BY <2>1
    <3>2. FileIs(g)'
      BY <1>2, <3>1
    <3> QED BY <3>1, <3>2
  <2> QED BY <2>1, <2>2 DEF FilesAre
<1>4. TaskIs'
  BY <1>1 DEF TaskIs
<1>5. OnFlash' = OnFlash
  BY <1>1, OnFlashIs
<1>6. Quiet
  BY <1>5 DEF Quiet
<1> QED BY <1>2, <1>3, <1>4, <1>6 DEF PairInv, CommitIs

(* The same when the commit is where it should be among the blocks as they *)
(* were.                                                                   *)
LEMMA MoveStep ==
    ASSUME PairInv, commit # NoCommit, FlashIs', BadIs',
           Here' = Here, UNCHANGED <<ptr, super, files, task>>, bad \subseteq bad',
           flash'[Here].rev = flash[Here].rev, flash'[Here].used = flash[Here].used,
           flash'[Here].dir = flash[Here].dir, flash'[Here].log = flash[Here].log, LogsKept,
           NEW e, commit' = e, CommitHas(e), CommitAt(e), e # NoCommit, e.phase # "Relink",
           SameTask(commit, e)
    PROVE  PairInv' /\ Quiet
<1>1. Pair' = Pair
  BY DEF Pair
<1>2. CommitAt(e)'
  <2>1. NextTo(Here)' = NextTo(Here) /\ \A b : Stuck(b) => Stuck(b)'
    BY DEF NextTo, Stuck
  <2> QED BY <1>1, <2>1 DEF CommitAt
<1>3. CommitHas(commit)' /\ CommitAt(commit)' /\ commit' # NoCommit
  BY <1>2
<1> QED BY <1>3, QuietStep

LEMMA NoRoomStep ==
    ASSUME PairInv, NoRoom
    PROVE  PairInv' /\ Quiet
<1>1. /\ commit.phase = "Append" /\ commit' = [commit EXCEPT !.phase = "Compact"]
      /\ UNCHANGED <<flash, bad, ptr, super, files, task>>
  BY DEF NoRoom
<1>2. commit # NoCommit
  BY <1>1 DEF NoCommit
<1>3. PICK c : c = commit /\ CommitHas(c) /\ CommitAt(c)
  BY <1>2, CommitNow
<1>4. PICK e : e = [c EXCEPT !.phase = "Compact"]
  OBVIOUS
<1>5. e = [phase |-> "Compact", dir |-> c.dir, attrs |-> c.attrs, file |-> c.file, n |-> c.n,
           appended |-> c.appended, compacted |-> c.compacted,
           relocated |-> c.relocated, tried |-> c.tried]
  BY <1>3, <1>4 DEF CommitHas
<1>6. CommitHas(e) /\ e # NoCommit /\ SameTask(c, e)
  <2>1. "Compact" \in Phases
    BY DEF Phases
  <2> QED BY <1>3, <1>5, <2>1, CommitMoves DEF CommitHas
<1>7. CommitAt(e) /\ e.phase # "Relink"
  BY <1>1, <1>3, <1>5 DEF CommitAt
<1>8. Here' = Here
  BY <1>1 DEF Here
<1>9. FlashIs' /\ BadIs' /\ LogsKept
  BY <1>1 DEF PairInv, FlashIs, BadIs, LogsKept
<1>10. commit' = e
  BY <1>1, <1>3, <1>4
<1> QED BY <1>1, <1>2, <1>3, <1>6, <1>7, <1>8, <1>9, <1>10, MoveStep

LEMMA CompactStep ==
    ASSUME PairInv, Compact
    PROVE  PairInv' /\ Quiet
<1>1. PICK rev, ph :
        /\ rev = NextRev(commit.dir)
        /\ ph = IF NextRev(commit.dir) % (BlockCycles + 1) = 0 /\ ~super THEN "Relocate" ELSE "Erase"
        /\ commit' = [commit EXCEPT !.dir.rev = rev, !.phase = ph]
  BY DEF Compact
<1>2. commit.phase = "Compact" /\ UNCHANGED <<flash, bad, ptr, super, files, task>>
  BY DEF Compact
<1>3. commit # NoCommit
  BY <1>2 DEF NoCommit
<1>4. PICK c : c = commit /\ CommitHas(c) /\ CommitAt(c)
  BY <1>3, CommitNow
<1>5. PICK d : d = [c.dir EXCEPT !.rev = rev]
  OBVIOUS
<1>6. PICK e : e = [c EXCEPT !.dir.rev = rev, !.phase = ph]
  OBVIOUS
<1>7. e = [phase |-> ph, dir |-> d, attrs |-> c.attrs, file |-> c.file, n |-> c.n,
           appended |-> c.appended, compacted |-> c.compacted,
           relocated |-> c.relocated, tried |-> c.tried]
  BY <1>4, <1>5, <1>6 DEF CommitHas
<1>8. rev \in 0..(Revs - 1)
  <2>1. c.dir.rev \in 0..(Revs - 1)
    BY <1>4 DEF CommitHas, Mdirs
  <2>2. c.dir.rev + 1 \in Int
    BY <2>1, PairAssumption
  <2> QED BY <1>1, <1>4, <2>2, ModIsInRange DEF NextRev
<1>9. d \in Mdirs /\ d.pair = c.dir.pair /\ d.rev = rev
  <2>1. c.dir \in Mdirs
    BY <1>4 DEF CommitHas
  <2> QED BY <1>5, <1>8, <2>1 DEF Mdirs
<1>10. ph \in Phases /\ ph \in {"Relocate", "Erase"} /\ (ph = "Relocate" => ~super)
  BY <1>1 DEF Phases
<1>11. CommitHas(e) /\ e # NoCommit /\ SameTask(c, e)
  BY <1>4, <1>7, <1>9, <1>10, CommitMoves DEF CommitHas
<1>12. CommitAt(e) /\ e.phase # "Relink"
  <2>1. d.rev = NextTo(Here) \/ Stuck(c.dir.pair[2])
    BY <1>1, <1>2, <1>4, <1>9 DEF CommitAt, NextRev, NextTo
  <2>2. ~c.relocated /\ {c.dir.pair[1], c.dir.pair[2]} = Pair /\ c.dir.pair[1] = Here
    BY <1>2, <1>4 DEF CommitAt, CommitHas
  <2>3. c.dir.pair[2] \in Pair
    BY <2>2
  <2> QED BY <1>4, <1>7, <1>9, <1>10, <2>1, <2>2, <2>3 DEF CommitAt
<1>13. Here' = Here
  BY <1>2 DEF Here
<1>14. FlashIs' /\ BadIs' /\ LogsKept
  BY <1>2 DEF PairInv, FlashIs, BadIs, LogsKept
<1>15. commit' = e
  BY <1>1, <1>4, <1>6
<1> QED BY <1>2, <1>3, <1>4, <1>11, <1>12, <1>13, <1>14, <1>15, MoveStep

(* What is not read may be erased, programmed or torn.                     *)
LEMMA OtherBlock ==
    ASSUME PairInv, NEW b \in Blocks, b # Here, NEW r, IsBlock(r), r.used = 0 \/ b \notin Pair,
           flash' = [flash EXCEPT ![b] = r], UNCHANGED ptr
    PROVE  /\ FlashIs' /\ Here' = Here /\ flash'[Here] = flash[Here] /\ flash'[b] = r
           /\ \A c \in Blocks : c # b => flash'[c] = flash[c]
<1>1. FlashIs' /\ flash'[b] = r /\ \A c \in Blocks : c # b => flash'[c] = flash[c]
  BY FlashChanges
<1>2. Here \in Blocks /\ Here \in Pair /\ Pair \subseteq Blocks /\ flash[Here].used > 0 /\ ptr[1] # ptr[2]
  BY PairIsHere DEF PairInv, PtrIs
<1>3. CASE b \notin Pair
  <2>1. \A c \in {ptr[1], ptr[2]} : flash'[c] = flash[c]
    BY <1>1, <1>2, <1>3 DEF Pair
  <2>2. Best(flash', ptr) = Best(flash, ptr)
    BY <2>1, BestStays
  <2> QED BY <1>1, <1>2, <2>2 DEF Here
<1>4. CASE b \in Pair
  <2>1. {ptr[1], ptr[2]} = {Here, b} /\ flash'[Here] = flash[Here] /\ ~(flash'[b].used > 0)
    BY <1>1, <1>2, <1>4 DEF Pair
  <2>2. Best(flash', ptr) = Here
    BY <1>2, <2>1, BestHasCommit
  <2> QED BY <1>1, <1>2, <2>1, <2>2 DEF Here
<1> QED BY <1>3, <1>4

LEMMA EraseStep ==
    ASSUME PairInv, Erase
    PROVE  PairInv' /\ Quiet
<1>1. /\ commit.phase = "Erase" /\ commit' = [commit EXCEPT !.phase = "Write", !.n = 0]
      /\ UNCHANGED <<bad, ptr, super, files, task>>
  BY DEF Erase
<1>2. commit # NoCommit
  BY <1>1 DEF NoCommit
<1>3. PICK c : c = commit /\ CommitHas(c) /\ CommitAt(c)
  BY <1>2, CommitNow
<1>4. PICK rev \in 0..(Revs - 1) : flash' = [flash EXCEPT ![Target] = Erased(rev)]
  <2>1. commit.dir.rev \in 0..(Revs - 1) /\ Revs - 1 \in 0..(Revs - 1)
    BY <1>3, PairAssumption DEF CommitHas, Mdirs
  <2> QED BY <2>1 DEF Erase
<1>5. Target \in Blocks /\ Target # Here /\ Target = c.dir.pair[2] /\ c.dir.pair[1] = Here
  BY <1>1, <1>2, <1>3, CommitNow DEF CommitAt, Active, Target
<1>6. /\ FlashIs' /\ Here' = Here /\ flash'[Here] = flash[Here] /\ flash'[Target] = Erased(rev)
      /\ \A b \in Blocks : b # Target => flash'[b] = flash[b]
  BY <1>1, <1>4, <1>5, TornIs, OtherBlock
<1>13. LogsKept
  BY <1>6, TornIs DEF LogsKept
<1>7. PICK e : e = [c EXCEPT !.phase = "Write", !.n = 0]
  OBVIOUS
<1>8. e = [phase |-> "Write", dir |-> c.dir, attrs |-> c.attrs, file |-> c.file, n |-> 0,
           appended |-> c.appended, compacted |-> c.compacted,
           relocated |-> c.relocated, tried |-> c.tried]
  BY <1>3, <1>7 DEF CommitHas
<1>9. CommitHas(e) /\ e # NoCommit /\ SameTask(c, e)
  <2>1. "Write" \in Phases /\ 0 \in Nat
    BY DEF Phases
  <2> QED BY <1>3, <1>8, <2>1, CommitMoves DEF CommitHas
<1>10. CommitAt(e) /\ e.phase # "Relink"
  BY <1>1, <1>3, <1>8 DEF CommitAt
<1>11. BadIs'
  BY <1>1 DEF PairInv, BadIs
<1>12. commit' = e
  BY <1>1, <1>3, <1>7
<1> QED BY <1>1, <1>2, <1>3, <1>6, <1>9, <1>10, <1>11, <1>12, <1>13, MoveStep

LEMMA DoingIsNotIdle == ASSUME task \in Doing PROVE task \notin D!Idle
BY DEF Doing, D!Idle, D!Put, D!Remove, D!Rename, D!Returned, D!Failed

(* A commit that is done.                                                  *)
LEMMA FinishStep ==
    ASSUME PairInv, LogInv, commit # NoCommit, FlashIs', BadIs', PtrIs',
           NEW dir \in Mdirs, Done(dir), OfPair(dir)', (dir.rev = flash[Here].rev \/ Stuck(dir.pair[2]))',
           Here \in {dir.pair[1], dir.pair[2]},
           flash'[Here'] = commit.appended \/ flash'[Here'] = commit.compacted, LogsDone
    PROVE  PairInv' /\ Finishes
<1>1. dir.pair \in Blocks \X Blocks
  BY DEF OfPair
<1>2. /\ FilesAre' /\ CommitIs' /\ TaskIs' /\ task' = D!Returned /\ commit' = NoCommit
      /\ \A h \in Handles : Sits(files'[h], After)
  BY <1>1, DoneIs
<1>3. Ents' = After
  <2>1. Replay(commit.compacted.log) = After /\ Replay(commit.appended.log) = After
    BY SoundIs DEF LogInv, CommitMeans, After
  <2> QED BY <2>1 DEF Ents
<1>4. OnFlash' = D!Effect(OnFlash, task)
  <2>1. CommitsMeanTheirTask
    BY MeaningHolds DEF Meaning
  <2>2. flash'[Here'].dir = D!Effect(OnFlash, task)
    BY <2>1 DEF CommitsMeanTheirTask
  <2> QED BY <2>2, OnFlashIs DEF PtrIs
<1>5. task \notin D!Idle
  BY CommitNow, DoingIsNotIdle
<1>6. Finishes
  BY <1>2, <1>3, <1>4, <1>5 DEF Finishes, D!Finish
<1> QED BY <1>2, <1>6 DEF PairInv

LEMMA AppendUnitStep ==
    ASSUME PairInv, LogInv, AppendUnit
    PROVE  PairInv' /\ (Quiet \/ Finishes)
<1>1. commit.phase = "Append" /\ UNCHANGED <<bad, ptr, super, ops>>
  BY DEF AppendUnit
<1>2. commit # NoCommit
  BY <1>1 DEF NoCommit
<1>3. PICK c : c = commit /\ CommitHas(c) /\ CommitAt(c)
  BY <1>2, CommitNow
<1>4. /\ Active = Here /\ c.dir.pair[1] = Here /\ {c.dir.pair[1], c.dir.pair[2]} = Pair
      /\ ~c.relocated /\ Here \in Blocks /\ IsBlock(flash[Here]) /\ flash[Here].used > 0
  BY <1>1, <1>2, <1>3, CommitNow DEF CommitAt, CommitHas, Active
<1>5. BadIs'
  BY <1>1 DEF PairInv, BadIs
<1>6. ASSUME flash' = [flash EXCEPT ![Active].torn = TRUE], UNCHANGED <<files, task>>,
             NEW ph \in {"Append", "Compact"}, NEW n \in Nat, NEW e, commit' = e,
             e = [phase |-> ph, dir |-> c.dir, attrs |-> c.attrs, file |-> c.file, n |-> n,
                  appended |-> c.appended, compacted |-> c.compacted,
                  relocated |-> c.relocated, tried |-> c.tried]
      PROVE  PairInv' /\ Quiet
  <2>1. PICK r : r = [flash[Here] EXCEPT !.torn = TRUE]
    OBVIOUS
  <2>2. /\ IsBlock(r) /\ r.rev = flash[Here].rev /\ r.used = flash[Here].used /\ r.dir = flash[Here].dir
        /\ r.log = flash[Here].log
    BY <1>4, <2>1, TearIs
  <2>3. flash' = [flash EXCEPT ![Here] = r]
    BY <1>4, <1>6, <2>1
  <2>4. FlashIs' /\ flash'[Here] = r /\ \A b \in Blocks : b # Here => flash'[b] = flash[b]
    BY <1>4, <2>2, <2>3, FlashChanges
  <2>5. Here' = Here
    <3>1. \A b \in {ptr[1], ptr[2]} : flash'[b].rev = flash[b].rev /\ (flash'[b].used > 0 <=> flash[b].used > 0)
      BY <2>2, <2>4 DEF PairInv, PtrIs
    <3> QED BY <1>1, <3>1, BestStays DEF Here
  <2>6. CommitHas(e) /\ e # NoCommit /\ SameTask(c, e)
    <3>1. ph \in Phases
      BY DEF Phases
    <3> QED BY <1>3, <1>6, <3>1, CommitMoves DEF CommitHas
  <2>7. CommitAt(e) /\ e.phase # "Relink"
    BY <1>1, <1>3, <1>6 DEF CommitAt
  <2>8. LogsKept
    BY <2>2, <2>4 DEF LogsKept
  <2> QED BY <1>1, <1>2, <1>3, <1>5, <1>6, <2>2, <2>4, <2>5, <2>6, <2>7, <2>8, MoveStep
<1>7. CASE commit.n + 1 < UnitsOf(commit.attrs)
  <2>1. /\ flash' = [flash EXCEPT ![Active].torn = TRUE] /\ UNCHANGED <<files, task>>
        /\ commit' = [c EXCEPT !.n = @ + 1]
    BY <1>3, <1>7 DEF AppendUnit
  <2>2. PICK n \in Nat : n = c.n + 1
    BY <1>3 DEF CommitHas
  <2>3. [c EXCEPT !.n = @ + 1] =
            [phase |-> "Append", dir |-> c.dir, attrs |-> c.attrs, file |-> c.file, n |-> n,
             appended |-> c.appended, compacted |-> c.compacted,
             relocated |-> c.relocated, tried |-> c.tried]
    BY <1>1, <1>3, <2>2 DEF CommitHas
  <2> QED BY <1>6, <2>1, <2>3
<1>8. CASE ~(commit.n + 1 < UnitsOf(commit.attrs)) /\ Active \in bad
  <2>1. /\ flash' = [flash EXCEPT ![Active].torn = TRUE] /\ UNCHANGED <<files, task>>
        /\ commit' = [c EXCEPT !.phase = "Compact"]
    BY <1>3, <1>8 DEF AppendUnit
  <2>2. [c EXCEPT !.phase = "Compact"] =
            [phase |-> "Compact", dir |-> c.dir, attrs |-> c.attrs, file |-> c.file, n |-> c.n,
             appended |-> c.appended, compacted |-> c.compacted,
             relocated |-> c.relocated, tried |-> c.tried]
    BY <1>3 DEF CommitHas
  <2>3. c.n \in Nat
    BY <1>3 DEF CommitHas
  <2> QED BY <1>6, <2>1, <2>2, <2>3
<1>9. CASE ~(commit.n + 1 < UnitsOf(commit.attrs)) /\ Active \notin bad
  <2>1. PICK dir : dir = [c.dir EXCEPT !.off = c.appended.used]
    OBVIOUS
  <2>2. flash' = [flash EXCEPT ![Here] = c.appended] /\ Done(dir)
    BY <1>3, <1>4, <1>9, <2>1 DEF AppendUnit
  <2>3. IsBlock(c.appended) /\ c.appended.used > 0 /\ c.appended.rev = flash[Here].rev
    BY <1>3 DEF CommitHas, CommitAt
  <2>4. FlashIs' /\ flash'[Here] = c.appended /\ \A b \in Blocks : b # Here => flash'[b] = flash[b]
    BY <1>4, <2>2, <2>3, FlashChanges
  <2>5. Here' = Here
    <3>1. \A b \in {ptr[1], ptr[2]} : flash'[b].rev = flash[b].rev /\ (flash'[b].used > 0 <=> flash[b].used > 0)
      BY <1>4, <2>3, <2>4 DEF PairInv, PtrIs
    <3> QED BY <1>1, <3>1, BestStays DEF Here
  <2>6. PtrIs' /\ Pair' = Pair
    BY <1>1, <2>3, <2>4, <2>5 DEF PairInv, PtrIs, Pair
  <2>7. c.dir \in Mdirs /\ c.appended.used \in Nat
    BY <1>3, <2>3 DEF CommitHas, IsBlock
  <2>8. dir \in Mdirs /\ dir.pair = c.dir.pair /\ dir.rev = c.dir.rev
    <3>1. PICK p \in (Blocks \X Blocks) \cup {NullPair}, r \in 0..(Revs - 1), o \in Nat, e \in BOOLEAN :
             c.dir = [pair |-> p, rev |-> r, off |-> o, erased |-> e]
      BY <2>7 DEF Mdirs
    <3>2. dir = [pair |-> p, rev |-> r, off |-> c.appended.used, erased |-> e]
      BY <2>1, <3>1
    <3> QED BY <2>7, <3>1, <3>2 DEF Mdirs
  <2>9. c.dir.pair \in Blocks \X Blocks /\ c.dir.pair[1] # c.dir.pair[2]
    BY <1>3 DEF CommitHas
  <2>10. OfPair(dir)'
    BY <1>4, <2>5, <2>6, <2>8, <2>9 DEF OfPair
  <2>11. flash'[Here'] = commit.appended /\ LogsDone
    BY <1>3, <2>4, <2>5 DEF LogsDone
  <2>12. (dir.rev = flash[Here].rev \/ Stuck(dir.pair[2]))'
    BY <1>1, <1>3, <2>3, <2>4, <2>5, <2>8 DEF CommitAt, Stuck
  <2> QED BY <1>2, <1>4, <1>5, <2>2, <2>4, <2>6, <2>8, <2>10, <2>11, <2>12, FinishStep
<1> QED BY <1>7, <1>8, <1>9

LEMMA WriteStep ==
    ASSUME PairInv, LogInv, Write
    PROVE  PairInv' /\ (Quiet \/ Finishes)
<1>1. commit.phase = "Write" /\ UNCHANGED <<bad, ptr, super, ops>>
  BY DEF Write
<1>2. commit # NoCommit
  BY <1>1 DEF NoCommit
<1>3. PICK c : c = commit /\ CommitHas(c) /\ CommitAt(c)
  BY <1>2, CommitNow
<1>4. PICK t \in Blocks : t = Target
  BY <1>2, CommitNow
<1>5. /\ t # Here /\ t = c.dir.pair[2] /\ c.dir.pair[1] = Here /\ Active = Here
      /\ Here \in Blocks /\ flash[Here].used > 0 /\ IsBlock(flash[Here])
  BY <1>1, <1>2, <1>3, <1>4, CommitNow DEF CommitAt, Active, Target
<1>6. BadIs'
  BY <1>1 DEF PairInv, BadIs
<1>7. /\ c.n \in Nat /\ c.dir.rev \in 0..(Revs - 1) /\ IsBlock(c.compacted) /\ c.compacted.used > 0
      /\ c.dir \in Mdirs /\ c.dir.pair \in Blocks \X Blocks /\ c.dir.pair[1] # c.dir.pair[2]
  BY <1>3 DEF CommitHas, Mdirs
<1>8. PICK dir : dir = [pair |-> <<Target, Active>>, rev |-> commit.dir.rev,
                        off |-> commit.compacted.used, erased |-> TRUE]
  OBVIOUS
<1>9. /\ dir.pair = <<t, Here>> /\ dir.pair \in Blocks \X Blocks /\ dir.pair[1] = t
      /\ dir.pair[2] = Here /\ dir.rev = c.dir.rev
  BY <1>3, <1>4, <1>5, <1>8
<1>10. dir \in Mdirs
  <2>1. TRUE \in BOOLEAN /\ c.compacted.used \in Nat
    BY <1>7 DEF IsBlock
  <2> QED BY <1>3, <1>7, <1>8, <1>9, <2>1 DEF Mdirs
<1>11. CASE commit.n + 1 < commit.compacted.used \/ t \in bad
  <2>1. flash' = [flash EXCEPT ![t] = Content(commit.dir.rev, <<>>, 0, TRUE)] /\ UNCHANGED <<files, task>>
    BY <1>4, <1>8, <1>11 DEF Write
  <2>2. /\ FlashIs' /\ Here' = Here /\ flash'[Here] = flash[Here]
        /\ flash'[t] = Content(commit.dir.rev, <<>>, 0, TRUE)
        /\ \A b \in Blocks : b # t => flash'[b] = flash[b]
    <3>1. PICK r : r = Content(commit.dir.rev, <<>>, 0, TRUE) /\ IsBlock(r) /\ r.used = 0
      BY <1>3, <1>7, TornIs
    <3>2. flash' = [flash EXCEPT ![t] = r] /\ UNCHANGED ptr
      BY <1>1, <2>1, <3>1
    <3>3. flash'[t] = r /\ \A b \in Blocks : b # t => flash'[b] = flash[b]
      BY <3>1, <3>2, FlashChanges
    <3>4. FlashIs' /\ Here' = Here /\ flash'[Here] = flash[Here]
      BY <1>4, <1>5, <3>1, <3>2, OtherBlock
    <3> QED BY <3>1, <3>3, <3>4
  <2>9. LogsKept
    <3>1. flash'[t].log = <<>>
      BY <1>3, <1>7, <2>2, TornIs
    <3> QED BY <2>2, <3>1 DEF LogsKept
  <2>3. PICK ph, n : /\ ph = IF commit.n + 1 < commit.compacted.used THEN "Write" ELSE "Relocate"
                     /\ n = IF commit.n + 1 < commit.compacted.used THEN commit.n + 1 ELSE commit.n
    OBVIOUS
  <2>4. ph \in Phases /\ n \in Nat
    BY <1>3, <1>7, <2>3 DEF Phases
  <2>5. PICK e : e = [phase |-> ph, dir |-> c.dir, attrs |-> c.attrs, file |-> c.file, n |-> n,
                      appended |-> c.appended, compacted |-> c.compacted,
                      relocated |-> c.relocated, tried |-> c.tried]
    OBVIOUS
  <2>6. commit' = e
    <3>1. commit' = IF commit.n + 1 < commit.compacted.used
                    THEN [commit EXCEPT !.n = @ + 1] ELSE [commit EXCEPT !.phase = "Relocate"]
      BY <1>4, <1>8, <1>11 DEF Write
    <3>2. c = [phase |-> "Write", dir |-> c.dir, attrs |-> c.attrs, file |-> c.file, n |-> c.n,
               appended |-> c.appended, compacted |-> c.compacted,
               relocated |-> c.relocated, tried |-> c.tried]
      BY <1>1, <1>3 DEF CommitHas
    <3>3. CASE commit.n + 1 < commit.compacted.used
      <4>1. commit' = [c EXCEPT !.n = n]
        BY <1>3, <2>3, <3>1, <3>3
      <4> QED BY <2>3, <2>5, <3>2, <3>3, <4>1
    <3>4. CASE ~(commit.n + 1 < commit.compacted.used)
      <4>1. commit' = [c EXCEPT !.phase = "Relocate"] /\ n = c.n /\ ph = "Relocate"
        BY <1>3, <2>3, <3>1, <3>4
      <4> QED BY <2>5, <3>2, <4>1
    <3> QED BY <3>3, <3>4
  <2>7. CommitHas(e) /\ e # NoCommit /\ SameTask(c, e)
    BY <1>3, <1>7, <2>4, <2>5, CommitMoves DEF CommitHas
  <2>8. CommitAt(e) /\ e.phase # "Relink"
    <3>1. ph = "Relocate" => t \in bad
      BY <1>11, <2>3
    <3> QED BY <1>1, <1>3, <1>5, <2>3, <2>5, <3>1 DEF CommitAt
  <2> QED BY <1>1, <1>2, <1>3, <1>6, <2>1, <2>2, <2>6, <2>7, <2>8, <2>9, MoveStep
<1>12. CASE ~(commit.n + 1 < commit.compacted.used \/ t \in bad)
  <2>1. flash' = [flash EXCEPT ![t] = c.compacted]
    BY <1>3, <1>4, <1>8, <1>12 DEF Write
  <2>2. /\ FlashIs' /\ flash'[t] = c.compacted /\ flash'[Here] = flash[Here]
        /\ \A b \in Blocks : b # t => flash'[b] = flash[b]
    <3>1. PICK r : r = c.compacted /\ IsBlock(r)
      BY <1>7
    <3>2. flash' = [flash EXCEPT ![t] = r]
      BY <2>1, <3>1
    <3>3. FlashIs' /\ flash'[t] = r /\ \A b \in Blocks : b # t => flash'[b] = flash[b]
      BY <3>1, <3>2, FlashChanges
    <3> QED BY <1>5, <3>1, <3>3
  <2>3. c.compacted.rev = NextTo(Here) /\ c.dir.rev = NextTo(Here)
    BY <1>1, <1>3, <1>5, <1>12 DEF CommitAt, Stuck
  <2>4. CASE c.relocated
    <3>1. t \notin Pair /\ ~super
      BY <1>1, <1>3, <1>5, <2>4 DEF CommitAt
    <3>2. Here' = Here
      BY <1>1, <1>5, <1>7, <2>1, <3>1, OtherBlock
    <3>3. commit' = [c EXCEPT !.phase = "Relink", !.dir = dir] /\ UNCHANGED <<files, task>>
      BY <1>3, <1>4, <1>8, <1>12, <2>4 DEF Write
    <3>4. PICK e : e = [phase |-> "Relink", dir |-> dir, attrs |-> c.attrs, file |-> c.file, n |-> c.n,
                        appended |-> c.appended, compacted |-> c.compacted,
                        relocated |-> c.relocated, tried |-> c.tried]
      OBVIOUS
    <3>5. commit' = e
      <4>1. c = [phase |-> "Write", dir |-> c.dir, attrs |-> c.attrs, file |-> c.file, n |-> c.n,
                 appended |-> c.appended, compacted |-> c.compacted,
                 relocated |-> c.relocated, tried |-> c.tried]
        BY <1>1, <1>3 DEF CommitHas
      <4>2. PICK d0, a0, f0, n0, ap, co, re, tr :
               c = [phase |-> "Write", dir |-> d0, attrs |-> a0, file |-> f0, n |-> n0,
                    appended |-> ap, compacted |-> co, relocated |-> re, tried |-> tr]
        BY <4>1
      <4>3. e = [phase |-> "Relink", dir |-> dir, attrs |-> a0, file |-> f0, n |-> n0,
                 appended |-> ap, compacted |-> co, relocated |-> re, tried |-> tr]
        BY <3>4, <4>2
      <4>4. [c EXCEPT !.phase = "Relink", !.dir = dir] =
                [phase |-> "Relink", dir |-> dir, attrs |-> a0, file |-> f0, n |-> n0,
                 appended |-> ap, compacted |-> co, relocated |-> re, tried |-> tr]
        <5>1. PICK c1 : c1 = [c EXCEPT !.phase = "Relink"]
          OBVIOUS
        <5>2. c1 = [phase |-> "Relink", dir |-> d0, attrs |-> a0, file |-> f0, n |-> n0,
                    appended |-> ap, compacted |-> co, relocated |-> re, tried |-> tr]
          BY <4>2, <5>1
        <5>3. [c1 EXCEPT !.dir = dir] =
                   [phase |-> "Relink", dir |-> dir, attrs |-> a0, file |-> f0, n |-> n0,
                    appended |-> ap, compacted |-> co, relocated |-> re, tried |-> tr]
          BY <5>2
        <5> QED BY <5>1, <5>3
      <4> QED BY <3>3, <4>3, <4>4
    <3>6. CommitHas(e) /\ e # NoCommit /\ SameTask(c, e)
      <4>1. "Relink" \in Phases /\ dir.pair[1] # dir.pair[2]
        BY <1>5, <1>9 DEF Phases
      <4> QED BY <1>3, <1>7, <1>9, <1>10, <3>4, <4>1, CommitMoves DEF CommitHas
    <3>7. CommitAt(e)'
      <4>1. Pair' = Pair /\ NextTo(Here)' = NextTo(Here) /\ super' = super /\ bad' = bad
        BY <1>1, <2>2, <3>2 DEF Pair, NextTo
      <4>2. c.appended.rev = flash[Here].rev /\ c.tried \subseteq bad \cup Pair
        BY <1>3 DEF CommitAt
      <4>3. c.file # NoFile => files[c.file] # Closed /\ files[c.file].m.pair # NullPair
        BY <1>3 DEF CommitAt
      <4> QED BY <1>9, <2>2, <2>3, <2>4, <3>1, <3>2, <3>3, <3>4, <4>1, <4>2, <4>3 DEF CommitAt
    <3>8. LogsKept
      BY <1>3, <2>2 DEF LogsKept
    <3> QED BY <1>1, <1>2, <1>3, <1>6, <2>2, <3>2, <3>3, <3>5, <3>6, <3>7, <3>8, QuietStep
  <2>5. CASE ~c.relocated
    <3>1. {Here, t} = Pair
      BY <1>1, <1>3, <1>5, <2>5 DEF CommitAt
    <3>2. Done(dir)
      BY <1>3, <1>4, <1>8, <1>12, <2>5 DEF Write
    <3>3. Newer(flash'[t].rev, flash'[Here].rev) /\ ~Newer(flash'[Here].rev, flash'[t].rev)
      <4>1. flash[Here].rev \in 0..(Revs - 1)
        BY <1>5 DEF IsBlock
      <4> QED BY <2>2, <2>3, <4>1, NextIsNewer DEF NextTo
    <3>4. Here' = t
      <4>1. {ptr[1], ptr[2]} = {Here, t} /\ flash'[t].used > 0
        BY <1>7, <2>2, <3>1 DEF Pair
      <4> QED BY <1>1, <1>5, <3>3, <4>1, BestIsNewer DEF Here
    <3>5. PtrIs' /\ Pair' = Pair
      BY <1>1, <1>7, <2>2, <3>4 DEF PairInv, PtrIs, Pair
    <3>6. OfPair(dir)'
      BY <1>5, <1>9, <3>1, <3>4, <3>5 DEF OfPair
    <3>7. flash'[Here'] = commit.compacted /\ LogsDone
      BY <1>3, <2>2, <3>4 DEF LogsDone
    <3>8. (dir.rev = flash[Here].rev \/ Stuck(dir.pair[2]))'
      BY <1>9, <2>2, <2>3, <3>4
    <3>9. Here \in {dir.pair[1], dir.pair[2]}
      BY <1>9
    <3> QED BY <1>2, <1>6, <1>10, <2>2, <3>2, <3>5, <3>6, <3>7, <3>8, <3>9, FinishStep
  <2> QED BY <2>4, <2>5
<1> QED BY <1>11, <1>12

LEMMA RelinkStep ==
    ASSUME PairInv, LogInv, Relink
    PROVE  PairInv' /\ Finishes
<1>1. /\ commit.phase = "Relink" /\ ptr' = commit.dir.pair /\ Done(commit.dir)
      /\ UNCHANGED <<flash, bad, super>>
  BY DEF Relink
<1>2. commit # NoCommit
  BY <1>1 DEF NoCommit
<1>3. PICK c : c = commit /\ CommitHas(c) /\ CommitAt(c)
  BY <1>2, CommitNow
<1>4. PICK t : t = c.dir.pair[1]
  OBVIOUS
<1>5. /\ c.dir.pair[2] = Here /\ t \notin Pair /\ flash[t] = c.compacted /\ c.relocated /\ ~super
      /\ Here \in Pair /\ Here \in Blocks /\ IsBlock(flash[Here])
  BY <1>1, <1>2, <1>3, <1>4, CommitNow DEF CommitAt
<1>6. /\ c.dir \in Mdirs /\ c.dir.pair \in Blocks \X Blocks /\ t # Here /\ flash[t].used > 0
  BY <1>3, <1>4, <1>5 DEF CommitHas
<1>7. flash[t].rev = NextTo(Here) /\ c.dir.rev = NextTo(Here)
  BY <1>1, <1>3, <1>5 DEF CommitAt, Stuck
<1>8. Here' = t
  <2>1. flash[Here].rev \in 0..(Revs - 1)
    BY <1>5 DEF IsBlock
  <2>2. Newer(flash[t].rev, flash[Here].rev) /\ ~Newer(flash[Here].rev, flash[t].rev)
    BY <1>7, <2>1, NextIsNewer DEF NextTo
  <2>3. {ptr'[1], ptr'[2]} = {Here, t}
    BY <1>1, <1>3, <1>4, <1>5
  <2>4. Best(flash, ptr') = t
    BY <1>6, <2>2, <2>3, BestIsNewer
  <2> QED BY <1>1, <2>4 DEF Here
<1>9. FlashIs' /\ BadIs'
  BY <1>1 DEF PairInv, FlashIs, BadIs
<1>10. PtrIs'
  BY <1>1, <1>3, <1>4, <1>5, <1>6, <1>8 DEF PairInv, PtrIs
<1>11. OfPair(c.dir)'
  BY <1>1, <1>3, <1>4, <1>5, <1>6, <1>8 DEF OfPair, Pair
<1>12. (c.dir.rev = flash[Here].rev \/ Stuck(c.dir.pair[2]))'
  BY <1>1, <1>7, <1>8
<1>13. flash'[Here'] = commit.compacted /\ LogsDone
  BY <1>1, <1>3, <1>5, <1>8 DEF LogsDone
<1>14. Here \in {c.dir.pair[1], c.dir.pair[2]}
  BY <1>5
<1> QED BY <1>1, <1>2, <1>3, <1>6, <1>9, <1>10, <1>11, <1>12, <1>13, <1>14, FinishStep

(* A block that is neither bad nor of the pair is free to move to.         *)
LEMMA OneIsFree ==
    ASSUME PairInv, SpareBlocks, NEW S, S \subseteq bad \cup Pair
    PROVE  Blocks \ S # {}
<1>1. IsFiniteSet(bad) /\ Cardinality(bad) <= MaxBad /\ MaxBad \in Nat
  BY DEF PairInv, BadIs, SpareBlocks
<1>2. IsFiniteSet({ptr[1]}) /\ Cardinality({ptr[1]}) = 1
  BY FS_Singleton
<1>3. IsFiniteSet({ptr[2]}) /\ Cardinality({ptr[2]}) = 1
  BY FS_Singleton
<1>4. /\ IsFiniteSet({ptr[1]} \cup {ptr[2]})
      /\ Cardinality({ptr[1]} \cup {ptr[2]}) = 1 + 1 - Cardinality({ptr[1]} \cap {ptr[2]})
  BY <1>2, <1>3, FS_Union
<1>5. Pair = {ptr[1]} \cup {ptr[2]}
  BY DEF Pair
<1>6. IsFiniteSet({ptr[1]} \cap {ptr[2]}) /\ Cardinality({ptr[1]} \cap {ptr[2]}) \in Nat
  BY <1>2, FS_Intersection, FS_CardinalityType
<1>7. IsFiniteSet(Pair) /\ Cardinality(Pair) \in Nat /\ Cardinality(Pair) <= 2
  BY <1>4, <1>5, <1>6, FS_CardinalityType
<1>8. /\ IsFiniteSet(bad \cup Pair)
      /\ Cardinality(bad \cup Pair) = Cardinality(bad) + Cardinality(Pair) - Cardinality(bad \cap Pair)
  BY <1>1, <1>7, FS_Union
<1>9. IsFiniteSet(bad \cap Pair) /\ Cardinality(bad \cap Pair) \in Nat /\ Cardinality(bad) \in Nat
  BY <1>1, FS_Intersection, FS_CardinalityType
<1>10. Cardinality(bad \cup Pair) <= MaxBad + 2 /\ Cardinality(bad \cup Pair) \in Nat
  <2>1. PICK x \in Nat, y \in Nat, z \in Nat :
           x = Cardinality(bad) /\ y = Cardinality(Pair) /\ z = Cardinality(bad \cap Pair)
    BY <1>7, <1>9
  <2>2. x <= MaxBad /\ y <= 2 /\ Cardinality(bad \cup Pair) = x + y - z
    BY <1>1, <1>7, <1>8, <2>1
  <2>3. Cardinality(bad \cup Pair) \in Nat
    BY <1>8, FS_CardinalityType
  <2> QED BY <1>1, <2>2, <2>3
<1>11. ASSUME Blocks \subseteq bad \cup Pair PROVE FALSE
  <2>1. Cardinality(Blocks) <= Cardinality(bad \cup Pair)
    BY <1>8, <1>11, FS_Subset
  <2>2. Cardinality(Blocks) \in Nat /\ Cardinality(Blocks) > MaxBad + 2
    BY FS_CardinalityType DEF SpareBlocks
  <2> QED BY <1>1, <1>10, <2>1, <2>2
<1> QED BY <1>11

LEMMA RelocateStep ==
    ASSUME PairInv, SpareBlocks, Relocate
    PROVE  PairInv' /\ Quiet
<1>1. /\ commit.phase = "Relocate" /\ ~super
      /\ UNCHANGED <<flash, bad, ptr, super, files, task>>
  BY DEF Relocate
<1>2. commit # NoCommit
  BY <1>1 DEF NoCommit
<1>3. PICK c : c = commit /\ CommitHas(c) /\ CommitAt(c)
  BY <1>2, CommitNow
<1>4. PICK tried : tried = c.tried \cup {Target}
  OBVIOUS
<1>5. /\ c.dir.pair[1] = Here /\ Active = Here /\ Here \in Pair /\ Here \in Blocks
      /\ Target = c.dir.pair[2]
      /\ tried \subseteq bad \cup Pair
  BY <1>1, <1>2, <1>3, <1>4, CommitNow DEF CommitAt, Active, Target
<1>6. PICK free : free = Blocks \ (tried \cup {Active, ptr[1], ptr[2]})
  OBVIOUS
<1>7. free # {}
  <2>1. tried \cup {Active, ptr[1], ptr[2]} \subseteq bad \cup Pair
    BY <1>5 DEF Pair
  <2> QED BY <1>6, <2>1, OneIsFree
<1>8. PICK b \in free : commit' = [c EXCEPT !.dir.pair = <<Active, b>>, !.relocated = TRUE,
                                            !.tried = tried, !.phase = "Erase"]
  BY <1>3, <1>4, <1>6, <1>7 DEF Relocate
<1>9. b \in Blocks /\ b \notin Pair /\ b # Here
  BY <1>5, <1>6 DEF Pair
<1>10. PICK p \in Blocks \X Blocks : p = <<Active, b>> /\ p[1] = Here /\ p[2] = b
  <2>1. PICK p : p = <<Here, b>>
    OBVIOUS
  <2>2. p \in Blocks \X Blocks /\ p[1] = Here /\ p[2] = b
    BY <1>5, <1>9, <2>1
  <2> QED BY <1>5, <2>1, <2>2
<1>11. PICK rel \in BOOLEAN : rel = TRUE
  OBVIOUS
<1>12. PICK er \in Phases : er = "Erase"
  BY DEF Phases
<1>13. PICK e : e = [c EXCEPT !.dir.pair = p, !.relocated = rel, !.tried = tried, !.phase = er]
  OBVIOUS
<1>14. PICK d \in Mdirs :
              /\ d.pair = p /\ d.rev = c.dir.rev
              /\ e = [phase |-> er, dir |-> d, attrs |-> c.attrs, file |-> c.file, n |-> c.n,
                      appended |-> c.appended, compacted |-> c.compacted,
                      relocated |-> rel, tried |-> tried]
  <2>1. PICK p0 \in (Blocks \X Blocks) \cup {NullPair}, r \in 0..(Revs - 1), o \in Nat, x \in BOOLEAN :
           c.dir = [pair |-> p0, rev |-> r, off |-> o, erased |-> x]
    BY <1>3 DEF CommitHas, Mdirs
  <2>2. PICK ph, d0, a, f, n, ap, co, re, t0 :
           c = [phase |-> ph, dir |-> d0, attrs |-> a, file |-> f, n |-> n, appended |-> ap,
                compacted |-> co, relocated |-> re, tried |-> t0]
    BY <1>3 DEF CommitHas
  <2>3. PICK d : d = [pair |-> p, rev |-> r, off |-> o, erased |-> x]
    OBVIOUS
  <2>4. d \in Mdirs /\ d.pair = p /\ d.rev = c.dir.rev
    BY <2>1, <2>3 DEF Mdirs
  <2>5. d0 = [pair |-> p0, rev |-> r, off |-> o, erased |-> x]
    BY <2>1, <2>2
  <2>6. PICK c1 : c1 = [c EXCEPT !.dir.pair = p]
    OBVIOUS
  <2>7. c1 = [phase |-> ph, dir |-> d, attrs |-> a, file |-> f, n |-> n, appended |-> ap,
              compacted |-> co, relocated |-> re, tried |-> t0]
    BY <2>2, <2>3, <2>5, <2>6
  <2>8. PICK c2 : c2 = [c1 EXCEPT !.relocated = rel]
    OBVIOUS
  <2>9. c2 = [phase |-> ph, dir |-> d, attrs |-> a, file |-> f, n |-> n, appended |-> ap,
              compacted |-> co, relocated |-> rel, tried |-> t0]
    BY <2>7, <2>8
  <2>10. PICK c3 : c3 = [c2 EXCEPT !.tried = tried]
    OBVIOUS
  <2>11. c3 = [phase |-> ph, dir |-> d, attrs |-> a, file |-> f, n |-> n, appended |-> ap,
               compacted |-> co, relocated |-> rel, tried |-> tried]
    BY <2>9, <2>10
  <2>12. [c3 EXCEPT !.phase = er] =
              [phase |-> er, dir |-> d, attrs |-> a, file |-> f, n |-> n, appended |-> ap,
               compacted |-> co, relocated |-> rel, tried |-> tried]
    BY <2>11
  <2>13. e = [c3 EXCEPT !.phase = er]
    BY <1>13, <2>6, <2>8, <2>10
  <2>14. [phase |-> er, dir |-> d, attrs |-> a, file |-> f, n |-> n, appended |-> ap,
               compacted |-> co, relocated |-> rel, tried |-> tried] =
         [phase |-> er, dir |-> d, attrs |-> c.attrs, file |-> c.file, n |-> c.n,
                        appended |-> c.appended, compacted |-> c.compacted,
                        relocated |-> rel, tried |-> tried]
    BY <2>2
  <2> QED BY <2>4, <2>12, <2>13, <2>14
<1>15. CommitHas(e) /\ e # NoCommit /\ SameTask(c, e)
  <2>1. er \in Phases /\ c.n \in Nat /\ d.pair \in Blocks \X Blocks /\ d.pair[1] # d.pair[2]
    BY <1>3, <1>9, <1>10, <1>14, <1>12 DEF CommitHas
  <2>2. rel \in BOOLEAN
    BY <1>11
  <2> QED BY <1>3, <1>14, <2>1, <2>2, CommitMoves
<1>16. CommitAt(e) /\ e.phase # "Relink"
  <2>1. ~Stuck(c.dir.pair[2])
    BY <1>1 DEF Stuck
  <2>2. c.dir.rev = NextTo(Here) /\ c.compacted.rev = NextTo(Here) /\ c.appended.rev = flash[Here].rev
    BY <1>1, <1>3, <2>1 DEF CommitAt
  <2>3. c.file # NoFile => files[c.file] # Closed /\ files[c.file].m.pair # NullPair
    BY <1>3 DEF CommitAt
  <2>4. e.relocated
    BY <1>14, <1>11
  <2>5. /\ e.phase = "Erase" /\ e.dir = d /\ d.pair[1] = Here /\ d.pair[2] = b /\ d.rev = c.dir.rev
        /\ e.tried = tried /\ e.appended = c.appended /\ e.compacted = c.compacted /\ e.file = c.file
    BY <1>10, <1>14, <1>12
  <2> QED BY <1>1, <1>5, <1>9, <2>2, <2>3, <2>4, <2>5 DEF CommitAt
<1>17. Here' = Here
  BY <1>1 DEF Here
<1>18. FlashIs' /\ BadIs' /\ LogsKept
  BY <1>1 DEF PairInv, FlashIs, BadIs, LogsKept
<1>19. commit' = e
  BY <1>8, <1>10, <1>13, <1>11, <1>12
<1> QED BY <1>1, <1>2, <1>3, <1>15, <1>16, <1>17, <1>18, <1>19, MoveStep

(* A commit that ends with an error: what is on the flash stays, and so    *)
(* does what is known of the files.                                        *)
LEMMA GiveUpStep ==
    ASSUME PairInv, commit # NoCommit, UNCHANGED <<flash, bad, ptr, super>>,
           commit' = NoCommit, task' = D!Failed, FilesAre',
           \A h \in Handles : Sits(files'[h], Ents)
    PROVE  PairInv' /\ GivesUp
<1>1. Here' = Here
  BY DEF Here
<1>2. FlashIs' /\ PtrIs' /\ BadIs'
  BY <1>1 DEF PairInv, FlashIs, PtrIs, BadIs
<1>3. CommitIs' /\ TaskIs'
  BY DEF CommitIs, TaskIs, D!Idle
<1>4. OnFlash' = OnFlash
  BY DEF OnFlash, Fetch
<1>5. task \notin D!Idle
  BY CommitNow, DoingIsNotIdle
<1> QED BY <1>1, <1>2, <1>3, <1>4, <1>5 DEF PairInv, D!GiveUp, GivesUp

LEMMA PowerLossStep ==
    ASSUME PairInv, PowerLoss
    PROVE  PairInv' /\ GivesUp
<1>1. /\ commit # NoCommit /\ files' = [h \in Handles |-> Closed] /\ commit' = NoCommit
      /\ task' = D!Failed /\ UNCHANGED <<flash, bad, ptr, super>>
  BY DEF PowerLoss
<1>2. FilesAre' /\ \A h \in Handles : Sits(files'[h], Ents)
  BY <1>1 DEF FilesAre, FileIs, Sits, Closed
<1> QED BY <1>1, <1>2, GiveUpStep

LEMMA FrozenStep ==
    ASSUME PairInv, LogInv, Frozen
    PROVE  PairInv' /\ GivesUp
<1>1. /\ commit.phase = "Relocate" /\ super /\ commit' = NoCommit /\ task' = D!Failed
      /\ UNCHANGED <<flash, bad, ptr, super>>
  BY DEF Frozen
<1>2. commit # NoCommit
  BY <1>1 DEF NoCommit
<1>3. PICK c : c = commit /\ CommitHas(c) /\ CommitAt(c)
  BY <1>2, CommitNow
<1>4. /\ c.dir.pair[1] = Here /\ {c.dir.pair[1], c.dir.pair[2]} = Pair /\ Stuck(c.dir.pair[2])
      /\ c.dir \in Mdirs /\ c.dir.pair \in Blocks \X Blocks /\ c.dir.pair[1] # c.dir.pair[2]
  BY <1>1, <1>3 DEF CommitAt, CommitHas, Stuck
<1>5. files = [k \in Handles |-> files[k]] /\ \A k \in Handles : FileIs(files[k])
  BY DEF PairInv, FilesAre
<1>6. OfPair(c.dir)
  BY <1>4 DEF OfPair
<1>7. ASSUME NEW k \in Handles PROVE FileIs(files'[k]) /\ Sits(files'[k], Ents)
  <2>1. PICK f : f = files[k] /\ FileIs(f) /\ ((c.file = k /\ Splices) \/ Sits(f, Ents))
    BY <1>2, <1>3, <1>5 DEF LogInv, CommitMeans, Stays
  <2>2. CASE files'[k] = f /\ Sits(f, Ents)
    BY <2>1, <2>2
  <2>3. CASE files'[k] = Closed
    BY <2>3 DEF FileIs, Sits, Closed
  <2>4. CASE k = c.file /\ Sits(f, Ents) /\ files'[k] = [f EXCEPT !.m = c.dir]
    <3>1. f # Closed /\ f.m.pair # NullPair
      <4>1. k # NoFile
        BY PairAssumption
      <4> QED BY <1>3, <2>1, <2>4, <4>1 DEF CommitAt
    <3>2. /\ f = [open |-> TRUE, m |-> f.m, id |-> f.id, name |-> f.name]
          /\ f.name \in Names /\ f.id \in Int
      BY <2>1, <3>1 DEF FileIs
    <3>3. PICK g : g = [f EXCEPT !.m = c.dir]
      OBVIOUS
    <3>4. PICK m0, i0, n0 : f = [open |-> TRUE, m |-> m0, id |-> i0, name |-> n0]
      BY <3>2
    <3>5. g = [open |-> TRUE, m |-> c.dir, id |-> i0, name |-> n0] /\ i0 \in Int /\ n0 \in Names
      BY <3>2, <3>3, <3>4
    <3>6. FileIs(g)
      BY <1>4, <1>6, <3>5 DEF FileIs
    <3>7. c.dir.pair # NullPair
      BY <1>4, PairAssumption DEF NullPair
    <3>8. i0 = f.id /\ n0 = f.name
      BY <3>4
    <3>9. Sits(g, Ents)
      BY <2>4, <3>1, <3>2, <3>5, <3>7, <3>8 DEF Sits
    <3> QED BY <2>4, <3>3, <3>6, <3>9
  <2>5. \/ files'[k] = f /\ Sits(f, Ents)
        \/ files'[k] = Closed
        \/ k = c.file /\ Sits(f, Ents) /\ files'[k] = [f EXCEPT !.m = c.dir]
    <3>1. CASE c.file = NoFile
      <4>1. k # c.file
        BY <3>1, PairAssumption
      <4> QED BY <1>3, <2>1, <3>1, <4>1 DEF Frozen
    <3>2. CASE c.file # NoFile /\ \E i \in DOMAIN c.attrs : IsSplice(c.attrs[i])
      <4>1. files' = [files EXCEPT ![c.file] = Closed]
        BY <1>3, <3>2 DEF Frozen
      <4> QED BY <1>5, <2>1, <4>1
    <3>3. CASE c.file # NoFile /\ ~(\E i \in DOMAIN c.attrs : IsSplice(c.attrs[i]))
      <4>1. files' = [files EXCEPT ![c.file].m = c.dir]
        BY <1>3, <3>3 DEF Frozen
      <4>2. Sits(f, Ents)
        BY <1>3, <2>1, <3>3 DEF Splices
      <4> QED BY <1>5, <2>1, <4>1, <4>2
    <3> QED BY <3>1, <3>2, <3>3
  <2> QED BY <2>2, <2>3, <2>4, <2>5
<1>8. Here' = Here
  BY <1>1 DEF Here
<1>9. files' = [k \in Handles |-> files'[k]]
  <2>1. CASE c.file = NoFile
    BY <1>3, <1>5, <2>1 DEF Frozen
  <2>2. CASE c.file # NoFile /\ \E i \in DOMAIN c.attrs : IsSplice(c.attrs[i])
    <3>1. files' = [files EXCEPT ![c.file] = Closed]
      BY <1>3, <2>2 DEF Frozen
    <3> QED BY <1>5, <3>1
  <2>3. CASE c.file # NoFile /\ ~(\E i \in DOMAIN c.attrs : IsSplice(c.attrs[i]))
    <3>1. files' = [files EXCEPT ![c.file].m = c.dir]
      BY <1>3, <2>3 DEF Frozen
    <3> QED BY <1>5, <3>1
  <2> QED BY <2>1, <2>2, <2>3
<1>10. FilesAre'
  <2>1. ASSUME NEW k \in Handles PROVE FileIs(files[k])'
    <3>1. PICK g : g = files'[k] /\ FileIs(g)
      BY <1>7
    <3>2. FileIs(g)'
      BY <1>1, <1>8, <3>1, FileStays
    <3> QED BY <3>1, <3>2
  <2> QED BY <1>9, <2>1 DEF FilesAre
<1> QED BY <1>1, <1>2, <1>7, <1>10, GiveUpStep

LEMMA BlockFailsStep ==
    ASSUME PairInv, SpareBlocks, BlockFails
    PROVE  PairInv' /\ Quiet
<1>1. Cardinality(bad) < MaxBad /\ UNCHANGED <<flash, ptr, super, files, commit, task>>
  BY DEF BlockFails
<1>2. commit # NoCommit
  BY DEF BlockFails, NoCommit
<1>3. PICK b \in Blocks : bad' = bad \cup {b}
  BY <1>2, CommitNow DEF BlockFails
<1>4. bad \subseteq Blocks /\ IsFiniteSet(bad) /\ Cardinality(bad) \in Nat /\ MaxBad \in Nat
  BY FS_CardinalityType DEF PairInv, BadIs, SpareBlocks
<1>5. BadIs'
  <2>1. /\ IsFiniteSet(bad \cup {b})
        /\ Cardinality(bad \cup {b}) = IF b \in bad THEN Cardinality(bad) ELSE Cardinality(bad) + 1
    BY <1>4, FS_AddElement
  <2> QED BY <1>1, <1>3, <1>4, <2>1 DEF BadIs
<1>6. Here' = Here
  BY <1>1 DEF Here
<1>7. FlashIs'
  BY <1>1 DEF PairInv, FlashIs
<1>8. PICK c : c = commit /\ CommitHas(c) /\ CommitAt(c)
  BY <1>2, CommitNow
<1>9. CommitHas(commit)'
  <2>1. CommitHas(c)'
    BY <1>8 DEF CommitHas, IsBlock, Mdirs
  <2> QED BY <1>1, <1>8, <2>1
<1>10. CommitAt(commit)'
  <2>1. \A t : Stuck(t) => Stuck(t)'
    BY <1>1, <1>3 DEF Stuck
  <2>2. Pair' = Pair /\ NextTo(Here)' = NextTo(Here)
    BY <1>1, <1>6 DEF Pair, NextTo
  <2>3. CommitAt(c)'
    BY <1>1, <1>3, <1>6, <1>8, <2>1, <2>2 DEF CommitAt
  <2> QED BY <1>1, <1>8, <2>3
<1>11. LogsKept /\ SameTask(commit, commit')
  BY <1>1 DEF LogsKept, SameTask
<1> QED BY <1>1, <1>2, <1>3, <1>5, <1>6, <1>7, <1>9, <1>10, <1>11, QuietStep

LEMMA BeginIs ==
    ASSUME PairInv, NEW what \in Doing, NEW dir \in Mdirs, OfPair(dir),
           dir.rev = flash[Here].rev \/ Stuck(dir.pair[2]),
           NEW attrs \in Seq(Tags), NEW file \in Handles \cup {NoFile},
           Begin(what, dir, attrs, file),
           FilesAre',
           file # NoFile => files'[file] # Closed /\ files'[file].m.pair # NullPair
    PROVE  PairInv' /\ OnFlash' = OnFlash
<1> USE DEF PairInv
<1>1. UNCHANGED <<flash, bad, ptr, super>> /\ Here' = Here /\ Pair' = Pair
  BY DEF Begin, Here, Pair
<1>2. OnFlash' = OnFlash
  BY <1>1 DEF OnFlash, Fetch
<1>3. FlashIs' /\ PtrIs' /\ BadIs'
  BY <1>1 DEF FlashIs, PtrIs, BadIs
<1>4. Here \in Blocks /\ IsBlock(flash[Here]) /\ dir.pair[1] = Here /\ Log(dir) = flash[Here].log
  BY PairIsHere DEF FlashIs, OfPair, Log
<1>5. Log(dir) \o attrs \in Seq(Tags)
  BY <1>4, ConcatProperties DEF IsBlock
<1>6. PICK app : app = Appended(dir, attrs)
  OBVIOUS
<1>7. IsBlock(app) /\ app.used > 0 /\ app.rev = flash[Here].rev
  <2>1. PICK u \in Nat : u = dir.off + UnitsOf(attrs) /\ u > 0
    BY UnitsIs DEF Mdirs
  <2>2. flash[Here].rev \in 0..(Revs - 1)
    BY <1>4 DEF IsBlock
  <2>3. app = Content(flash[Here].rev, Log(dir) \o attrs, u, FALSE)
    BY <1>4, <1>6, <2>1 DEF Appended
  <2>4. /\ IsBlock(Content(flash[Here].rev, Log(dir) \o attrs, u, FALSE))
        /\ Content(flash[Here].rev, Log(dir) \o attrs, u, FALSE).rev = flash[Here].rev
        /\ Content(flash[Here].rev, Log(dir) \o attrs, u, FALSE).used = u
    BY <1>5, <2>1, <2>2 DEF Content, IsBlock
  <2> QED BY <2>1, <2>3, <2>4
<1>8. PICK com : com = Whole(NextRev(dir), Compacted(Log(dir) \o attrs))
  OBVIOUS
<1>9. IsBlock(com) /\ com.used > 0 /\ (com.rev = NextTo(Here) \/ Stuck(dir.pair[2]))
  <2>1. NextRev(dir) \in 0..(Revs - 1)
    <3>1. dir.rev \in 0..(Revs - 1)
      BY DEF Mdirs
    <3>2. dir.rev + 1 \in Int
      BY <3>1, PairAssumption
    <3> QED BY <3>2, ModIsInRange DEF NextRev
  <2>2. IsBlock(com) /\ com.used > 0 /\ com.rev = NextRev(dir)
    BY <1>5, <1>8, <2>1, CompactedIs, WholeIs
  <2> QED BY <2>2 DEF NextRev, NextTo
<1>10. PICK c : c = [phase |-> IF dir.erased THEN "Append" ELSE "Compact",
                     dir |-> dir, attrs |-> attrs, file |-> file, n |-> 0,
                     appended |-> app, compacted |-> com,
                     relocated |-> FALSE, tried |-> {}]
  OBVIOUS
<1>11. commit' = c /\ task' = what
  BY <1>6, <1>8, <1>10 DEF Begin
<1>12. dir.pair \in Blocks \X Blocks /\ dir.pair[1] # dir.pair[2] /\ {dir.pair[1], dir.pair[2]} = Pair
  BY DEF OfPair
<1>13. CommitHas(c)
  BY <1>7, <1>9, <1>10, <1>12 DEF CommitHas, Phases
<1>14. CommitHas(commit)'
  BY <1>11, <1>13 DEF CommitHas, IsBlock, Mdirs
<1>15. CommitAt(commit)'
  <2>1. flash' = flash /\ bad' = bad /\ super' = super
    BY <1>1
  <2>2. /\ c.phase \in {"Append", "Compact"} /\ c.dir = dir /\ c.relocated = FALSE /\ c.tried = {}
        /\ c.appended = app /\ c.compacted = com /\ c.file = file
    BY <1>10
  <2> QED BY <1>1, <1>4, <1>7, <1>9, <1>11, <1>12, <2>1, <2>2 DEF CommitAt, NextTo, Stuck
<1>16. c.phase \in Phases /\ c # NoCommit
  BY <1>10 DEF NoCommit, Phases
<1>17. TaskIs'
  BY <1>11, <1>16 DEF TaskIs, Doing
<1> QED BY <1>2, <1>3, <1>11, <1>14, <1>15, <1>17 DEF CommitIs

LEMMA OpenedIs ==
    ASSUME PairInv, NEW name \in Names, NEW id \in Int, NEW f,
           f = [open |-> TRUE, m |-> Fetch(ptr), id |-> id, name |-> name]
    PROVE  FileIs(f) /\ f # Closed /\ f.m.pair # NullPair
<1>1. OfPair(Fetch(ptr)) /\ Fetch(ptr) \in Mdirs /\ Fetch(ptr).rev = flash[Here].rev
  BY PairIsHere
<1>2. Fetch(ptr).pair # NullPair
  BY <1>1, PairAssumption DEF OfPair, NullPair
<1>3. f # Closed
  BY DEF Closed
<1> QED BY <1>1, <1>2, <1>3 DEF FileIs

(* A file is opened, or nothing happens to it.                             *)
LEMMA OpenFilesAre ==
    ASSUME PairInv, NEW h \in Handles, NEW name \in Names, NEW id \in Int,
           UNCHANGED <<flash, bad, ptr, super>>,
           files' = [files EXCEPT ![h] = [open |-> TRUE, m |-> Fetch(ptr), id |-> id, name |-> name]]
    PROVE  FilesAre' /\ files'[h] # Closed /\ files'[h].m.pair # NullPair
<1>1. PICK f : f = [open |-> TRUE, m |-> Fetch(ptr), id |-> id, name |-> name]
  OBVIOUS
<1>2. FileIs(f) /\ f # Closed /\ f.m.pair # NullPair
  BY <1>1, OpenedIs
<1>3. files = [k \in Handles |-> files[k]] /\ \A k \in Handles : FileIs(files[k])
  BY DEF PairInv, FilesAre
<1>4. files' = [k \in Handles |-> IF k = h THEN f ELSE files[k]]
  BY <1>1, <1>3
<1>5. Here' = Here
  BY DEF Here
<1>6. ASSUME NEW k \in Handles PROVE FileIs(files[k])'
  <2>1. PICK g : g = IF k = h THEN f ELSE files[k]
    OBVIOUS
  <2>2. FileIs(g)
    BY <1>2, <1>3, <2>1
  <2>3. FileIs(g)'
    BY <1>5, <2>2, FileStays
  <2> QED BY <1>4, <2>1, <2>3
<1> QED BY <1>2, <1>4, <1>6 DEF FilesAre

LEMMA CreateStep ==
    ASSUME PairInv, NEW h \in Handles, NEW name \in Names, Create(h, name)
    PROVE  PairInv' /\ D!Start
<1>1. PICK dir : dir = Fetch(ptr)
  OBVIOUS
<1>2. PICK id \in Int : id = FindName(Log(dir), name).id
  <2>1. Log(dir) \in Seq(Tags)
    BY <1>1, PairIsHere DEF PairInv, FlashIs, IsBlock
  <2> QED BY <2>1, FindNameIs
<1>3. /\ files' = [files EXCEPT ![h] = [open |-> TRUE, m |-> dir, id |-> id, name |-> name]]
      /\ Begin(D!Put(name, Fresh), dir, CreateAttrs(Log(dir), name, Fresh), h)
  BY <1>1, <1>2 DEF Create
<1>4. UNCHANGED <<flash, bad, ptr, super>>
  BY <1>3 DEF Begin
<1>5. FilesAre' /\ files'[h] # Closed /\ files'[h].m.pair # NullPair
  BY <1>1, <1>3, <1>4, OpenFilesAre
<1>6. dir \in Mdirs /\ OfPair(dir) /\ dir.rev = flash[Here].rev /\ Log(dir) = flash[Here].log
  BY <1>1, PairIsHere
<1>7. flash[Here].log \in Seq(Tags)
  BY PairIsHere DEF PairInv, FlashIs, IsBlock
<1>8. Fresh \in Structs /\ NoFile \notin Handles
  BY PairAssumption
<1>9. CreateAttrs(Log(dir), name, Fresh) \in Seq(Tags)
  BY <1>6, <1>7, <1>8, AttrsAre
<1>10. PICK what \in Doing : what = D!Put(name, Fresh)
  BY <1>8 DEF Doing
<1>11. PairInv' /\ OnFlash' = OnFlash
  BY <1>3, <1>5, <1>6, <1>9, <1>10, BeginIs
<1>12. commit = NoCommit /\ task' = what
  BY <1>3, <1>10 DEF Begin
<1>13. task \in D!Idle
  BY <1>12 DEF PairInv, TaskIs
<1> QED BY <1>8, <1>10, <1>11, <1>12, <1>13 DEF D!Start

LEMMA OpenStep ==
    ASSUME PairInv, NEW h \in Handles, NEW name \in Names, Open(h, name)
    PROVE  PairInv' /\ UNCHANGED <<OnFlash, task>>
<1> USE DEF PairInv
<1>1. PICK id \in Int : id = FindName(Log(Fetch(ptr)), name).id
  <2>1. Log(Fetch(ptr)) \in Seq(Tags)
    BY PairIsHere DEF PairInv, FlashIs, IsBlock
  <2> QED BY <2>1, FindNameIs
<1>2. /\ UNCHANGED <<flash, bad, ptr, super, commit, task>> /\ commit = NoCommit
      /\ files' = [files EXCEPT ![h] = [open |-> TRUE, m |-> Fetch(ptr), id |-> id, name |-> name]]
  BY <1>1 DEF Open
<1>3. FilesAre'
  BY <1>2, OpenFilesAre
<1>4. FlashIs' /\ PtrIs' /\ BadIs' /\ TaskIs' /\ CommitIs'
  BY <1>2 DEF FlashIs, PtrIs, BadIs, TaskIs, CommitIs, Here
<1>5. OnFlash' = OnFlash
  BY <1>2 DEF OnFlash, Fetch
<1> QED BY <1>2, <1>3, <1>4, <1>5

LEMMA SyncStep ==
    ASSUME PairInv, NEW h \in Handles, NEW s \in Structs, Sync(h, s)
    PROVE  PairInv' /\ D!Start
<1>1. PICK f : f = files[h]
  OBVIOUS
<1>2. /\ f.m.pair # NullPair /\ f.open /\ files' = files
      /\ Begin(D!Put(f.name, s), f.m, <<Tag("STRUCT", f.id, s)>>, h)
  BY <1>1 DEF Sync
<1>3. FileIs(f) /\ f # Closed
  BY <1>1, <1>2 DEF PairInv, FilesAre, Closed
<1>4. /\ f.m \in Mdirs /\ OfPair(f.m) /\ f.name \in Names /\ f.id \in Int
      /\ f.m.rev = flash[Here].rev \/ Stuck(f.m.pair[2])
  BY <1>2, <1>3 DEF FileIs
<1>5. UNCHANGED <<flash, bad, ptr, super>>
  BY <1>2 DEF Begin
<1>6. FilesAre'
  <2>1. files = [k \in Handles |-> files[k]] /\ \A k \in Handles : FileIs(files[k])
    BY DEF PairInv, FilesAre
  <2>2. Here' = Here
    BY <1>5 DEF Here
  <2>3. ASSUME NEW k \in Handles PROVE FileIs(files[k])'
    <3>1. PICK g : g = files[k] /\ FileIs(g)
      BY <2>1
    <3>2. FileIs(g)'
      BY <1>5, <2>2, <3>1, FileStays
    <3> QED BY <1>2, <3>1, <3>2
  <2> QED BY <1>2, <2>1, <2>3 DEF FilesAre
<1>7. files'[h] # Closed /\ files'[h].m.pair # NullPair
  BY <1>1, <1>2, <1>3
<1>8. <<Tag("STRUCT", f.id, s)>> \in Seq(Tags)
  <2>1. Tag("STRUCT", f.id, s) \in Tags
    BY <1>4 DEF Tag, Tags
  <2> QED BY <2>1
<1>9. PICK what \in Doing : what = D!Put(f.name, s)
  BY <1>4 DEF Doing
<1>10. PairInv' /\ OnFlash' = OnFlash
  BY <1>2, <1>4, <1>6, <1>7, <1>8, <1>9, BeginIs
<1>11. commit = NoCommit /\ task' = what
  BY <1>2, <1>9 DEF Begin
<1>12. task \in D!Idle
  BY <1>11 DEF PairInv, TaskIs
<1> QED BY <1>4, <1>9, <1>10, <1>11, <1>12 DEF D!Start

(* An operation without a file.                                            *)
LEMMA NoFileStep ==
    ASSUME PairInv, NEW what \in Doing, NEW attrs \in Seq(Tags),
           Begin(what, Fetch(ptr), attrs, NoFile), UNCHANGED files
    PROVE  PairInv' /\ OnFlash' = OnFlash /\ task \in D!Idle /\ task' = what
<1>1. UNCHANGED <<flash, bad, ptr, super>> /\ commit = NoCommit /\ task' = what
  BY DEF Begin
<1>2. Fetch(ptr) \in Mdirs /\ OfPair(Fetch(ptr)) /\ Fetch(ptr).rev = flash[Here].rev
  BY PairIsHere
<1>3. FilesAre'
  <2>1. files = [k \in Handles |-> files[k]] /\ \A k \in Handles : FileIs(files[k])
    BY DEF PairInv, FilesAre
  <2>2. Here' = Here
    BY <1>1 DEF Here
  <2>3. ASSUME NEW k \in Handles PROVE FileIs(files[k])'
    <3>1. PICK g : g = files[k] /\ FileIs(g)
      BY <2>1
    <3>2. FileIs(g)'
      BY <1>1, <2>2, <3>1, FileStays
    <3> QED BY <3>1, <3>2
  <2> QED BY <2>1, <2>3 DEF FilesAre
<1>4. PICK dir : dir = Fetch(ptr)
  OBVIOUS
<1>5. PairInv' /\ OnFlash' = OnFlash
  BY <1>2, <1>3, <1>4, BeginIs
<1>6. task \in D!Idle
  BY <1>1 DEF PairInv, TaskIs
<1> QED BY <1>1, <1>5, <1>6

LEMMA FoundIsThere ==
    ASSUME PairInv, LookupsAgree, commit = NoCommit, NEW n \in Names,
           FindName(Log(Fetch(ptr)), n).valid
    PROVE  n \in DOMAIN OnFlash
<1>1. PICK log : log = Log(Fetch(ptr))
  OBVIOUS
<1>2. OnFlash = Directory(Replay(log))
  BY <1>1, PairIsHere DEF PairInv, FlashIs, IsBlock
<1>3. \E i \in DOMAIN Replay(log) : Replay(log)[i].name = n
  BY <1>1 DEF LookupsAgree
<1> QED BY <1>2, <1>3 DEF Directory

LEMMA UnlinkStep ==
    ASSUME PairInv, LookupsAgree, NEW n \in Names, Unlink(n)
    PROVE  PairInv' /\ D!Start
<1>1. PICK log \in Seq(Tags) : log = Log(Fetch(ptr))
  BY PairIsHere DEF PairInv, FlashIs, IsBlock
<1>2. /\ FindName(Log(Fetch(ptr)), n).valid
      /\ Begin(D!Remove(n), Fetch(ptr), RemoveAttrs(log, n), NoFile) /\ UNCHANGED files
  BY <1>1 DEF Unlink
<1>3. RemoveAttrs(log, n) \in Seq(Tags)
  <2>1. Fresh \in Structs
    BY PairAssumption
  <2> QED BY <2>1, AttrsAre
<1>4. PICK what \in Doing : what = D!Remove(n)
  BY DEF Doing
<1>5. PairInv' /\ OnFlash' = OnFlash /\ task \in D!Idle /\ task' = what
  BY <1>2, <1>3, <1>4, NoFileStep
<1>6. commit = NoCommit
  BY <1>2 DEF Begin
<1>7. n \in DOMAIN OnFlash
  BY <1>2, <1>6, FoundIsThere
<1> QED BY <1>4, <1>5, <1>7 DEF D!Start

LEMMA RenameStep ==
    ASSUME PairInv, LookupsAgree, NEW n \in Names, NEW m \in Names, Rename(n, m)
    PROVE  PairInv' /\ D!Start
<1>1. PICK log \in Seq(Tags) : log = Log(Fetch(ptr))
  BY PairIsHere DEF PairInv, FlashIs, IsBlock
<1>2. /\ FindName(Log(Fetch(ptr)), n).valid
      /\ Begin(D!Rename(n, m), Fetch(ptr), RenameAttrs(log, n, m), NoFile) /\ UNCHANGED files
  BY <1>1 DEF Rename
<1>3. RenameAttrs(log, n, m) \in Seq(Tags)
  <2>1. Fresh \in Structs
    BY PairAssumption
  <2> QED BY <2>1, AttrsAre
<1>4. PICK what \in Doing : what = D!Rename(n, m)
  BY DEF Doing
<1>5. PairInv' /\ OnFlash' = OnFlash /\ task \in D!Idle /\ task' = what
  BY <1>2, <1>3, <1>4, NoFileStep
<1>6. commit = NoCommit
  BY <1>2 DEF Begin
<1>7. n \in DOMAIN OnFlash
  BY <1>2, <1>6, FoundIsThere
<1> QED BY <1>4, <1>5, <1>7 DEF D!Start

LEMMA CloseStep ==
    ASSUME PairInv, NEW h \in Handles, Close(h)
    PROVE  PairInv' /\ UNCHANGED <<OnFlash, task>>
<1> USE DEF PairInv
<1>1. /\ UNCHANGED <<flash, bad, ptr, super, commit, task>> /\ commit = NoCommit
      /\ files' = [files EXCEPT ![h] = Closed]
  BY DEF Close
<1>2. FilesAre'
  <2>1. files = [k \in Handles |-> files[k]] /\ \A k \in Handles : FileIs(files[k])
    BY DEF PairInv, FilesAre
  <2>2. files' = [k \in Handles |-> IF k = h THEN Closed ELSE files[k]] /\ Here' = Here
    BY <1>1, <2>1 DEF Here
  <2>3. ASSUME NEW k \in Handles PROVE FileIs(files[k])'
    <3>1. PICK g : g = files'[k] /\ FileIs(g)
      <4>1. FileIs(Closed)
        BY DEF FileIs
      <4> QED BY <2>1, <2>2, <4>1
    <3>2. FileIs(g)'
      BY <1>1, <2>2, <3>1, FileStays
    <3> QED BY <3>1, <3>2
  <2> QED BY <2>2, <2>3 DEF FilesAre
<1>3. FlashIs' /\ PtrIs' /\ BadIs' /\ TaskIs' /\ CommitIs'
  BY <1>1 DEF FlashIs, PtrIs, BadIs, TaskIs, CommitIs, Here
<1>4. OnFlash' = OnFlash
  BY <1>1 DEF OnFlash, Fetch
<1> QED BY <1>1, <1>2, <1>3, <1>4

-----------------------------------------------------------------------------
(* What begins: the entries the commit leaves are g.                       *)
Starts(what, attrs, file, g) ==
    /\ task' = what /\ commit' # NoCommit
    /\ commit'.attrs = attrs /\ commit'.file = file
    /\ flash' = flash /\ Ents' = Ents /\ OnFlash' = OnFlash
    /\ Sound(commit'.appended.log, g) /\ Sound(commit'.compacted.log, g)
    /\ commit'.appended.dir = D!Effect(OnFlash, what)

LEMMA BeginStarts ==
    ASSUME PairInv, LogInv, FewNames, NEW what, NEW dir, NEW attrs, NEW file, Begin(what, dir, attrs, file),
           Log(dir) = flash[Here].log, NEW g, Sound(flash[Here].log \o attrs, g),
           Directory(g) = D!Effect(OnFlash, what)
    PROVE  Starts(what, attrs, file, g)
<1>1. UNCHANGED <<flash, bad, ptr, super>> /\ Here' = Here
  BY DEF Begin, Here
<1>2. OnFlash' = OnFlash /\ Ents' = Ents
  BY <1>1 DEF OnFlash, Fetch, Ents
<1>3. PICK app, com : app = Appended(dir, attrs) /\ com = Whole(NextRev(dir), Compacted(Log(dir) \o attrs))
  OBVIOUS
<1>4. PICK ph, c : c = [phase |-> ph, dir |-> dir, attrs |-> attrs, file |-> file, n |-> 0,
                        appended |-> app, compacted |-> com, relocated |-> FALSE, tried |-> {}]
                   /\ ph \in {"Append", "Compact"} /\ commit' = c
  BY <1>3 DEF Begin
<1>5. c # NoCommit /\ c.attrs = attrs /\ c.file = file /\ c.appended = app /\ c.compacted = com
  BY <1>4 DEF NoCommit
<1>6. PICK w : w = flash[Here].log \o attrs
  OBVIOUS
<1>7. app.log = w /\ app.dir = Directory(Replay(w))
  BY <1>3, <1>6 DEF Appended, Content
<1>8. com.log = Compacted(w)
  BY <1>3, <1>6 DEF Whole, Content
<1>9. Sound(w, g) /\ g = Replay(w) /\ Len(g) < NoId
  BY <1>6, SoundIs
<1>10. Sound(Compacted(w), g)
  BY <1>9, CompactedIsSound
<1>11. task' = what
  BY DEF Begin
<1> QED BY <1>1, <1>2, <1>4, <1>5, <1>7, <1>8, <1>9, <1>10, <1>11 DEF Starts

LEMMA StartLog ==
    ASSUME PairInv, LogInv, NEW what, NEW attrs, NEW file, NEW g, Starts(what, attrs, file, g),
           \A h \in Handles : Stays(h)' /\ Lands(h)'
    PROVE  LogInv'
<1>1. AllSound'
  BY DEF LogInv, AllSound, Starts
<1>2. FilesSit'
  BY DEF FilesSit, Starts
<1>3. After' = g
  BY SoundIs DEF Starts, After
<1>4. CommitMeans'
  BY <1>3 DEF CommitMeans, Starts
<1> QED BY <1>1, <1>2, <1>4 DEF LogInv

(* Where the commit begun takes a file that has an entry.                  *)
Goes(h, c, x) ==
    IF files'[h].id > c THEN files'[h].id - 1
    ELSE IF h # commit'.file /\ files'[h].id >= x THEN files'[h].id + 1
    ELSE files'[h].id

LEMMA LandsThen ==
    ASSUME NEW h \in Handles, NEW what, NEW attrs, NEW file, NEW g, Starts(what, attrs, file, g),
           NEW c, NEW x, Deleted' = c, Created' = x, NEW id, id = files'[h].id, NEW n, n = NameThen(h)',
           files'[h].m.pair # NullPair,
           id = c => n = None,
           id # c => n # None /\ NameOf(g, Goes(h, c, x)) = n
    PROVE  Lands(h)'
<1>1. After' = g
  BY SoundIs DEF Starts, After
<1>2. IdThen(h)' = Goes(h, c, x)
  BY DEF IdThen, Goes
<1> QED BY <1>1, <1>2 DEF Lands

LEMMA LandsAway ==
    ASSUME NEW h \in Handles, files'[h].open => files'[h].m.pair = NullPair /\ files'[h].name = None
    PROVE  Lands(h)'
BY DEF Lands

LEMMA MaxOne == ASSUME NEW i \in Nat PROVE Max({i}) = i
BY DEF Max

LEMMA CreatedOf ==
    ASSUME NEW c, NEW n, NEW s,
           commit'.attrs = <<Tag("CREATE", c, None), Tag("NAME", c, n), Tag("STRUCT", c, s)>>
    PROVE  Deleted' = NoId /\ Created' = c /\ Splices'
<1>1. PICK a : a = commit'.attrs
  OBVIOUS
<1>2. DOMAIN a = 1..3 /\ a[1].t = "CREATE" /\ a[1].id = c /\ a[2].t = "NAME" /\ a[3].t = "STRUCT"
  BY <1>1 DEF Tag
<1>3. {i \in DOMAIN a : a[i].t = "DELETE"} = {}
  BY <1>2
<1>4. {i \in DOMAIN a : a[i].t = "CREATE"} = {1}
  BY <1>2
<1>5. Deleted' = NoId
  BY <1>1, <1>3 DEF Deleted, LastOf
<1>6. Created' = c
  <2>1. Max({1}) = 1
    BY MaxOne
  <2>2. Created' = a[Max({1})].id
    BY <1>1, <1>4 DEF Created, LastOf
  <2> QED BY <1>2, <2>1, <2>2
<1>7. Splices'
  BY <1>1, <1>2 DEF Splices, IsSplice
<1> QED BY <1>5, <1>6, <1>7

LEMMA DeletedOf ==
    ASSUME NEW c, commit'.attrs = <<Tag("DELETE", c, None)>>
    PROVE  Deleted' = c /\ Created' = NoId
<1>1. PICK a : a = commit'.attrs
  OBVIOUS
<1>2. DOMAIN a = 1..1 /\ a[1].t = "DELETE" /\ a[1].id = c
  BY <1>1 DEF Tag
<1>3. {i \in DOMAIN a : a[i].t = "CREATE"} = {}
  BY <1>2
<1>4. {i \in DOMAIN a : a[i].t = "DELETE"} = {1}
  BY <1>2
<1>5. Created' = NoId
  BY <1>1, <1>3 DEF Created, LastOf
<1>6. Deleted' = c
  <2>1. Max({1}) = 1
    BY MaxOne
  <2>2. Deleted' = a[Max({1})].id
    BY <1>1, <1>4 DEF Deleted, LastOf
  <2> QED BY <1>2, <2>1, <2>2
<1> QED BY <1>5, <1>6

LEMMA FilledOf ==
    ASSUME NEW c, NEW s, commit'.attrs = <<Tag("STRUCT", c, s)>>
    PROVE  Deleted' = NoId /\ Created' = NoId
<1>1. PICK a : a = commit'.attrs
  OBVIOUS
<1>2. DOMAIN a = 1..1 /\ a[1].t = "STRUCT"
  BY <1>1 DEF Tag
<1>3. {i \in DOMAIN a : a[i].t = "CREATE"} = {} /\ {i \in DOMAIN a : a[i].t = "DELETE"} = {}
  BY <1>2
<1> QED BY <1>1, <1>3 DEF Deleted, Created, LastOf

(* A file that is open between two operations.                             *)
LEMMA FileAtRest ==
    ASSUME PairInv, LogInv, FewNames, commit = NoCommit, NEW h \in Handles, files[h].open
    PROVE  \/ files[h].m.pair = NullPair /\ files[h].name = None
           \/ /\ files[h].m.pair # NullPair /\ files[h].name \in Names /\ files[h].name # None
              /\ files[h].id \in Nat /\ files[h].id < Len(Ents) /\ files[h].id < NoId
              /\ NameOf(Ents, files[h].id) = files[h].name
<1>1. PICK f : f = files[h]
  OBVIOUS
<1>2. Sits(f, Ents)
  BY <1>1 DEF LogInv, FilesSit
<1>3. FileIs(f) /\ f # Closed /\ f.open
  BY <1>1 DEF PairInv, FilesAre, Closed
<1>4. f.name \in Names \cup {None} /\ f.id \in Int /\ (f.m.pair = NullPair \/ f.name \in Names)
  BY <1>3 DEF FileIs
<1>5. Names \subseteq Nat \ {0}
  BY PairAssumption
<1>6. CASE f.name = None
  BY <1>1, <1>2, <1>3, <1>6 DEF Sits
<1>7. CASE f.name # None
  <2>1. f.m.pair # NullPair /\ NameOf(Ents, f.id) = f.name
    BY <1>2, <1>3, <1>7 DEF Sits
  <2>2. Sound(flash[Here].log, Ents)
    BY HereIsSound
  <2>3. Ents \in Seq(Entry) /\ Len(Ents) \in Nat /\ Len(Ents) < NoId
    BY <2>2, SoundIs
  <2>4. f.id \in 0..Len(Ents) - 1
    BY <1>4, <1>7, <2>1, <2>3, EntriesAre
  <2>5. f.id \in Nat /\ f.id < Len(Ents) /\ f.id < NoId
    BY <2>3, <2>4 DEF NoId
  <2> QED BY <1>1, <1>4, <1>7, <2>1, <2>5
<1> QED BY <1>6, <1>7

LEMMA PutsAt ==
    ASSUME NEW e, NEW g, NEW c \in Nat, NEW n, NEW s, Puts(e, g, c, n, s)
    PROVE  /\ NameOf(g, c) = n
           /\ \A q \in Nat : q < c => NameOf(g, q) = NameOf(e, q)
           /\ \A q \in Nat : q >= c => NameOf(g, q + 1) = NameOf(e, q)
<1>1. NameOf(g, c) = n
  BY DEF Puts
<1>2. ASSUME NEW q \in Nat, q < c PROVE NameOf(g, q) = NameOf(e, q)
  BY <1>2 DEF Puts
<1>3. ASSUME NEW q \in Nat, q >= c PROVE NameOf(g, q + 1) = NameOf(e, q)
  <2>1. PICK p \in Int : p = q + 1 /\ ~(p < c) /\ p # c /\ p - 1 = q
    BY <1>3
  <2>2. NameOf(g, p) = NameOf(e, p - 1)
    BY <2>1 DEF Puts
  <2> QED BY <2>1, <2>2
<1> QED BY <1>1, <1>2, <1>3

LEMMA RemovesAt ==
    ASSUME NEW e, NEW g, NEW c \in Nat, Removes(e, g, c)
    PROVE  /\ \A q \in Nat : q < c => NameOf(g, q) = NameOf(e, q)
           /\ \A q \in Nat : q > c => NameOf(g, q - 1) = NameOf(e, q)
<1>2. ASSUME NEW q \in Nat, q < c PROVE NameOf(g, q) = NameOf(e, q)
  BY <1>2 DEF Removes
<1>3. ASSUME NEW q \in Nat, q > c PROVE NameOf(g, q - 1) = NameOf(e, q)
  <2>1. PICK p \in Int : p = q - 1 /\ ~(p < c) /\ p + 1 = q
    BY <1>3
  <2>2. NameOf(g, p) = NameOf(e, p + 1)
    BY <2>1 DEF Removes
  <2> QED BY <2>1, <2>2
<1> QED BY <1>2, <1>3

LEMMA CreateLog ==
    ASSUME PairInv, LogInv, FewNames, NEW h \in Handles, NEW n \in Names, Create(h, n)
    PROVE  LogInv'
<1>1. PICK e, log : e = Ents /\ log = flash[Here].log
  OBVIOUS
<1>2. /\ Sound(log, e) /\ Here \in Blocks /\ Lists(OnFlash, e) /\ Log(Fetch(ptr)) = log
  BY <1>1, HereIsSound
<1>3. PICK c : c = FindName(log, n).id
  OBVIOUS
<1>4. /\ ~files[h].open /\ ~FindName(log, n).valid
      /\ files' = [files EXCEPT ![h] = [open |-> TRUE, m |-> Fetch(ptr), id |-> c, name |-> n]]
      /\ Begin(D!Put(n, Fresh), Fetch(ptr), CreateAttrs(log, n, Fresh), h)
  BY <1>2, <1>3 DEF Create
<1>5. Fresh \in Structs
  BY PairAssumption
<1>6. c \in Nat /\ c <= Len(e) /\ \E g : Sound(log \o CreateAttrs(log, n, Fresh), g) /\ Puts(e, g, c, n, Fresh)
  BY <1>2, <1>3, <1>4, <1>5, CreateTold
<1>7. PICK g : Sound(log \o CreateAttrs(log, n, Fresh), g) /\ Puts(e, g, c, n, Fresh)
  BY <1>6
<1>8. Directory(g) = D!Effect(OnFlash, D!Put(n, Fresh))
  <2>1. Lists(Directory(g), g)
    BY <1>7, SoundIs
  <2>2. Has(g, n, Fresh) /\ Alters(e, g, n)
    BY <1>6, <1>7, PutsHas
  <2>3. Directory(g) = D!With(OnFlash, n, Fresh)
    BY <1>2, <2>1, <2>2, WithIs
  <2> QED BY <2>3 DEF D!Effect, D!Put
<1>9. Starts(D!Put(n, Fresh), CreateAttrs(log, n, Fresh), h, g)
  BY <1>1, <1>2, <1>4, <1>7, <1>8, BeginStarts
<1>10. commit'.attrs = <<Tag("CREATE", c, None), Tag("NAME", c, n), Tag("STRUCT", c, Fresh)>> /\ commit'.file = h
  BY <1>3, <1>9 DEF Starts, CreateAttrs
<1>11. Deleted' = NoId /\ Created' = c /\ Splices'
  BY <1>10, CreatedOf
<1>12. commit = NoCommit /\ task' = D!Put(n, Fresh) /\ Ents' = e
  BY <1>1, <1>4, <1>9 DEF Begin, Starts
<1>13. files = [k \in Handles |-> files[k]]
  BY DEF PairInv, FilesAre
<1>14. Len(e) \in Nat /\ Len(e) < NoId
  BY <1>2, SoundIs
<1>15. Stays(h)' /\ Lands(h)'
  <2>1. Stays(h)'
    BY <1>10, <1>11 DEF Stays
  <2>2. files'[h] = [open |-> TRUE, m |-> Fetch(ptr), id |-> c, name |-> n]
    BY <1>4, <1>13
  <2>3. files'[h].id = c /\ files'[h].name = n /\ files'[h].m = Fetch(ptr)
    BY <2>2
  <2>4. files'[h].m.pair # NullPair
    BY <2>3, PairIsHere, PairAssumption DEF OfPair, NullPair
  <2>5. NameThen(h)' = n /\ n # None
    BY <1>10, <2>3, PairAssumption DEF NameThen, None
  <2>6. Goes(h, NoId, c) = c /\ c # NoId
    BY <1>6, <1>10, <1>14, <2>3 DEF Goes, NoId
  <2>7. NameOf(g, Goes(h, NoId, c)) = n
    <3>1. c \in Nat /\ Puts(e, g, c, n, Fresh)
      BY <1>6, <1>7
    <3>2. NameOf(g, c) = n
      BY <3>1, PutsAt
    <3> QED BY <2>6, <3>2
  <2>8. Lands(h)'
    BY <1>9, <1>11, <2>3, <2>4, <2>5, <2>6, <2>7, LandsThen
  <2> QED BY <2>1, <2>8
<1>16. ASSUME NEW k \in Handles, k # h PROVE Stays(k)' /\ Lands(k)'
  <2>1. files'[k] = files[k]
    BY <1>4, <1>13, <1>16
  <2>2. Stays(k)'
    BY <1>1, <1>12, <2>1 DEF LogInv, FilesSit, Stays
  <2>3. CASE ~files[k].open
    BY <2>1, <2>2, <2>3, LandsAway
  <2>4. CASE files[k].open /\ files[k].m.pair = NullPair /\ files[k].name = None
    BY <2>1, <2>2, <2>4, LandsAway
  <2>5. CASE /\ files[k].open
             /\ files[k].m.pair # NullPair /\ files[k].name \in Names /\ files[k].name # None
             /\ files[k].id \in Nat /\ files[k].id < Len(e) /\ files[k].id < NoId
             /\ NameOf(e, files[k].id) = files[k].name
    <3>1. NameThen(k)' = files[k].name
      BY <1>10, <1>12, <1>16, <2>1 DEF NameThen, Renamed, D!Put
    <3>2. PICK i \in Nat : i = files[k].id
      BY <2>5
    <3>3. Goes(k, NoId, c) = IF i >= c THEN i + 1 ELSE i
      BY <1>6, <1>10, <1>16, <2>1, <2>5, <3>2 DEF Goes, NoId
    <3>4. NameOf(g, Goes(k, NoId, c)) = files[k].name
      <4>1. CASE i >= c
        BY <1>6, <1>7, <2>5, <3>2, <3>3, <4>1, PutsAt
      <4>2. CASE i < c
        BY <1>6, <1>7, <2>5, <3>2, <3>3, <4>2, PutsAt
      <4> QED BY <1>6, <4>1, <4>2
    <3>5. i # NoId
      BY <2>5, <3>2 DEF NoId
    <3>6. Lands(k)'
      BY <1>9, <1>11, <2>1, <2>5, <3>1, <3>2, <3>4, <3>5, LandsThen
    <3> QED BY <2>2, <3>6
  <2> QED BY <1>1, <1>12, <2>2, <2>3, <2>4, <2>5, FileAtRest
<1> QED BY <1>9, <1>15, <1>16, StartLog

LEMMA SyncLog ==
    ASSUME PairInv, LogInv, FewNames, NEW h \in Handles, NEW s \in Structs, Sync(h, s)
    PROVE  LogInv'
<1>1. PICK e, log : e = Ents /\ log = flash[Here].log
  OBVIOUS
<1>2. Sound(log, e) /\ Here \in Blocks /\ Lists(OnFlash, e)
  BY <1>1, HereIsSound
<1>3. PICK f : f = files[h]
  OBVIOUS
<1>4. /\ f.open /\ f.m.pair # NullPair /\ files' = files
      /\ Begin(D!Put(f.name, s), f.m, <<Tag("STRUCT", f.id, s)>>, h)
  BY <1>3 DEF Sync
<1>5. commit = NoCommit
  BY <1>4 DEF Begin
<1>6. PICK c \in Nat, n \in Names : c = f.id /\ n = f.name /\ n # None /\ NameOf(e, c) = n /\ c < Len(e)
  BY <1>1, <1>3, <1>4, <1>5, FileAtRest
<1>7. \E g : Sound(log \o <<Tag("STRUCT", c, s)>>, g) /\ Fills(e, g, c, s)
  BY <1>2, <1>6, SyncTold
<1>8. PICK g : Sound(log \o <<Tag("STRUCT", c, s)>>, g) /\ Fills(e, g, c, s)
  BY <1>7
<1>9. Directory(g) = D!Effect(OnFlash, D!Put(n, s))
  <2>1. Lists(Directory(g), g)
    BY <1>8, SoundIs
  <2>2. Has(g, n, s) /\ Alters(e, g, n)
    BY <1>6, <1>8, FillsHas
  <2>3. Directory(g) = D!With(OnFlash, n, s)
    BY <1>2, <2>1, <2>2, WithIs
  <2> QED BY <2>3 DEF D!Effect, D!Put
<1>10. Log(f.m) = log
  BY <1>1, <1>3, <1>4, HereIsSound
<1>11. PICK attrs : attrs = <<Tag("STRUCT", c, s)>>
  OBVIOUS
<1>12. Starts(D!Put(n, s), attrs, h, g)
  <2>1. Begin(D!Put(n, s), f.m, attrs, h)
    BY <1>4, <1>6, <1>11
  <2>2. Sound(flash[Here].log \o attrs, g)
    BY <1>1, <1>8, <1>11
  <2> QED BY <1>1, <1>9, <1>10, <2>1, <2>2, BeginStarts
<1>13. commit'.attrs = <<Tag("STRUCT", c, s)>> /\ commit'.file = h /\ task' = D!Put(n, s) /\ Ents' = e
  BY <1>1, <1>11, <1>12 DEF Starts
<1>14. Deleted' = NoId /\ Created' = NoId
  BY <1>13, FilledOf
<1>15. ASSUME NEW k \in Handles PROVE Stays(k)' /\ Lands(k)'
  <2>1. files'[k] = files[k]
    BY <1>4
  <2>2. Stays(k)'
    BY <1>1, <1>5, <1>13, <2>1 DEF LogInv, FilesSit, Stays
  <2>3. CASE ~files[k].open
    BY <2>1, <2>2, <2>3, LandsAway
  <2>4. CASE files[k].open /\ files[k].m.pair = NullPair /\ files[k].name = None
    BY <2>1, <2>2, <2>4, LandsAway
  <2>5. CASE /\ files[k].open
             /\ files[k].m.pair # NullPair /\ files[k].name \in Names /\ files[k].name # None
             /\ files[k].id \in Nat /\ files[k].id < Len(e) /\ files[k].id < NoId
             /\ NameOf(e, files[k].id) = files[k].name
    <3>1. NameThen(k)' = files[k].name
      BY <1>13, <2>1 DEF NameThen, Renamed, D!Put
    <3>2. PICK i \in Nat : i = files[k].id /\ i < NoId
      BY <2>5
    <3>3. Goes(k, NoId, NoId) = i /\ i # NoId
      BY <2>1, <3>2 DEF Goes, NoId
    <3>4. NameOf(g, i) = NameOf(e, i)
      BY <1>8, <3>2 DEF Fills
    <3>5. NameOf(g, Goes(k, NoId, NoId)) = files[k].name
      BY <2>5, <3>2, <3>3, <3>4
    <3>6. Lands(k)'
      BY <1>12, <1>14, <2>1, <2>5, <3>1, <3>2, <3>3, <3>5, LandsThen
    <3> QED BY <2>2, <3>6
  <2> QED BY <1>1, <1>5, <2>3, <2>4, <2>5, FileAtRest
<1> QED BY <1>12, <1>15, StartLog

LEMMA UnlinkLog ==
    ASSUME PairInv, LogInv, FewNames, NEW n \in Names, Unlink(n)
    PROVE  LogInv'
<1>1. PICK e, log : e = Ents /\ log = flash[Here].log
  OBVIOUS
<1>2. Sound(log, e) /\ Here \in Blocks /\ Lists(OnFlash, e) /\ Log(Fetch(ptr)) = log
  BY <1>1, HereIsSound
<1>3. PICK c : c = FindName(log, n).id
  OBVIOUS
<1>4. /\ FindName(log, n).valid /\ files' = files
      /\ Begin(D!Remove(n), Fetch(ptr), RemoveAttrs(log, n), NoFile)
  BY <1>2 DEF Unlink
<1>5. commit = NoCommit
  BY <1>4 DEF Begin
<1>6. /\ c \in Nat /\ c < Len(e) /\ NameOf(e, c) = n
      /\ \E g : Sound(log \o RemoveAttrs(log, n), g) /\ Removes(e, g, c)
  BY <1>2, <1>3, <1>4, RemoveTold
<1>7. PICK g : Sound(log \o RemoveAttrs(log, n), g) /\ Removes(e, g, c)
  BY <1>6
<1>8. e \in Seq(Entry) /\ Ordered(e) /\ Mid(log, e, {})
  BY <1>2, SoundIs
<1>9. Directory(g) = D!Effect(OnFlash, D!Remove(n))
  <2>1. Lists(Directory(g), g)
    BY <1>7, SoundIs
  <2>2. c \in Nat /\ NameOf(e, c) = n /\ Removes(e, g, c)
    BY <1>6, <1>7
  <2>3. Alters(e, g, n) /\ \A t : ~Has(g, n, t)
    BY <1>8, <2>2, RemovesHas
  <2>4. Directory(g) = D!Without(OnFlash, n)
    BY <1>2, <2>1, <2>3, WithoutIs
  <2> QED BY <2>4 DEF D!Effect, D!Remove
<1>10. Starts(D!Remove(n), RemoveAttrs(log, n), NoFile, g)
  BY <1>1, <1>2, <1>4, <1>7, <1>9, BeginStarts
<1>11. commit'.attrs = <<Tag("DELETE", c, None)>> /\ commit'.file = NoFile /\ task' = D!Remove(n) /\ Ents' = e
  BY <1>1, <1>3, <1>10 DEF Starts, RemoveAttrs
<1>12. Deleted' = c /\ Created' = NoId
  BY <1>11, DeletedOf
<1>13. \A q \in Int : NameOf(e, q) = n => q = c
  BY <1>3, <1>8, FindNameFinds DEF Finds
<1>14. ASSUME NEW k \in Handles PROVE Stays(k)' /\ Lands(k)'
  <2>1. files'[k] = files[k] /\ k # NoFile
    BY <1>4, PairAssumption
  <2>2. Stays(k)'
    BY <1>1, <1>5, <1>11, <2>1 DEF LogInv, FilesSit, Stays
  <2>3. CASE ~files[k].open
    BY <2>1, <2>2, <2>3, LandsAway
  <2>4. CASE files[k].open /\ files[k].m.pair = NullPair /\ files[k].name = None
    BY <2>1, <2>2, <2>4, LandsAway
  <2>5. CASE /\ files[k].open
             /\ files[k].m.pair # NullPair /\ files[k].name \in Names /\ files[k].name # None
             /\ files[k].id \in Nat /\ files[k].id < Len(e) /\ files[k].id < NoId
             /\ NameOf(e, files[k].id) = files[k].name
    <3>1. PICK i \in Nat, x \in Names : i = files[k].id /\ i < NoId /\ x = files[k].name /\ x # None /\ NameOf(e, i) = x
      BY <2>5
    <3>2. PICK y : y = NameThen(k)'
      OBVIOUS
    <3>3. y = IF x = n THEN None ELSE x
      BY <1>11, <2>1, <3>1, <3>2 DEF NameThen, Renamed, D!Remove
    <3>4. CASE i = c
      <4>1. y = None
        BY <1>6, <3>1, <3>3, <3>4
      <4>2. Lands(k)'
        <5>1. files'[k].id = Deleted' /\ NameThen(k)' = None /\ files'[k].m.pair # NullPair
          BY <1>12, <2>1, <2>5, <3>1, <3>2, <3>4, <4>1
        <5> QED BY <5>1 DEF Lands
      <4> QED BY <2>2, <4>2
    <3>5. CASE i # c
      <4>1. y = x
        BY <1>13, <3>1, <3>3, <3>5
      <4>2. Goes(k, c, NoId) = IF i > c THEN i - 1 ELSE i
        BY <1>11, <2>1, <3>1 DEF Goes, NoId
      <4>3. NameOf(g, Goes(k, c, NoId)) = x
        <5>1. c \in Nat /\ Removes(e, g, c)
          BY <1>6, <1>7
        <5>2. CASE i > c
          BY <3>1, <4>2, <5>1, <5>2, RemovesAt
        <5>3. CASE i < c
          BY <3>1, <4>2, <5>1, <5>3, RemovesAt
        <5> QED BY <3>5, <5>1, <5>2, <5>3
      <4>4. Lands(k)'
        <5>1. files'[k].id # Deleted' /\ NameThen(k)' = x /\ x # None /\ files'[k].m.pair # NullPair
          BY <1>12, <2>1, <2>5, <3>1, <3>2, <3>5, <4>1
        <5>2. After' = g
          BY <1>10, SoundIs DEF Starts, After
        <5>3. IdThen(k)' = Goes(k, c, NoId)
          BY <1>12 DEF IdThen, Goes
        <5> QED BY <4>3, <5>1, <5>2, <5>3 DEF Lands
      <4> QED BY <2>2, <4>4
    <3> QED BY <3>4, <3>5
  <2> QED BY <1>1, <1>5, <2>3, <2>4, <2>5, FileAtRest
<1> QED BY <1>10, <1>14, StartLog

LEMMA RenameLog ==
    ASSUME PairInv, LogInv, FewNames, ~RenamesOpen, ~RenamesItself,
           NEW a \in Names, NEW b \in Names, Rename(a, b)
    PROVE  LogInv'
<1>1. PICK e, log : e = Ents /\ log = flash[Here].log
  OBVIOUS
<1>2. Sound(log, e) /\ Here \in Blocks /\ Lists(OnFlash, e) /\ Log(Fetch(ptr)) = log
  BY <1>1, HereIsSound
<1>3. /\ FindName(log, a).valid /\ files' = files /\ a # b /\ OpenFiles = {}
      /\ Begin(D!Rename(a, b), Fetch(ptr), RenameAttrs(log, a, b), NoFile)
  BY <1>2 DEF Rename
<1>4. PICK s : Has(e, a, s) /\ Becomes(log \o RenameAttrs(log, a, b), e, a, b, s)
  BY <1>2, <1>3, RenameTold
<1>5. PICK g : /\ Sound(log \o RenameAttrs(log, a, b), g)
               /\ Has(g, b, s) /\ \A t : ~Has(g, a, t)
               /\ \A m \in Names : m \notin {a, b} => \A t : Has(e, m, t) <=> Has(g, m, t)
  BY <1>4 DEF Becomes
<1>6. Directory(g) = D!Effect(OnFlash, D!Rename(a, b))
  <2>1. Lists(Directory(g), g)
    BY <1>5, SoundIs
  <2>2. Directory(g) = D!With(D!Without(OnFlash, a), b, OnFlash[a])
    BY <1>2, <1>3, <1>4, <1>5, <2>1, RenameIs
  <2> QED BY <1>3, <2>2 DEF D!Effect, D!Rename
<1>7. Starts(D!Rename(a, b), RenameAttrs(log, a, b), NoFile, g)
  BY <1>1, <1>2, <1>3, <1>5, <1>6, BeginStarts
<1>8. ASSUME NEW k \in Handles PROVE Stays(k)' /\ Lands(k)'
  <2>1. ~files'[k].open
    BY <1>3 DEF OpenFiles
  <2> QED BY <2>1 DEF Stays, Sits, Lands
<1> QED BY <1>7, <1>8, StartLog

LEMMA OpenLog ==
    ASSUME PairInv, LogInv, NEW h \in Handles, NEW n \in Names, Open(h, n)
    PROVE  LogInv'
<1>1. PICK e, log : e = Ents /\ log = flash[Here].log
  OBVIOUS
<1>2. Sound(log, e) /\ Log(Fetch(ptr)) = log
  BY <1>1, HereIsSound
<1>3. PICK c : c = FindName(log, n).id
  OBVIOUS
<1>4. /\ UNCHANGED <<flash, bad, ptr, super, commit>> /\ commit = NoCommit
      /\ FindName(log, n).valid
      /\ files' = [files EXCEPT ![h] = [open |-> TRUE, m |-> Fetch(ptr), id |-> c, name |-> n]]
  BY <1>2, <1>3 DEF Open
<1>5. NameOf(e, c) = n
  <2>1. Finds(e, FindName(log, n).id, FindName(log, n).valid, n)
    BY <1>2, SoundIs, FindNameFinds
  <2> QED BY <1>3, <1>4, <2>1 DEF Finds
<1>6. AllSound' /\ Ents' = e
  BY <1>1, <1>4 DEF LogInv, AllSound, Ents, Here
<1>7. FilesSit'
  <2>1. ASSUME NEW k \in Handles PROVE Sits(files'[k], e)
    <3>1. Sits(files[k], e)
      BY <1>1, <1>4 DEF LogInv, FilesSit
    <3>2. PICK f : f = [open |-> TRUE, m |-> Fetch(ptr), id |-> c, name |-> n]
      OBVIOUS
    <3>3. f.m.pair # NullPair /\ f.name = n /\ f.id = c /\ n # None
      BY <3>2, PairIsHere, PairAssumption DEF OfPair, NullPair, None
    <3>4. Sits(f, e)
      BY <1>5, <3>3 DEF Sits
    <3>5. files'[k] = f \/ files'[k] = files[k]
      BY <1>4, <3>2 DEF PairInv, FilesAre
    <3> QED BY <3>1, <3>4, <3>5
  <2> QED BY <1>6, <2>1 DEF FilesSit
<1>8. CommitMeans'
  BY <1>4 DEF CommitMeans
<1> QED BY <1>6, <1>7, <1>8 DEF LogInv

LEMMA CloseLog ==
    ASSUME PairInv, LogInv, NEW h \in Handles, Close(h)
    PROVE  LogInv'
<1>1. /\ UNCHANGED <<flash, bad, ptr, super, commit>> /\ commit = NoCommit
      /\ files' = [files EXCEPT ![h] = Closed]
  BY DEF Close
<1>2. AllSound' /\ Ents' = Ents
  BY <1>1 DEF LogInv, AllSound, Ents, Here
<1>3. FilesSit'
  <2>1. ASSUME NEW k \in Handles PROVE Sits(files'[k], Ents)
    <3>1. Sits(files[k], Ents)
      BY <1>1 DEF LogInv, FilesSit
    <3>2. Sits(Closed, Ents)
      BY DEF Sits, Closed
    <3>3. files'[k] = Closed \/ files'[k] = files[k]
      BY <1>1 DEF PairInv, FilesAre
    <3> QED BY <3>1, <3>2, <3>3
  <2> QED BY <1>2, <2>1 DEF FilesSit
<1>4. CommitMeans'
  BY <1>1 DEF CommitMeans
<1> QED BY <1>2, <1>3, <1>4 DEF LogInv

(* What is read and written is told by the log, and nothing else happens   *)
(* when nothing changes.                                                   *)
LEMMA StutterIs ==
    ASSUME PairInv, LogInv, UNCHANGED vars
    PROVE  PairInv' /\ LogInv' /\ UNCHANGED <<OnFlash, task>>
<1>1. UNCHANGED <<flash, bad, ptr, super, files, commit, task>>
  BY DEF vars
<1>2. OnFlash' = OnFlash /\ Here' = Here /\ Pair' = Pair
  BY <1>1 DEF OnFlash, Fetch, Here, Pair
<1>3. FlashIs' /\ PtrIs' /\ BadIs' /\ TaskIs'
  BY <1>1, <1>2 DEF PairInv, FlashIs, PtrIs, BadIs, TaskIs
<1>4. FilesAre' /\ CommitIs'
  BY <1>1, <1>2 DEF PairInv, FilesAre, FileIs, OfPair, Stuck, CommitIs, CommitHas, CommitAt, NextTo
<1>5. Ents' = Ents /\ After' = After
  BY <1>1, <1>2 DEF Ents, After
<1>6. AllSound' /\ FilesSit'
  BY <1>1, <1>5 DEF LogInv, AllSound, FilesSit
<1>7. CommitMeans'
  <2>1. CASE commit = NoCommit
    BY <1>1, <2>1 DEF CommitMeans
  <2>2. CASE commit # NoCommit
    <3>1. Quiet
      BY <1>1, <1>2, <2>2 DEF Quiet, SameTask, LogsKept
    <3> QED BY <3>1, QuietLog DEF LogInv
  <2> QED BY <2>1, <2>2
<1> QED BY <1>1, <1>2, <1>3, <1>4, <1>6, <1>7 DEF PairInv, LogInv

LEMMA LogIs ==
    ASSUME NEW l \in Listings
    PROVE  LogOf(l) \in Seq(Tags)
<1>1. PICK k \in Nat : l \in [1..k -> [name : Names, struct : Structs]]
  BY DEF Listings
<1>2. DOMAIN l = 1..k /\ \A i \in 1..k : l[i].name \in Names /\ l[i].struct \in Structs
  BY <1>1
<1>3. [i \in DOMAIN l |-> Tag("NAME", i - 1, l[i].name)] \in [1..k -> Tags]
  BY <1>2 DEF Tag, Tags
<1>4. [i \in DOMAIN l |-> Tag("STRUCT", i - 1, l[i].struct)] \in [1..k -> Tags]
  BY <1>2 DEF Tag, Tags
<1>5. \A s \in [1..k -> Tags] : s \in Seq(Tags)
  BY IsASeq
<1> QED BY <1>3, <1>4, <1>5, ConcatProperties DEF LogOf

LEMMA InitIs ==
    ASSUME Init, SpareBlocks
    PROVE  PairInv
<1>1. PICK l \in Listings, rev \in 0..(Revs - 1) : \E old \in Earlier((rev - 1) % Revs) :
            flash = [b \in Blocks |-> CASE b = 1 -> Whole(rev, LogOf(l))
                                        [] b = 2 -> old
                                        [] OTHER -> Erased(0)]
  BY DEF Init
<1>2. PICK r2 \in 0..(Revs - 1) : r2 = (rev - 1) % Revs
  <2>1. rev - 1 \in Int
    BY PairAssumption
  <2> QED BY <2>1, ModIsInRange
<1>3. PICK old \in Earlier(r2) :
            flash = [b \in Blocks |-> CASE b = 1 -> Whole(rev, LogOf(l))
                                        [] b = 2 -> old
                                        [] OTHER -> Erased(0)]
  BY <1>1, <1>2
<1>4. /\ bad = {} /\ ptr = <<1, 2>> /\ super \in BOOLEAN /\ files = [h \in Handles |-> Closed]
      /\ commit = NoCommit /\ task = D!Returned
  BY DEF Init
<1>5. IsBlock(Whole(rev, LogOf(l))) /\ Whole(rev, LogOf(l)).used > 0
  BY LogIs, WholeIs
<1>6. IsBlock(old)
  <2>1. CASE old = Erased(r2)
    BY <2>1, TornIs
  <2>2. CASE \E m \in Listings : old = Whole(r2, LogOf(m))
    BY <2>2, LogIs, WholeIs
  <2> QED BY <2>1, <2>2 DEF Earlier
<1>7. IsBlock(Erased(0))
  <2>1. 0 \in 0..(Revs - 1)
    BY PairAssumption
  <2> QED BY <2>1, TornIs
<1>8. 1 \in Blocks /\ 2 \in Blocks
  BY PairAssumption
<1>9. FlashIs
  <2>1. PICK w, e : w = Whole(rev, LogOf(l)) /\ e = Erased(0) /\ IsBlock(w) /\ IsBlock(e)
    BY <1>5, <1>7
  <2>2. flash = [b \in Blocks |-> CASE b = 1 -> w [] b = 2 -> old [] OTHER -> e]
    BY <1>3, <2>1
  <2>3. \A b \in Blocks : flash[b] \in {w, old, e}
    BY <2>2
  <2> QED BY <1>6, <2>1, <2>2, <2>3 DEF FlashIs
<1>10. PtrIs
  <2>1. flash[1].used > 0
    BY <1>3, <1>5, <1>8
  <2>2. ptr[1] = 1 /\ ptr[2] = 2 /\ ptr \in Blocks \X Blocks
    BY <1>4, <1>8
  <2>3. flash[Here].used > 0
    BY <2>1, <2>2 DEF Here, Best
  <2> QED BY <1>4, <2>2, <2>3 DEF PtrIs
<1>11. FilesAre
  BY <1>4 DEF FilesAre, FileIs
<1>12. CommitIs /\ TaskIs
  BY <1>4 DEF CommitIs, TaskIs, D!Idle
<1>14. BadIs
  BY <1>4, FS_EmptySet DEF BadIs, SpareBlocks
<1> QED BY <1>9, <1>10, <1>11, <1>12, <1>14 DEF PairInv

LEMMA InitIsRight ==
    ASSUME Init, SpareBlocks, FewNames
    PROVE  PairInv /\ LogInv /\ D!Init
<1>0. PairInv
  BY InitIs
<1>1. PICK l \in Listings, rev \in 0..(Revs - 1) : \E old \in Earlier((rev - 1) % Revs) :
            flash = [b \in Blocks |-> CASE b = 1 -> Whole(rev, LogOf(l))
                                        [] b = 2 -> old
                                        [] OTHER -> Erased(0)]
  BY DEF Init
<1>2. PICK r2, old : old \in Earlier(r2) /\
            flash = [b \in Blocks |-> CASE b = 1 -> Whole(rev, LogOf(l))
                                        [] b = 2 -> old
                                        [] OTHER -> Erased(0)]
  BY <1>1
<1>3. ASSUME NEW m \in Listings PROVE Sound(LogOf(m), Replay(LogOf(m)))
  <2>1. PICK k \in 0..Cardinality(Names) : m \in [1..k -> [name : Names, struct : Structs]]
    BY DEF Listings
  <2>2. Cardinality(Names) \in Nat /\ Cardinality(Names) + 1 < NoId
    BY FS_CardinalityType DEF FewNames
  <2>3. Len(m) = k /\ k < NoId
    BY <2>1, <2>2 DEF NoId
  <2>4. Sound(LogOf(m), m)
    BY <2>3, ListingIsSound
  <2>5. m = Replay(LogOf(m))
    BY <2>4, SoundIs
  <2> QED BY <2>4, <2>5
<1>4. Sound(<<>>, Replay(<<>>))
  BY EmptyIsSound, SoundIs
<1>5. AllSound
  <2>1. ASSUME NEW r, NEW w PROVE Whole(r, w).log = w /\ Erased(r).log = <<>>
    BY DEF Whole, Erased, Content
  <2>2. PICK s : s = Whole(rev, LogOf(l)) /\ s.log = LogOf(l)
    BY <2>1
  <2>3. PICK o : o = Erased(0) /\ o.log = <<>>
    BY <2>1
  <2>4. old.log = <<>> \/ \E m \in Listings : old.log = LogOf(m)
    BY <1>2, <2>1 DEF Earlier
  <2>5. ASSUME NEW b \in Blocks PROVE Sound(flash[b].log, Replay(flash[b].log))
    <3>1. flash[b] \in {s, old, o}
      BY <1>2, <2>2, <2>3
    <3> QED BY <1>3, <1>4, <2>2, <2>3, <2>4, <3>1
  <2> QED BY <2>5 DEF AllSound
<1>6. FilesSit /\ CommitMeans
  BY DEF Init, FilesSit, Sits, Closed, CommitMeans
<1>7. LogInv
  BY <1>5, <1>6 DEF LogInv
<1>8. OnFlash \in UNION {[S -> Structs] : S \in SUBSET Names}
  BY <1>0, <1>7, MeaningHolds DEF Meaning
<1>9. D!Init
  BY <1>8 DEF D!Init, Init
<1> QED BY <1>0, <1>7, <1>9

LEMMA NextIsRight ==
    ASSUME PairInv, LogInv, SpareBlocks, FewNames, ~RenamesOpen, ~RenamesItself, [Next]_vars
    PROVE  PairInv' /\ LogInv' /\ [D!Next]_(D!vars)
<1>0. LookupsAgree
  BY MeaningHolds DEF Meaning
<1>1. ASSUME NEW h \in Handles, NEW n \in Names, Create(h, n)
      PROVE  PairInv' /\ LogInv' /\ D!Start
  BY <1>1, CreateStep, CreateLog
<1>2. ASSUME NEW h \in Handles, NEW n \in Names, Open(h, n)
      PROVE  PairInv' /\ LogInv' /\ UNCHANGED <<OnFlash, task>>
  BY <1>2, OpenStep, OpenLog
<1>3. ASSUME NEW h \in Handles, NEW s \in Structs, Sync(h, s)
      PROVE  PairInv' /\ LogInv' /\ D!Start
  BY <1>3, SyncStep, SyncLog
<1>4. ASSUME NEW n \in Names, Unlink(n)
      PROVE  PairInv' /\ LogInv' /\ D!Start
  BY <1>0, <1>4, UnlinkStep, UnlinkLog
<1>5. ASSUME NEW n \in Names, NEW m \in Names, Rename(n, m)
      PROVE  PairInv' /\ LogInv' /\ D!Start
  BY <1>0, <1>5, RenameStep, RenameLog
<1>6. ASSUME NEW h \in Handles, Close(h)
      PROVE  PairInv' /\ LogInv' /\ UNCHANGED <<OnFlash, task>>
  BY <1>6, CloseStep, CloseLog
<1>7. ASSUME Quiet, PairInv'
      PROVE  PairInv' /\ LogInv' /\ UNCHANGED <<OnFlash, task>>
  BY <1>7, QuietLog DEF Quiet
<1>8. ASSUME Finishes, PairInv'
      PROVE  PairInv' /\ LogInv' /\ D!Finish
  BY <1>8, FinishLog DEF Finishes
<1>9. ASSUME GivesUp, PairInv'
      PROVE  PairInv' /\ LogInv' /\ D!GiveUp
  BY <1>9, GiveUpLog DEF GivesUp
<1>10. ASSUME Step
       PROVE  PairInv' /\ LogInv' /\ (UNCHANGED <<OnFlash, task>> \/ D!Finish \/ D!GiveUp)
  <2>1. CASE AppendUnit
    BY <1>7, <1>8, <2>1, AppendUnitStep
  <2>2. CASE NoRoom
    BY <1>7, <2>2, NoRoomStep
  <2>3. CASE Compact
    BY <1>7, <2>3, CompactStep
  <2>4. CASE Erase
    BY <1>7, <2>4, EraseStep
  <2>5. CASE Write
    BY <1>7, <1>8, <2>5, WriteStep
  <2>6. CASE Relocate
    BY <1>7, <2>6, RelocateStep
  <2>7. CASE Relink
    BY <1>8, <2>7, RelinkStep
  <2>8. CASE Frozen
    BY <1>9, <2>8, FrozenStep
  <2> QED BY <1>10, <2>1, <2>2, <2>3, <2>4, <2>5, <2>6, <2>7, <2>8 DEF Step
<1>11. ASSUME BlockFails
       PROVE  PairInv' /\ LogInv' /\ UNCHANGED <<OnFlash, task>>
  BY <1>7, <1>11, BlockFailsStep
<1>12. ASSUME PowerLoss
       PROVE  PairInv' /\ LogInv' /\ D!GiveUp
  BY <1>9, <1>12, PowerLossStep
<1>13. ASSUME UNCHANGED vars
       PROVE  PairInv' /\ LogInv' /\ UNCHANGED <<OnFlash, task>>
  BY <1>13, StutterIs
<1> QED BY <1>1, <1>2, <1>3, <1>4, <1>5, <1>6, <1>10, <1>11, <1>12, <1>13
        DEF Next, D!Next, D!vars

-----------------------------------------------------------------------------
(* The invariant: one block of the pair has a commit and is the one that   *)
(* is read, every log is one in which all readings agree, and the commit   *)
(* under way (lfs_dir_commit, lfs_dir_compact) will leave what was asked   *)
(* for, whichever of the two it ends with.                                 *)
THEOREM PairInvHolds ==
    ASSUME SpareBlocks, FewNames, ~RenamesOpen, ~RenamesItself
    PROVE  Spec => [](PairInv /\ LogInv)
<1>1. Init => PairInv /\ LogInv
  BY InitIsRight
<1>2. PairInv /\ LogInv /\ [Next]_vars => (PairInv /\ LogInv)'
  BY NextIsRight
<1> QED BY <1>1, <1>2, PTL DEF Spec

(* Searching the log backward for a tag (lfs_dir_getslice) and looking for *)
(* a name while fetching (lfs_dir_find_match) give the entries in the      *)
(* order of their names that the log stands for, after any commits,        *)
(* compactions and losses of power.                                        *)
THEOREM LookupsAlwaysAgree ==
    ASSUME SpareBlocks, FewNames, ~RenamesOpen, ~RenamesItself
    PROVE  Spec => []LookupsAgree
<1>1. PairInv /\ LogInv => LookupsAgree
  BY MeaningHolds DEF Meaning
<1> QED BY <1>1, PairInvHolds, PTL

(* The ids of the open files follow the entries created and deleted by     *)
(* others, and a file whose entry is removed is detached (the end of       *)
(* lfs_dir_commit).                                                        *)
THEOREM HandlesAlwaysFollow ==
    ASSUME SpareBlocks, FewNames, ~RenamesOpen, ~RenamesItself
    PROVE  Spec => []HandlesFollow
<1>1. PairInv /\ LogInv => HandlesFollow
  BY MeaningHolds DEF Meaning
<1> QED BY <1>1, PairInvHolds, PTL

(* The pair implements a directory in which every operation takes effect   *)
(* at once or not at all: what a mount would find (lfs_dir_fetchmatch) is  *)
(* the directory before the operation or behind it.                        *)
THEOREM PairKeepsDirectory ==
    ASSUME SpareBlocks, FewNames, ~RenamesOpen, ~RenamesItself
    PROVE  Spec => KeepsDirectory
<1>1. Init => D!Init
  BY InitIsRight
<1>2. PairInv /\ LogInv /\ [Next]_vars => [D!Next]_(D!vars)
  BY NextIsRight
<1> QED BY <1>1, <1>2, PairInvHolds, PTL DEF Spec, KeepsDirectory, D!Spec
=============================================================================
