---------------------------- MODULE LfsFileProofs ----------------------------
(***************************************************************************)
(* What TLAPS proves of the open files of littlefs, for any block size and *)
(* block count, any lookahead, any inline limit, any number of handles and *)
(* any calls of a careful caller (Careful): every block found by following *)
(* the skip pointers of a list is the one found block by block, and the    *)
(* traversal by twos meets all of them (PointersAgree); and a search that  *)
(* reports no space has looked at every block and found it in use          *)
(* (NoSpaceButPhantom).                                                        *)
(*                                                                         *)
(* The parts, in this order: powers of two, trailing zeros and bits, and   *)
(* the block of a position (IndexIsPlace); lists of blocks, and what is    *)
(* found, traversed and read of them; the lookahead window; the files and  *)
(* their lists (World); extending, relocating and copying a list; the      *)
(* invariant of a call under way (Inv), action by action; the files a      *)
(* device is laid out with; the theorems.                                  *)
(***************************************************************************)
EXTENDS LfsFile, SequenceTheorems, FiniteSetTheorems, WellFoundedInduction, TLAPS

-----------------------------------------------------------------------------
(* A set of numbers has a least element, which is how an induction over    *)
(* numbers is written here: the least counterexample has none before it.   *)
LEMMA LeastElement ==
    ASSUME NEW S \in SUBSET Nat, S # {}
    PROVE  \E x \in S : \A y \in S : x <= y
<1> DEFINE upTo == {1..x : x \in S}
<1>1. upTo \subseteq FiniteSubsetsOf(Nat) /\ upTo # {}
  <2>1. ASSUME NEW x \in S PROVE 1..x \in SUBSET Nat /\ IsFiniteSet(1..x)
    BY FS_Interval
  <2> QED BY <2>1 DEF FiniteSubsetsOf
<1>2. PICK T \in upTo : \A U \in upTo : ~(<<U, T>> \in StrictSubsetOrdering(Nat))
  BY <1>1, FS_StrictSubsetOrderingWellFounded, WFMin, Zenon
<1>3. PICK x \in S : T = 1..x
  OBVIOUS
<1>4. ASSUME NEW y \in S, y < x PROVE FALSE
  <2>1. 1..y \subseteq 1..x /\ x \in 1..x /\ x \notin 1..y /\ 1..y \in upTo
    BY <1>4
  <2>2. <<1..y, 1..x>> \in StrictSubsetOrdering(Nat)
    BY <2>1 DEF StrictSubsetOrdering
  <2> QED BY <1>2, <1>3, <2>1, <2>2
<1>5. \A y \in S : x <= y
  BY <1>4
<1> QED BY <1>5

(* Induction over the numbers up to n, of which P holds.                   *)
LEMMA UpTo ==
    ASSUME NEW n \in Nat, NEW P, 0 \in P, \A i \in 1..n : i - 1 \in P => i \in P
    PROVE  \A i \in 0..n : i \in P
<1> DEFINE S == {i \in 0..n : i \notin P}
<1> SUFFICES ASSUME S # {} PROVE FALSE
  OBVIOUS
<1>0. S \in SUBSET Nat
  OBVIOUS
<1>1. PICK k \in S : \A j \in S : k <= j
  <2> HIDE DEF S
  <2> QED BY <1>0, LeastElement
<1>2. k # 0 /\ k \in 1..n
  OBVIOUS
<1>3. k - 1 \in 0..n /\ k - 1 \notin S
  BY <1>1, <1>2
<1> QED BY <1>2, <1>3

(* Values of V, each computed from the one before.                         *)
IsFold(acc, V, base, n, step) ==
    acc \in [0..n -> V] /\ acc[0] = base /\ \A i \in 1..n : acc[i] = step[i][acc[i - 1]]

(* They exist, whatever the steps are.                                     *)
LEMMA FoldIs ==
    ASSUME NEW V, NEW base \in V, NEW n \in Nat, NEW step \in [1..n -> [V -> V]]
    PROVE  \E acc : IsFold(acc, V, base, n, step)
<1> USE DEF IsFold
<1> DEFINE Follows(acc, m) == acc[0] = base /\ \A i \in 1..m : acc[i] = step[i][acc[i - 1]]
           P == {m \in 0..n : \E acc \in [0..m -> V] : Follows(acc, m)}
<1>1. 0 \in P
  <2>1. PICK acc : acc = [i \in 0..0 |-> base]
    OBVIOUS
  <2>2. acc \in [0..0 -> V] /\ acc[0] = base /\ 0 \in 0..n
    BY <2>1
  <2>3. Follows(acc, 0)
    BY <2>2
  <2> HIDE DEF Follows
  <2> QED BY <2>2, <2>3
<1>2. ASSUME NEW m \in 1..n, m - 1 \in P PROVE m \in P
  <2>1. PICK acc \in [0..m - 1 -> V] : Follows(acc, m - 1)
    BY <1>2
  <2>2. PICK v \in V : v = step[m][acc[m - 1]]
    OBVIOUS
  <2>3. PICK f : f = [i \in 0..m |-> IF i = m THEN v ELSE acc[i]]
    OBVIOUS
  <2>4. f \in [0..m -> V]
    BY <2>3
  <2>5. ASSUME NEW i \in 1..m PROVE f[i] = step[i][f[i - 1]]
    <3>1. CASE i = m
      BY <2>2, <2>3, <3>1
    <3>2. CASE i # m
      <4>1. i \in 1..m - 1 /\ i - 1 \in 0..m /\ i - 1 # m
        BY <3>2
      <4>2. f[i] = acc[i] /\ f[i - 1] = acc[i - 1]
        BY <2>3, <3>2, <4>1
      <4> QED BY <2>1, <4>1, <4>2
    <3> QED BY <3>1, <3>2
  <2>6. f[0] = base
    BY <2>1, <2>3
  <2>7. Follows(f, m)
    BY <2>5, <2>6
  <2>8. m \in 0..n
    OBVIOUS
  <2> HIDE DEF Follows
  <2> QED BY <2>4, <2>7, <2>8
<1>3. n \in P
  <2> HIDE DEF P
  <2>1. \A i \in 0..n : i \in P
    BY <1>1, <1>2, UpTo
  <2> QED BY <2>1
<1> QED BY <1>3

(* What follows the same steps is the same.                                *)
LEMMA FoldIsOne ==
    ASSUME NEW V, NEW base \in V, NEW n \in Nat, NEW step \in [1..n -> [V -> V]],
           NEW acc, acc = [i \in 0..n |-> acc[i]], acc[0] = base,
           \A i \in 1..n : acc[i - 1] \in V => acc[i] = step[i][acc[i - 1]]
    PROVE  IsFold(acc, V, base, n, step)
<1>1. PICK P : P = {i \in 0..n : acc[i] \in V}
  OBVIOUS
<1>2. 0 \in P
  BY <1>1
<1>3. ASSUME NEW i \in 1..n, i - 1 \in P PROVE i \in P
  <2>1. acc[i - 1] \in V
    BY <1>1, <1>3
  <2>2. step[i] \in [V -> V]
    OBVIOUS
  <2>3. step[i][acc[i - 1]] \in V
    BY <2>1, <2>2
  <2>4. acc[i] = step[i][acc[i - 1]]
    BY <2>1
  <2> QED BY <1>1, <2>3, <2>4
<1>4. \A i \in 0..n : i \in P
  BY <1>2, <1>3, UpTo
<1>5. acc \in [0..n -> V]
  BY <1>1, <1>4
<1>6. ASSUME NEW i \in 1..n PROVE acc[i] = step[i][acc[i - 1]]
  <2>1. i - 1 \in 0..n
    OBVIOUS
  <2>2. acc[i - 1] \in V
    BY <1>1, <1>4, <2>1
  <2> QED BY <2>2
<1> QED BY <1>5, <1>6 DEF IsFold

-----------------------------------------------------------------------------
(* Powers of two.                                                          *)
LEMMA Pow2Is ==
    /\ Pow2[0] = 1
    /\ \A k \in Nat : Pow2[k] \in Nat \ {0} /\ Pow2[k + 1] = 2 * Pow2[k] /\ Pow2[k] > k
<1> DEFINE Powers(f) == f = [k \in Nat |-> IF k = 0 THEN 1 ELSE 2 * f[k - 1]]
           Double == [v \in Nat |-> 2 * v]
           IsUpTo(g, n) == g \in [0..n -> Nat] /\ g[0] = 1 /\ \A i \in 1..n : g[i] = 2 * g[i - 1]
<1>1. ASSUME NEW n \in Nat PROVE \E g : IsUpTo(g, n)
  <2>1. PICK step : step = [i \in 1..n |-> Double]
    OBVIOUS
  <2>2. step \in [1..n -> [Nat -> Nat]]
    BY <2>1
  <2>3. PICK g : IsFold(g, Nat, 1, n, step)
    BY <2>2, FoldIs
  <2>4. g \in [0..n -> Nat] /\ g[0] = 1
    BY <2>3 DEF IsFold
  <2>5. ASSUME NEW i \in 1..n PROVE g[i] = 2 * g[i - 1]
    <3>1. g[i] = step[i][g[i - 1]] /\ g[i - 1] \in Nat
      BY <2>3, <2>4 DEF IsFold
    <3> QED BY <2>1, <3>1
  <2> QED BY <2>4, <2>5
<1>2. ASSUME NEW n \in Nat, NEW m \in 0..n, NEW f, IsUpTo(f, n), NEW g, IsUpTo(g, m)
      PROVE  f[m] = g[m]
  <2>1. PICK P : P = {i \in 0..m : f[i] = g[i]}
    OBVIOUS
  <2>2. 0 \in P
    BY <1>2, <2>1
  <2>3. ASSUME NEW i \in 1..m, i - 1 \in P PROVE i \in P
    BY <1>2, <2>1, <2>3
  <2>4. \A i \in 0..m : i \in P
    BY <2>2, <2>3, UpTo
  <2> QED BY <2>1, <2>4
<1>3. PICK h : h = [n \in Nat |-> (CHOOSE g : IsUpTo(g, n))[n]]
  OBVIOUS
<1>4. ASSUME NEW n \in Nat PROVE \E g : IsUpTo(g, n) /\ h[n] = g[n]
  <2> HIDE DEF IsUpTo
  <2> QED BY <1>1, <1>3
<1>5. h[0] = 1
  BY <1>4
<1>6. ASSUME NEW n \in Nat \ {0} PROVE h[n] = 2 * h[n - 1]
  <2>1. PICK f : IsUpTo(f, n) /\ h[n] = f[n]
    BY <1>4
  <2>2. PICK g : IsUpTo(g, n - 1) /\ h[n - 1] = g[n - 1]
    <3>1. n - 1 \in Nat
      OBVIOUS
    <3> HIDE DEF IsUpTo
    <3> QED BY <1>4, <3>1
  <2>3. f[n - 1] = g[n - 1]
    <3>1. n - 1 \in 0..n /\ n - 1 \in Nat
      OBVIOUS
    <3> HIDE DEF IsUpTo
    <3> QED BY <1>2, <2>1, <2>2, <3>1
  <2>4. f[n] = 2 * f[n - 1]
    BY <2>1
  <2> QED BY <2>1, <2>2, <2>3, <2>4
<1>7. Powers(h)
  <2>1. h = [n \in Nat |-> h[n]]
    BY <1>3
  <2>2. PICK k : k = [n \in Nat |-> IF n = 0 THEN 1 ELSE 2 * h[n - 1]]
    OBVIOUS
  <2>3. ASSUME NEW n \in Nat PROVE h[n] = k[n]
    BY <1>5, <1>6, <2>2
  <2>4. h = k
    BY <2>1, <2>2, <2>3
  <2> QED BY <2>2, <2>4
<1>8. Powers(Pow2)
  <2>1. Pow2 = CHOOSE f : Powers(f)
    BY DEF Pow2
  <2> HIDE DEF Powers
  <2> QED BY <1>7, <2>1
<1>9. Pow2[0] = 1 /\ \A k \in Nat : Pow2[k + 1] = 2 * Pow2[k]
  BY <1>8
<1>10. ASSUME NEW n \in Nat PROVE Pow2[n] \in Nat \ {0} /\ Pow2[n] > n
  <2>1. PICK P : P = {i \in 0..n : Pow2[i] \in Nat \ {0} /\ Pow2[i] > i}
    OBVIOUS
  <2>2. 0 \in P
    BY <1>9, <2>1
  <2>3. ASSUME NEW i \in 1..n, i - 1 \in P PROVE i \in P
    <3>1. i - 1 \in Nat /\ Pow2[(i - 1) + 1] = 2 * Pow2[i - 1]
      BY <1>9
    <3> QED BY <2>1, <2>3, <3>1
  <2>4. \A i \in 0..n : i \in P
    BY <2>2, <2>3, UpTo
  <2> QED BY <2>1, <2>4
<1> QED BY <1>9, <1>10

(* Greater numbers have greater powers, which they divide.                 *)
LEMMA MaxIsElement ==
    ASSUME NEW S \in SUBSET Nat, S # {}, NEW n \in Nat, \A x \in S : x <= n
    PROVE  Max(S) \in S /\ \A x \in S : x <= Max(S)
<1>1. PICK R : R = {n - x : x \in S}
  OBVIOUS
<1>0. \A x \in S : x \in Nat
  OBVIOUS
<1>2. R \in SUBSET Nat /\ R # {}
  <2>1. ASSUME NEW x \in S PROVE n - x \in Nat
    BY <1>0
  <2> QED BY <1>1, <2>1
<1>3. PICK r \in R : \A y \in R : r <= y
  BY <1>2, LeastElement
<1>4. PICK m \in S : r = n - m
  BY <1>1
<1>5. ASSUME NEW x \in S PROVE m >= x
  <2>1. n - x \in R
    BY <1>1
  <2>2. n - m <= n - x /\ x \in Nat /\ m \in Nat
    BY <1>0, <1>3, <1>4, <2>1
  <2> QED BY <2>2
<1> QED BY <1>5 DEF Max

(* The least element of a set of numbers is in it and below the others.    *)
LEMMA MinIsLeast ==
    ASSUME NEW S \in SUBSET Nat, S # {}
    PROVE  Min(S) \in S /\ \A x \in S : Min(S) <= x
BY LeastElement DEF Min

(* Dividing by twice a number.                                             *)
LEMMA Halves ==
    ASSUME NEW n \in Nat, NEW m \in Nat \ {0}
    PROVE  /\ n = m * (n \div m) + (n % m)
           /\ n \div (2 * m) = (n \div 2) \div m
           /\ n % (2 * m) = 0 => n % m = 0
           /\ n % (2 * m) = 0 <=> n % 2 = 0 /\ (n \div 2) % m = 0
<1>1. n = m * (n \div m) + (n % m)
  OBVIOUS
<1>2. n \div (2 * m) = (n \div 2) \div m
  OBVIOUS
<1>3. n % (2 * m) = 0 <=> n % 2 = 0 /\ (n \div 2) % m = 0
  BY SMTT(30)
<1>4. ASSUME n % (2 * m) = 0 PROVE n % m = 0
  <2>1. PICK q \in Nat : q = n \div (2 * m)
    OBVIOUS
  <2>2. n = (2 * m) * q
    BY <1>4, <2>1
  <2>3. n = m * (2 * q)
    BY <2>2
  <2> QED BY <2>3
<1> QED BY <1>1, <1>2, <1>3, <1>4

(* lfs_ctz(): the powers of two that divide a number.                      *)
LEMMA CtzIs ==
    ASSUME NEW n \in Nat \ {0}
    PROVE  /\ Ctz(n) \in 0..n
           /\ \A k \in 0..Ctz(n) : n % Pow2[k] = 0 /\ Pow2[k] <= n
           /\ \A k \in Nat : n % Pow2[k] = 0 => k <= Ctz(n)
<1> DEFINE S == {k \in 0..n : n % Pow2[k] = 0}
<1>1. Ctz(n) = Max(S)
  BY DEF Ctz
<1>2. S \in SUBSET Nat /\ 0 \in S /\ \A x \in S : x <= n
  <2>1. n % 1 = 0
    OBVIOUS
  <2> QED BY <2>1, Pow2Is
<1>3. Max(S) \in S /\ \A x \in S : x <= Max(S)
  <2> HIDE DEF S
  <2> QED BY <1>2, MaxIsElement
<1>4. ASSUME NEW k \in Nat, n % Pow2[k] = 0 PROVE Pow2[k] <= n
  <2>1. PICK m \in Nat \ {0} : m = Pow2[k]
    BY Pow2Is
  <2>2. n % m = 0
    BY <1>4, <2>1
  <2>3. m <= n
    BY <2>2
  <2> QED BY <2>1, <2>3
<1>5. ASSUME NEW k \in Nat, n % Pow2[k] = 0 PROVE k <= Max(S)
  <2>1. Pow2[k] <= n /\ k < Pow2[k] /\ Pow2[k] \in Nat
    BY <1>4, <1>5, Pow2Is
  <2>2. k \in S
    BY <1>5, <2>1
  <2> QED BY <1>3, <2>2
<1>6. ASSUME NEW k \in Nat, n % Pow2[k + 1] = 0 PROVE n % Pow2[k] = 0
  <2>1. PICK m \in Nat \ {0} : m = Pow2[k] /\ Pow2[k + 1] = 2 * m
    BY Pow2Is
  <2>2. n % (2 * m) = 0
    BY <1>6, <2>1
  <2>3. n % m = 0
    BY <2>2, Halves
  <2> QED BY <2>1, <2>3
<1>7. ASSUME NEW k \in 0..Max(S) PROVE n % Pow2[k] = 0
  <2>1. PICK m \in Nat : m = Max(S) /\ n % Pow2[m] = 0
    BY <1>2, <1>3
  <2>2. PICK P : P = {i \in 0..m : n % Pow2[m - i] = 0}
    OBVIOUS
  <2>3. 0 \in P
    BY <2>1, <2>2
  <2>4. ASSUME NEW i \in 1..m, i - 1 \in P PROVE i \in P
    <3>1. m - i \in Nat /\ (m - i) + 1 = m - (i - 1)
      BY <2>1
    <3>2. n % Pow2[(m - i) + 1] = 0
      BY <2>2, <2>4, <3>1
    <3> QED BY <1>6, <2>2, <3>1, <3>2
  <2>5. \A i \in 0..m : i \in P
    BY <2>3, <2>4, UpTo
  <2>6. m - k \in 0..m /\ m - (m - k) = k
    BY <2>1
  <2> QED BY <2>2, <2>5, <2>6
<1>8. Max(S) \in 0..n
  <2>1. Max(S) \in Nat /\ Max(S) <= n
    <3> HIDE DEF S
    <3> QED BY <1>2, <1>3
  <2> QED BY <2>1
<1>9. ASSUME NEW k \in 0..Max(S) PROVE n % Pow2[k] = 0 /\ Pow2[k] <= n
  BY <1>4, <1>7, <1>8
<1> HIDE DEF S
<1> QED BY <1>1, <1>5, <1>8, <1>9

(* The block a pointer leads to has the pointers that come before it.      *)
LEMMA CtzBehind ==
    ASSUME NEW n \in Nat \ {0}, NEW k \in 0..Ctz(n)
    PROVE  /\ n - Pow2[k] \in 0..n - 1
           /\ n - Pow2[k] # 0 => Ctz(n - Pow2[k]) >= k
           /\ k < Ctz(n) => n - Pow2[k] # 0
<1>0. Ctz(n) \in 0..n
  BY CtzIs
<1>1. PICK m \in Nat \ {0} : m = Pow2[k] /\ n % m = 0 /\ m <= n
  <2>1. k \in Nat /\ n % Pow2[k] = 0 /\ Pow2[k] <= n
    BY <1>0, CtzIs
  <2>2. Pow2[k] \in Nat \ {0}
    BY <2>1, Pow2Is
  <2> QED BY <2>1, <2>2
<1>2. (n - m) % m = 0 /\ n - m \in 0..n - 1
  <2>1. PICK q \in Nat : q = n \div m
    BY <1>1
  <2>2. n = m * q
    <3>1. n = m * (n \div m) + (n % m)
      BY Halves
    <3> QED BY <1>1, <2>1, <3>1
  <2>3. q # 0
    BY <2>2
  <2>4. n - m = m * (q - 1) /\ q - 1 \in Nat
    BY <2>2, <2>3
  <2>5. (m * (q - 1)) % m = 0
    BY <2>4
  <2> QED BY <1>1, <2>4, <2>5
<1>3. ASSUME k < Ctz(n) PROVE n # m
  <2>1. k + 1 \in 0..Ctz(n) /\ Pow2[k + 1] = 2 * m
    BY <1>0, <1>1, <1>3, Pow2Is
  <2>2. 2 * m <= n
    BY <1>0, <2>1, CtzIs
  <2> QED BY <1>1, <2>2
<1>4. ASSUME n - m # 0 PROVE Ctz(n - m) >= k
  <2>1. n - m \in Nat \ {0} /\ k \in Nat
    BY <1>0, <1>2, <1>4
  <2>2. (n - m) % Pow2[k] = 0
    BY <1>1, <1>2
  <2>3. k <= Ctz(n - m)
    BY <2>1, <2>2, CtzIs
  <2>4. Ctz(n - m) \in Nat
    BY <2>1, CtzIs
  <2> QED BY <2>1, <2>3, <2>4
<1> QED BY <1>1, <1>2, <1>3, <1>4

(* The lowest bit of an even number is not its first.                      *)
LEMMA CtzOfEven ==
    ASSUME NEW n \in Nat \ {0}
    PROVE  /\ n % 2 = 0 => Ctz(n) >= 1
           /\ n % 2 = 1 => Ctz(n) = 0
<1>1. Pow2[0] = 1 /\ Pow2[1] = 2
  BY Pow2Is
<1>2. Ctz(n) \in Nat
  BY CtzIs
<1>3. ASSUME n % 2 = 0 PROVE Ctz(n) >= 1
  BY <1>1, <1>2, <1>3, CtzIs
<1>4. ASSUME n % 2 = 1, Ctz(n) >= 1 PROVE FALSE
  <2>1. 1 \in 0..Ctz(n)
    BY <1>2, <1>4
  <2>2. n % Pow2[1] = 0
    BY <2>1, CtzIs
  <2> QED BY <1>1, <1>4, <2>2
<1> QED BY <1>2, <1>3, <1>4

(* lfs_npw2(): the next power of two.                                      *)
LEMMA Npw2Is ==
    ASSUME NEW n \in Nat \ {0, 1}
    PROVE  Npw2(n) \in 1..n /\ Pow2[Npw2(n)] >= n /\ Pow2[Npw2(n) - 1] < n
<1> DEFINE S == {k \in 0..n : Pow2[k] >= n}
<1>1. Npw2(n) = Min(S)
  BY DEF Npw2
<1>2. S \in SUBSET Nat /\ n \in S
  BY Pow2Is
<1>3. PICK m : m = Min(S) /\ m \in S /\ \A x \in S : m <= x
  <2> HIDE DEF S
  <2> QED BY <1>2, MinIsLeast
<1>4. m # 0
  BY <1>3, Pow2Is
<1>5. Pow2[m - 1] < n
  <2>1. m - 1 \in 0..n /\ m - 1 \notin S
    BY <1>3, <1>4
  <2>2. Pow2[m - 1] \in Nat
    BY <2>1, Pow2Is
  <2> QED BY <2>1, <2>2
<1> QED BY <1>1, <1>3, <1>4, <1>5

(* The powers of two grow.                                                 *)
LEMMA Pow2Grows ==
    ASSUME NEW a \in Nat, NEW b \in Nat, a <= b
    PROVE  Pow2[a] <= Pow2[b]
<1>1. PICK P : P = {i \in 0..b - a : Pow2[a] <= Pow2[a + i]}
  OBVIOUS
<1>2. 0 \in P
  BY <1>1, Pow2Is
<1>3. ASSUME NEW i \in 1..b - a, i - 1 \in P PROVE i \in P
  <2>1. a + (i - 1) \in Nat /\ (a + (i - 1)) + 1 = a + i
    OBVIOUS
  <2>2. Pow2[a + i] = 2 * Pow2[a + (i - 1)] /\ Pow2[a + (i - 1)] \in Nat /\ Pow2[a] \in Nat
    BY <2>1, Pow2Is
  <2> QED BY <1>1, <1>3, <2>2
<1>4. b - a \in Nat
  OBVIOUS
<1>5. b - a \in P
  BY <1>2, <1>3, <1>4, UpTo
<1> QED BY <1>1, <1>5

-----------------------------------------------------------------------------
(* Positions.                                                              *)
LEMMA PlaceIs ==
    ASSUME NEW i \in Nat, NEW off \in 0..BlockSize - 1
    PROVE  Index(BlockSize * i + off) = i /\ (BlockSize * i + off) % BlockSize = off
<1>1. PICK B \in Nat \ {0} : B = BlockSize
  BY BlockSizeAssumption
<1>2. off \in 0..B - 1
  BY <1>1
<1>3. (B * i + off) \div B = i /\ (B * i + off) % B = off
  BY <1>2
<1> QED BY <1>1, <1>3 DEF Index

(* A position is the block it is in and the offset there.                  *)
LEMMA IndexIs ==
    ASSUME NEW pos \in Nat
    PROVE  /\ Index(pos) \in Nat
           /\ pos % BlockSize \in 0..BlockSize - 1
           /\ pos = BlockSize * Index(pos) + (pos % BlockSize)
<1>1. PICK B \in Nat \ {0} : B = BlockSize
  BY BlockSizeAssumption
<1>2. pos \div B \in Nat /\ pos % B \in 0..B - 1 /\ pos = B * (pos \div B) + (pos % B)
  OBVIOUS
<1> QED BY <1>1, <1>2 DEF Index

(* A later position is in no earlier block.                                *)
LEMMA IndexGrows ==
    ASSUME NEW p \in Nat, NEW q \in Nat, p <= q
    PROVE  Index(p) <= Index(q)
<1>1. PICK B \in Nat \ {0} : B = BlockSize
  BY BlockSizeAssumption
<1>2. PICK i \in Nat, r \in 0..B - 1 : i = Index(p) /\ p = B * i + r
  BY <1>1, IndexIs
<1>3. PICK j \in Nat, s \in 0..B - 1 : j = Index(q) /\ q = B * j + s
  BY <1>1, IndexIs
<1>4. i <= j
  <2> SUFFICES ASSUME i >= j + 1 PROVE FALSE
    BY <1>2, <1>3
  <2>1. B * i >= B * (j + 1)
    BY <1>1
  <2>2. B * (j + 1) = B * j + B
    OBVIOUS
  <2>3. B * i \in Nat /\ B * j \in Nat
    OBVIOUS
  <2> QED BY <1>2, <1>3, <2>1, <2>2, <2>3
<1> QED BY <1>2, <1>3, <1>4

(* The next position is in the same block, or it is the first of the next. *)
LEMMA IndexOfNext ==
    ASSUME NEW pos \in Nat \ {0}
    PROVE  /\ pos % BlockSize = 0 => /\ Index(pos) = Index(pos - 1) + 1
                                     /\ ((pos - 1) % BlockSize) + 1 = BlockSize
           /\ pos % BlockSize # 0 => /\ Index(pos) = Index(pos - 1)
                                     /\ ((pos - 1) % BlockSize) + 1 = pos % BlockSize
<1>1. PICK B \in Nat \ {0} : B = BlockSize
  BY BlockSizeAssumption
<1>2. PICK i \in Nat, r \in 0..B - 1 : i = Index(pos) /\ r = pos % B /\ pos = B * i + r
  BY <1>1, IndexIs
<1>3. CASE r = 0
  <2>1. i # 0
    BY <1>2, <1>3
  <2>2. PICK k \in Nat : k = i - 1
    BY <2>1
  <2>3. PICK q \in 0..BlockSize - 1 : q = B - 1
    BY <1>1
  <2>4. B * i = B * k + B
    BY <2>2
  <2>5. B * k \in Nat
    OBVIOUS
  <2>6. pos - 1 = BlockSize * k + q
    BY <1>1, <1>2, <1>3, <2>3, <2>4, <2>5
  <2>7. Index(pos - 1) = k /\ (pos - 1) % BlockSize = q
    BY <2>6, PlaceIs
  <2>8. pos % BlockSize = 0
    BY <1>1, <1>2, <1>3
  <2>9. Index(pos) = Index(pos - 1) + 1
    <3>1. i = k + 1
      BY <2>2
    <3>2. Index(pos) = i
      BY <1>2
    <3> QED BY <2>7, <3>1, <3>2
  <2>10. ((pos - 1) % BlockSize) + 1 = BlockSize
    BY <1>1, <2>3, <2>7
  <2> QED BY <2>8, <2>9, <2>10
<1>4. CASE r # 0
  <2>1. r - 1 \in 0..B - 1 /\ pos - 1 = B * i + (r - 1)
    BY <1>2, <1>4
  <2>2. Index(pos - 1) = i /\ (pos - 1) % BlockSize = r - 1
    BY <1>1, <2>1, PlaceIs
  <2> QED BY <1>1, <1>2, <1>4, <2>2
<1> QED BY <1>3, <1>4

-----------------------------------------------------------------------------
(* Lists of blocks.                                                        *)
IsList(fl, c, n) ==
    /\ c \in [0..n -> Blocks]
    /\ \A i \in 0..n :
        fl[c[i]].heads = IF i = 0 THEN <<>> ELSE [k \in 1..Ctz(i) + 1 |-> c[i - Pow2[k - 1]]]

(* Block i of a list points at the blocks i - 2^k of it, for every k up to *)
(* the number of trailing zeros of i.                                      *)
LEMMA PointerIs ==
    ASSUME NEW fl, NEW n \in Nat, NEW c, IsList(fl, c, n), NEW i \in 1..n
    PROVE  /\ DOMAIN fl[c[i]].heads = 1..Ctz(i) + 1
           /\ Len(fl[c[i]].heads) = Ctz(i) + 1
           /\ Ctz(i) \in Nat
           /\ \A k \in 0..Ctz(i) : /\ Pow2[k] \in 1..i
                                   /\ fl[c[i]].heads[k + 1] = c[i - Pow2[k]]
<1>1. Ctz(i) \in Nat
  BY CtzIs
<1>2. fl[c[i]].heads = [k \in 1..Ctz(i) + 1 |-> c[i - Pow2[k - 1]]]
  BY DEF IsList
<1>3. ASSUME NEW k \in 0..Ctz(i)
      PROVE  Pow2[k] \in 1..i /\ fl[c[i]].heads[k + 1] = c[i - Pow2[k]]
  <2>1. k \in Nat /\ k + 1 \in 1..Ctz(i) + 1 /\ (k + 1) - 1 = k
    BY <1>1
  <2>2. Pow2[k] \in Nat \ {0} /\ Pow2[k] <= i
    BY <2>1, Pow2Is, CtzIs, SMTT(30)
  <2> QED BY <1>2, <2>1, <2>2
<1>4. Ctz(i) + 1 \in Nat
  BY <1>1
<1>5. DOMAIN fl[c[i]].heads = 1..Ctz(i) + 1
  BY <1>2
<1>6. Len(fl[c[i]].heads) = Ctz(i) + 1
  <2>1. PICK m \in Nat : m = Ctz(i) + 1
    BY <1>4
  <2>2. PICK g : g = [k \in 1..Ctz(i) + 1 |-> c[i - Pow2[k - 1]]]
    OBVIOUS
  <2>3. Len([k \in 1..m |-> g[k]]) = m
    OBVIOUS
  <2>4. g = [k \in 1..m |-> g[k]]
    BY <2>1, <2>2
  <2> QED BY <1>2, <2>1, <2>2, <2>3, <2>4
<1> QED BY <1>1, <1>3, <1>5, <1>6

(* The pointer number k of block i.                                        *)
LEMMA PointsAt ==
    ASSUME NEW fl, NEW n \in Nat, NEW c, IsList(fl, c, n), NEW i \in 1..n, NEW k \in 0..Ctz(i)
    PROVE  fl[c[i]].heads[k + 1] = c[i - Pow2[k]]
<1>1. \A j \in 0..Ctz(i) : fl[c[i]].heads[j + 1] = c[i - Pow2[j]]
  BY PointerIs, SMTT(30)
<1> QED BY <1>1

(* lfs_ctz_find() finds the block of a position.                           *)
LEMMA FindIs ==
    ASSUME NEW fl, NEW size \in Nat \ {0}, NEW c, IsList(fl, c, Index(size - 1)),
           NEW pos \in Nat, Index(pos) <= Index(size - 1)
    PROVE  Find(fl, c[Index(size - 1)], size, pos) = c[Index(pos)]
<1> DEFINE Skip(at) ==
             IF at.index <= Index(pos) THEN at
             ELSE LET skip == Min({Npw2(at.index - Index(pos) + 1) - 1, Ctz(at.index)})
                  IN  [block |-> fl[at.block].heads[skip + 1], index |-> at.index - Pow2[skip]]
<1>1. PICK n \in Nat : n = Index(size - 1)
  BY IndexIs
<1>02. IsList(fl, c, n)
  BY <1>1
<1>01. PICK t \in 0..n : t = Index(pos)
  BY <1>1, IndexIs
<1> DEFINE x == [block |-> c[n], index |-> n]
           V == {[block |-> c[j], index |-> j] : j \in t..n}
           Fn(f) == f = [i \in 0..n |-> IF i = 0 THEN x
                             ELSE CHOOSE r \in {Skip(y) : y \in {f[i - 1]}} : TRUE]
<1>2. ASSUME NEW j \in t..n
      PROVE  \E k \in t..n : /\ Skip([block |-> c[j], index |-> j]) = [block |-> c[k], index |-> k]
                             /\ k < j \/ k = t
  <2>1. CASE j <= t
    <3>1. j = t
      BY <1>1, <1>01, <2>1
    <3> QED BY <1>1, <1>01, <3>1
  <2>2. CASE j > t
    <3>1. PICK d \in Nat \ {0, 1} : d = j - t + 1
      BY <1>1, <1>01, <2>2
    <3>2. PICK w \in Nat \ {0} : w = Npw2(d) /\ Pow2[w - 1] < d
      BY <3>1, Npw2Is
    <3>3. j \in 1..n /\ Ctz(j) \in Nat
      BY <1>1, <1>01, <2>2, CtzIs
    <3>4. PICK s \in 0..Ctz(j) : s = Min({w - 1, Ctz(j)}) /\ s <= w - 1
      <4>1. {w - 1, Ctz(j)} \in SUBSET Nat /\ {w - 1, Ctz(j)} # {}
        BY <3>2, <3>3
      <4>2. Min({w - 1, Ctz(j)}) \in {w - 1, Ctz(j)}
            /\ \A y \in {w - 1, Ctz(j)} : Min({w - 1, Ctz(j)}) <= y
        BY <4>1, MinIsLeast
      <4> QED BY <3>2, <3>3, <4>1, <4>2
    <3>5. Pow2[s] \in 1..j /\ fl[c[j]].heads[s + 1] = c[j - Pow2[s]]
      <4>1. \A k \in 0..Ctz(j) : Pow2[k] \in 1..j /\ fl[c[j]].heads[k + 1] = c[j - Pow2[k]]
      BY <1>1, <1>02, <3>3, PointerIs
    <4> QED BY <3>4, <4>1
    <3>6. Pow2[s] <= Pow2[w - 1] /\ Pow2[w - 1] \in Nat
      BY <3>2, <3>3, <3>4, Pow2Grows, Pow2Is
    <3>7. j - Pow2[s] \in t..n /\ j - Pow2[s] < j
      BY <1>1, <1>01, <3>1, <3>2, <3>3, <3>5, <3>6
    <3>8. Skip([block |-> c[j], index |-> j]) = [block |-> c[j - Pow2[s]], index |-> j - Pow2[s]]
      BY <1>1, <1>01, <2>2, <3>1, <3>2, <3>4, <3>5
    <3> QED BY <3>7, <3>8
  <2> QED BY <1>1, <1>01, <2>1, <2>2
<1>3. ASSUME NEW y \in V PROVE Skip(y) \in V
  <2> HIDE DEF Skip
  <2>1. PICK j \in t..n : y = [block |-> c[j], index |-> j]
    OBVIOUS
  <2>2. PICK k \in t..n : Skip(y) = [block |-> c[k], index |-> k]
    BY <1>2, <2>1
  <2> QED BY <2>2
<1>4. x \in V
  BY <1>1, <1>01
<1>5. PICK step : step = [i \in 1..n |-> [y \in V |-> Skip(y)]]
  OBVIOUS
<1>6. step \in [1..n -> [V -> V]]
  <2> HIDE DEF Skip, V
  <2> QED BY <1>3, <1>5
<1>7. PICK g : IsFold(g, V, x, n, step)
  <2> HIDE DEF V, x
  <2> QED BY <1>1, <1>01, <1>4, <1>6, FoldIs
<1>8. Fn(g)
  <2> HIDE DEF Skip, V, x
  <2>1. ASSUME NEW i \in 1..n PROVE g[i] = Skip(g[i - 1])
    <3>1. i - 1 \in 0..n /\ g[i - 1] \in V /\ g[i] = step[i][g[i - 1]]
      BY <1>7 DEF IsFold
    <3> QED BY <1>5, <3>1
  <2>2. g = [i \in 0..n |-> g[i]] /\ g[0] = x
    BY <1>7 DEF IsFold
  <2>3. PICK h : h = [i \in 0..n |-> IF i = 0 THEN x
                             ELSE CHOOSE r \in {Skip(y) : y \in {g[i - 1]}} : TRUE]
    OBVIOUS
  <2>4. ASSUME NEW i \in 0..n PROVE h[i] = g[i]
    <3>1. CASE i = 0
      BY <2>2, <2>3, <3>1
    <3>2. CASE i # 0
      <4>1. i \in 1..n
        BY <3>2
      <4>2. h[i] \in {Skip(y) : y \in {g[i - 1]}}
        BY <2>3, <3>2
      <4> QED BY <2>1, <4>1, <4>2
    <3> QED BY <3>1, <3>2
  <2>5. h = [i \in 0..n |-> h[i]]
    BY <2>3
  <2>6. g = h
    BY <2>2, <2>4, <2>5
  <2> QED BY <2>3, <2>6
<1>9. PICK f : Fn(f) /\ Find(fl, c[n], size, pos) = f[n].block
  <2>1. Find(fl, c[n], size, pos) = (CHOOSE f : Fn(f))[n].block
    BY <1>1, <1>01, Zenon DEF Find, Iterate
  <2> HIDE DEF Fn
  <2> QED BY <1>8, <2>1, Zenon
<1>10. f[0] = x /\ \A i \in 1..n : f[i] = Skip(f[i - 1])
  <2> HIDE DEF Skip, x
  <2>1. f[0] = x
    BY <1>9
  <2>2. ASSUME NEW i \in 1..n PROVE f[i] = Skip(f[i - 1])
    <3>1. i \in 0..n /\ i # 0
      OBVIOUS
    <3>2. f[i] = CHOOSE r \in {Skip(y) : y \in {f[i - 1]}} : TRUE
      BY <1>9, <3>1
    <3>3. f[i] \in {Skip(y) : y \in {f[i - 1]}}
      BY <3>2
    <3> QED BY <3>3
  <2> QED BY <2>1, <2>2
<1> DEFINE At(i) == \E j \in t..n : /\ f[i] = [block |-> c[j], index |-> j]
                                    /\ j <= n - i \/ j = t
<1>11. PICK P : P = {i \in 0..n : At(i)}
  OBVIOUS
<1>12. 0 \in P
  <2>1. At(0)
    BY <1>1, <1>10
  <2> HIDE DEF At
  <2> QED BY <1>11, <2>1
<1>13. ASSUME NEW i \in 1..n, i - 1 \in P PROVE i \in P
  <2> HIDE DEF Skip, x, V, Fn
  <2>0. At(i - 1)
    <3> HIDE DEF At
    <3> QED BY <1>11, <1>13
  <2>1. PICK j \in t..n : f[i - 1] = [block |-> c[j], index |-> j] /\ (j <= n - (i - 1) \/ j = t)
    BY <2>0
  <2>2. PICK k \in t..n : f[i] = [block |-> c[k], index |-> k] /\ (k < j \/ k = t)
    BY <1>2, <1>10, <2>1
  <2>3. At(i)
    BY <2>1, <2>2
  <2> HIDE DEF At
  <2> QED BY <1>11, <2>3
<1>14. At(n)
  <2> HIDE DEF At, Fn
  <2>1. n \in P
    BY <1>12, <1>13, UpTo
  <2> QED BY <1>11, <2>1
<1>15. PICK j \in t..n : f[n] = [block |-> c[j], index |-> j] /\ (j <= n - n \/ j = t)
  <2> HIDE DEF Skip, x, V, Fn
  <2> QED BY <1>14
<1>16. j = t
  BY <1>15
<1>17. f[n].block = c[t]
  <2> HIDE DEF Skip, x, V, Fn
  <2> QED BY <1>15, <1>16
<1> HIDE DEF Skip, x, V, Fn
<1> QED BY <1>1, <1>01, <1>9, <1>17

(* lfs_ctz_traverse() meets the blocks of the list.                        *)
LEMMA TraverseIs ==
    ASSUME NEW fl, NEW size \in Nat \ {0}, NEW c, IsList(fl, c, Index(size - 1))
    PROVE  Traverse(fl, c[Index(size - 1)], size) = {c[i] : i \in 0..Index(size - 1)}
<1> DEFINE Two(at) ==
             LET heads == fl[at.block].heads
                 count == 2 - (at.index % 2)
             IN  IF at.index <= 0 \/ Len(heads) < count THEN [at EXCEPT !.index = 0]
                 ELSE [block |-> heads[count], index |-> at.index - count,
                       seen |-> at.seen \cup {heads[i] : i \in 1..count}]
<1>1. PICK n \in Nat : n = Index(size - 1)
  BY IndexIs
<1>02. IsList(fl, c, n)
  BY <1>1
<1> DEFINE Bl(j) == {c[k] : k \in j..n}
           x == [block |-> c[n], index |-> n, seen |-> {c[n]}]
           V == {[block |-> c[j], index |-> j, seen |-> Bl(j)] : j \in 0..n}
           Fn(f) == f = [i \in 0..n |-> IF i = 0 THEN x
                             ELSE CHOOSE r \in {Two(y) : y \in {f[i - 1]}} : TRUE]
<1>2. ASSUME NEW j \in 0..n
      PROVE  \E k \in 0..n : /\ Two([block |-> c[j], index |-> j, seen |-> Bl(j)])
                                    = [block |-> c[k], index |-> k, seen |-> Bl(k)]
                             /\ k < j \/ k = 0
  <2>0. PICK at : at = [block |-> c[j], index |-> j, seen |-> Bl(j)]
    OBVIOUS
  <2>1. CASE j = 0
    <3>1. Two(at) = [at EXCEPT !.index = 0]
      <4> HIDE DEF Bl
      <4> QED BY <2>0, <2>1
    <3>2. [at EXCEPT !.index = 0] = at
      <4> HIDE DEF Bl
      <4> QED BY <2>0, <2>1
    <3> HIDE DEF Two, Bl
    <3> QED BY <1>1, <2>0, <2>1, <3>1, <3>2
  <2>2. CASE j # 0
    <3>1. j \in 1..n /\ j \in Nat \ {0}
      BY <1>1, <2>2
    <3>2. PICK w : w = fl[c[j]].heads
      OBVIOUS
    <3>3. Len(w) = Ctz(j) + 1 /\ Ctz(j) \in Nat
          /\ \A k \in 0..Ctz(j) : Pow2[k] \in 1..j /\ w[k + 1] = c[j - Pow2[k]]
      BY <1>1, <1>02, <3>1, <3>2, PointerIs
    <3>4. Pow2[0] = 1 /\ Pow2[1] = 2
      BY Pow2Is
    <3>5. 0 \in 0..Ctz(j) /\ w[1] = c[j - 1]
      <4>1. 0 \in 0..Ctz(j) /\ 0 + 1 = 1
        BY <3>3
      <4>2. w[0 + 1] = c[j - Pow2[0]]
        BY <3>3, <4>1
      <4> QED BY <3>4, <4>1, <4>2
    <3>6. CASE j % 2 = 1
      <4>1. PICK k \in 0..n : k = j - 1
        BY <3>1
      <4>2. Bl(j) \cup {w[i] : i \in 1..1} = Bl(k)
        <5>1. {w[i] : i \in 1..1} = {c[k]}
          BY <3>5, <4>1
        <5>2. Bl(k) = Bl(j) \cup {c[k]}
          BY <1>1, <4>1
        <5> QED BY <5>1, <5>2
      <4>3. Two(at) = [block |-> w[1], index |-> j - 1, seen |-> Bl(j) \cup {w[i] : i \in 1..1}]
        <5> HIDE DEF Bl
        <5>1. 2 - (j % 2) = 1
          BY <3>1, <3>6
        <5>2. at.block = c[j] /\ at.index = j /\ at.seen = Bl(j)
          BY <2>0
        <5>3. ~(at.index <= 0 \/ Len(w) < 1)
          BY <3>1, <3>3, <5>2
        <5> QED BY <3>2, <5>1, <5>2, <5>3
      <4>4. Two(at) = [block |-> c[k], index |-> k, seen |-> Bl(k)]
        <5> HIDE DEF Bl, Two
        <5> QED BY <3>5, <4>1, <4>2, <4>3
      <4> HIDE DEF Two, Bl
      <4> QED BY <2>0, <3>1, <4>1, <4>4
    <3>7. CASE j % 2 = 0
      <4>0. Ctz(j) >= 1
        BY <3>1, <3>7, CtzOfEven
      <4>1. 1 \in 0..Ctz(j) /\ 1 + 1 = 2
        BY <3>3, <4>0
      <4>2. w[2] = c[j - 2] /\ j >= 2
        <5>1. w[1 + 1] = c[j - Pow2[1]] /\ Pow2[1] \in 1..j
          BY <3>3, <4>1
        <5> QED BY <3>4, <4>1, <5>1
      <4>3. PICK k \in 0..n : k = j - 2
        BY <3>1, <4>2
      <4>4. Bl(j) \cup {w[i] : i \in 1..2} = Bl(k)
        <5>1. {w[i] : i \in 1..2} = {c[k], c[k + 1]}
          BY <3>1, <3>5, <4>2, <4>3
        <5>2. Bl(k) = Bl(j) \cup {c[k], c[k + 1]}
          BY <1>1, <4>3
        <5> QED BY <5>1, <5>2
      <4>5. Two(at) = [block |-> w[2], index |-> j - 2, seen |-> Bl(j) \cup {w[i] : i \in 1..2}]
        <5> HIDE DEF Bl
        <5>1. 2 - (j % 2) = 2
          BY <3>1, <3>7
        <5>2. at.block = c[j] /\ at.index = j /\ at.seen = Bl(j)
          BY <2>0
        <5>3. ~(at.index <= 0 \/ Len(w) < 2)
          BY <3>1, <3>3, <4>0, <5>2
        <5> QED BY <3>2, <5>1, <5>2, <5>3
      <4>6. Two(at) = [block |-> c[k], index |-> k, seen |-> Bl(k)]
        <5> HIDE DEF Bl, Two
        <5> QED BY <4>2, <4>3, <4>4, <4>5
      <4> HIDE DEF Two, Bl
      <4> QED BY <2>0, <3>1, <4>3, <4>6
    <3>8. j % 2 = 0 \/ j % 2 = 1
      BY <3>1
    <3> QED BY <3>6, <3>7, <3>8
  <2> QED BY <2>1, <2>2
<1>3. ASSUME NEW y \in V PROVE Two(y) \in V
  <2> HIDE DEF Two, Bl
  <2>1. PICK j \in 0..n : y = [block |-> c[j], index |-> j, seen |-> Bl(j)]
    OBVIOUS
  <2>2. PICK k \in 0..n : Two(y) = [block |-> c[k], index |-> k, seen |-> Bl(k)]
    BY <1>2, <2>1
  <2> QED BY <2>2
<1>4. x = [block |-> c[n], index |-> n, seen |-> Bl(n)] /\ x \in V
  <2>1. Bl(n) = {c[n]}
    BY <1>1
  <2>2. x = [block |-> c[n], index |-> n, seen |-> Bl(n)]
    BY <2>1
  <2>3. n \in 0..n
    BY <1>1
  <2> HIDE DEF x, Bl
  <2> QED BY <2>2, <2>3
<1>5. PICK step : step = [i \in 1..n |-> [y \in V |-> Two(y)]]
  OBVIOUS
<1>6. step \in [1..n -> [V -> V]]
  <2> HIDE DEF Two, V
  <2> QED BY <1>3, <1>5
<1>7. PICK g : IsFold(g, V, x, n, step)
  <2> HIDE DEF V, x
  <2> QED BY <1>1, <1>4, <1>6, FoldIs
<1>8. Fn(g)
  <2> HIDE DEF Two, V, x
  <2>1. ASSUME NEW i \in 1..n PROVE g[i] = Two(g[i - 1])
    <3>1. i - 1 \in 0..n /\ g[i - 1] \in V /\ g[i] = step[i][g[i - 1]]
      BY <1>7 DEF IsFold
    <3> QED BY <1>5, <3>1
  <2>2. g = [i \in 0..n |-> g[i]] /\ g[0] = x
    BY <1>7 DEF IsFold
  <2>3. PICK h : h = [i \in 0..n |-> IF i = 0 THEN x
                             ELSE CHOOSE r \in {Two(y) : y \in {g[i - 1]}} : TRUE]
    OBVIOUS
  <2>4. ASSUME NEW i \in 0..n PROVE h[i] = g[i]
    <3>1. CASE i = 0
      BY <2>2, <2>3, <3>1
    <3>2. CASE i # 0
      <4>1. i \in 1..n
        BY <3>2
      <4>2. h[i] \in {Two(y) : y \in {g[i - 1]}}
        BY <2>3, <3>2
      <4> QED BY <2>1, <4>1, <4>2
    <3> QED BY <3>1, <3>2
  <2>5. h = [i \in 0..n |-> h[i]]
    BY <2>3
  <2>6. g = h
    BY <2>2, <2>4, <2>5
  <2> QED BY <2>3, <2>6
<1>9. PICK f : Fn(f) /\ Traverse(fl, c[n], size) = f[n].seen
  <2>1. Traverse(fl, c[n], size) = (CHOOSE f : Fn(f))[n].seen
    BY <1>1, Zenon DEF Traverse, Iterate
  <2> HIDE DEF Fn
  <2> QED BY <1>8, <2>1, Zenon
<1>10. f[0] = x /\ \A i \in 1..n : f[i] = Two(f[i - 1])
  <2> HIDE DEF Two, x
  <2>1. f[0] = x
    BY <1>9
  <2>2. ASSUME NEW i \in 1..n PROVE f[i] = Two(f[i - 1])
    <3>1. i \in 0..n /\ i # 0
      OBVIOUS
    <3>2. f[i] = CHOOSE r \in {Two(y) : y \in {f[i - 1]}} : TRUE
      BY <1>9, <3>1
    <3>3. f[i] \in {Two(y) : y \in {f[i - 1]}}
      BY <3>2
    <3> QED BY <3>3
  <2> QED BY <2>1, <2>2
<1> DEFINE At(i) == \E j \in 0..n : /\ f[i] = [block |-> c[j], index |-> j, seen |-> Bl(j)]
                                    /\ j <= n - i \/ j = 0
<1>11. PICK P : P = {i \in 0..n : At(i)}
  OBVIOUS
<1>12. 0 \in P
  <2>1. At(0)
    <3>1. n \in 0..n /\ n <= n - 0
      BY <1>1
    <3> HIDE DEF Bl, x, Two
    <3> QED BY <1>4, <1>10, <3>1
  <2> HIDE DEF At
  <2> QED BY <1>11, <2>1
<1>13. ASSUME NEW i \in 1..n, i - 1 \in P PROVE i \in P
  <2> HIDE DEF Two, x, V, Fn, Bl
  <2>0. At(i - 1)
    <3> HIDE DEF At
    <3> QED BY <1>11, <1>13
  <2>1. PICK j \in 0..n : /\ f[i - 1] = [block |-> c[j], index |-> j, seen |-> Bl(j)]
                          /\ j <= n - (i - 1) \/ j = 0
    BY <2>0
  <2>2. PICK k \in 0..n : /\ f[i] = [block |-> c[k], index |-> k, seen |-> Bl(k)]
                          /\ k < j \/ k = 0
    BY <1>2, <1>10, <2>1
  <2>3. At(i)
    BY <2>1, <2>2
  <2> HIDE DEF At
  <2> QED BY <1>11, <2>3
<1>14. At(n)
  <2> HIDE DEF At, Fn
  <2>1. n \in P
    BY <1>12, <1>13, UpTo
  <2> QED BY <1>11, <2>1
<1>15. PICK j \in 0..n : /\ f[n] = [block |-> c[j], index |-> j, seen |-> Bl(j)]
                         /\ j <= n - n \/ j = 0
  <2> HIDE DEF Two, x, V, Fn, Bl
  <2> QED BY <1>14
<1>16. j = 0
  BY <1>15
<1>17. f[n].seen = Bl(0)
  <2> HIDE DEF Two, x, V, Fn, Bl
  <2> QED BY <1>15, <1>16
<1> HIDE DEF Two, x, V, Fn
<1> QED BY <1>1, <1>9, <1>17

(* The list from its first block to its last.                              *)
LEMMA ChainIs ==
    ASSUME NEW fl, NEW size \in Nat \ {0}, NEW c, IsList(fl, c, Index(size - 1))
    PROVE  Chain(fl, c[Index(size - 1)], size) = [i \in 1..Index(size - 1) + 1 |-> c[i - 1]]
<1> DEFINE Back(list) ==
             IF fl[Head(list)].heads = <<>> THEN list ELSE <<fl[Head(list)].heads[1]>> \o list
<1>1. PICK n \in Nat : n = Index(size - 1)
  BY IndexIs
<1>02. IsList(fl, c, n)
  BY <1>1
<1> DEFINE Ls(j) == [i \in 1..(n - j) + 1 |-> c[j + i - 1]]
           V == {Ls(j) : j \in 0..n}
           x == <<c[n]>>
           Fn(f) == f = [i \in 0..n |-> IF i = 0 THEN x
                             ELSE CHOOSE r \in {Back(y) : y \in {f[i - 1]}} : TRUE]
<1>2. ASSUME NEW j \in 0..n
      PROVE  Back(Ls(j)) = IF j = 0 THEN Ls(0) ELSE Ls(j - 1)
  <2>0. c \in [0..n -> Blocks]
    BY <1>02 DEF IsList
  <2>1. Ls(j) \in Seq(Blocks) /\ Len(Ls(j)) = (n - j) + 1 /\ Head(Ls(j)) = c[j]
    <3>1. PICK m \in Nat : m = (n - j) + 1 /\ m >= 1
      BY <1>1
    <3>2. \A i \in 1..m : c[j + i - 1] \in Blocks
      BY <2>0, <3>1
    <3>3. [i \in 1..m |-> c[j + i - 1]] \in Seq(Blocks)
      BY <3>2
    <3>4. Len([i \in 1..m |-> c[j + i - 1]]) = m
      OBVIOUS
    <3>5. Ls(j)[1] = c[j] /\ Ls(j) # <<>>
      BY <3>1
    <3> QED BY <3>1, <3>3, <3>4, <3>5
  <2>2. CASE j = 0
    <3>1. fl[c[j]].heads = <<>>
      BY <1>1, <1>02, <2>2 DEF IsList
    <3> HIDE DEF Ls
    <3> QED BY <2>1, <2>2, <3>1
  <2>3. CASE j # 0
    <3>1. j \in 1..n
      BY <1>1, <2>3
    <3>2. PICK w : w = fl[c[j]].heads
      OBVIOUS
    <3>3. Len(w) = Ctz(j) + 1 /\ Ctz(j) \in Nat /\ w[1] = c[j - 1]
      <4>1. Len(w) = Ctz(j) + 1 /\ Ctz(j) \in Nat
            /\ \A k \in 0..Ctz(j) : w[k + 1] = c[j - Pow2[k]]
        BY <1>1, <1>02, <3>1, <3>2, PointerIs
      <4>2. 0 \in 0..Ctz(j) /\ 0 + 1 = 1 /\ Pow2[0] = 1
        BY <4>1, Pow2Is
      <4>3. w[0 + 1] = c[j - Pow2[0]]
        BY <4>1, <4>2
      <4> QED BY <4>1, <4>2, <4>3
    <3>4. w # <<>>
      BY <3>3
    <3>5. Back(Ls(j)) = <<w[1]>> \o Ls(j)
      <4> HIDE DEF Ls
      <4> QED BY <2>1, <3>2, <3>4
    <3>6. PICK b \in Blocks : b = c[j - 1]
      BY <2>0, <3>1
    <3>7. <<b>> \o Ls(j) = Ls(j - 1)
      <4>1. PICK m \in Nat : m = (n - j) + 1
        BY <1>1
      <4>2. PICK s : s = Ls(j) /\ s \in Seq(Blocks) /\ Len(s) = m
        <5> HIDE DEF Ls
        <5> QED BY <2>1, <4>1
      <4>3. PICK r : r = <<b>> \o s
        OBVIOUS
      <4>4. r \in Seq(Blocks) /\ Len(r) = m + 1
        BY <4>2, <4>3
      <4>5. ASSUME NEW i \in 1..m + 1 PROVE r[i] = IF i = 1 THEN b ELSE s[i - 1]
        BY <4>2, <4>3
      <4>6. ASSUME NEW i \in 1..m + 1 PROVE r[i] = c[(j - 1) + i - 1]
        <5>1. CASE i = 1
          BY <3>6, <4>5, <5>1
        <5>2. CASE i # 1
          <6>1. i - 1 \in 1..m
            BY <4>1, <5>2
          <6>2. s[i - 1] = c[j + (i - 1) - 1]
            BY <4>1, <4>2, <6>1
          <6>3. j + (i - 1) - 1 = (j - 1) + i - 1
            OBVIOUS
          <6> QED BY <4>5, <5>2, <6>2, <6>3
        <5> QED BY <5>1, <5>2
      <4>7. r = [i \in 1..m + 1 |-> r[i]]
        BY <4>4
      <4>8. m + 1 = (n - (j - 1)) + 1
        BY <4>1
      <4>9. r = Ls(j - 1)
        BY <4>6, <4>7, <4>8
      <4> QED BY <4>2, <4>3, <4>9
    <3> HIDE DEF Ls, Back
    <3> QED BY <3>1, <3>3, <3>5, <3>6, <3>7
  <2> QED BY <2>2, <2>3
<1>3. ASSUME NEW y \in V PROVE Back(y) \in V
  <2> HIDE DEF Back, Ls
  <2>1. PICK j \in 0..n : y = Ls(j)
    OBVIOUS
  <2>2. Back(y) = IF j = 0 THEN Ls(0) ELSE Ls(j - 1)
    BY <1>2, <2>1
  <2>3. 0 \in 0..n /\ (j # 0 => j - 1 \in 0..n)
    BY <1>1
  <2> QED BY <2>2, <2>3
<1>4. x = Ls(n) /\ x \in V
  <2>1. x = Ls(n)
    <3>1. (n - n) + 1 = 1 /\ n + 1 - 1 = n
      BY <1>1
    <3>2. Ls(n) = [i \in 1..1 |-> c[n + i - 1]]
      BY <3>1
    <3>3. Ls(n) = [i \in 1..1 |-> c[n]]
      BY <3>1, <3>2
    <3> QED BY <3>3
  <2>2. n \in 0..n
    BY <1>1
  <2> HIDE DEF x, Ls
  <2> QED BY <2>1, <2>2
<1>5. PICK step : step = [i \in 1..n |-> [y \in V |-> Back(y)]]
  OBVIOUS
<1>6. step \in [1..n -> [V -> V]]
  <2> HIDE DEF Back, V
  <2> QED BY <1>3, <1>5
<1>7. PICK g : IsFold(g, V, x, n, step)
  <2> HIDE DEF V, x
  <2> QED BY <1>1, <1>4, <1>6, FoldIs
<1>8. Fn(g)
  <2> HIDE DEF Back, V, x
  <2>1. ASSUME NEW i \in 1..n PROVE g[i] = Back(g[i - 1])
    <3>1. i - 1 \in 0..n /\ g[i - 1] \in V /\ g[i] = step[i][g[i - 1]]
      BY <1>7 DEF IsFold
    <3> QED BY <1>5, <3>1
  <2>2. g = [i \in 0..n |-> g[i]] /\ g[0] = x
    BY <1>7 DEF IsFold
  <2>3. PICK h : h = [i \in 0..n |-> IF i = 0 THEN x
                             ELSE CHOOSE r \in {Back(y) : y \in {g[i - 1]}} : TRUE]
    OBVIOUS
  <2>4. ASSUME NEW i \in 0..n PROVE h[i] = g[i]
    <3>1. CASE i = 0
      BY <2>2, <2>3, <3>1
    <3>2. CASE i # 0
      <4>1. i \in 1..n
        BY <3>2
      <4>2. h[i] \in {Back(y) : y \in {g[i - 1]}}
        BY <2>3, <3>2
      <4> QED BY <2>1, <4>1, <4>2
    <3> QED BY <3>1, <3>2
  <2>5. h = [i \in 0..n |-> h[i]]
    BY <2>3
  <2>6. g = h
    BY <2>2, <2>4, <2>5
  <2> QED BY <2>3, <2>6
<1>9. PICK f : Fn(f) /\ Chain(fl, c[n], size) = f[n]
  <2>1. Chain(fl, c[n], size) = (CHOOSE f : Fn(f))[n]
    BY <1>1 DEF Chain, Iterate
  <2> HIDE DEF Fn
  <2> QED BY <1>8, <2>1
<1>10. f[0] = x /\ \A i \in 1..n : f[i] = Back(f[i - 1])
  <2> HIDE DEF Back, x
  <2>1. f[0] = x
    BY <1>9
  <2>2. ASSUME NEW i \in 1..n PROVE f[i] = Back(f[i - 1])
    <3>1. i \in 0..n /\ i # 0
      OBVIOUS
    <3>2. f[i] = CHOOSE r \in {Back(y) : y \in {f[i - 1]}} : TRUE
      BY <1>9, <3>1
    <3>3. f[i] \in {Back(y) : y \in {f[i - 1]}}
      BY <3>2
    <3> QED BY <3>3
  <2> QED BY <2>1, <2>2
<1>11. PICK P : P = {i \in 0..n : f[i] = Ls(n - i)}
  OBVIOUS
<1> HIDE DEF Ls, x, V, Fn, Back
<1>12. 0 \in P
  <2>1. n - 0 = n /\ 0 \in 0..n
    BY <1>1
  <2> QED BY <1>4, <1>10, <1>11, <2>1
<1>13. ASSUME NEW i \in 1..n, i - 1 \in P PROVE i \in P
  <2>1. f[i - 1] = Ls(n - (i - 1))
    BY <1>11, <1>13
  <2>2. n - (i - 1) \in 0..n /\ n - (i - 1) # 0 /\ (n - (i - 1)) - 1 = n - i
    BY <1>1
  <2>3. f[i] = Back(Ls(n - (i - 1)))
    BY <1>10, <2>1
  <2>4. Back(Ls(n - (i - 1))) = Ls((n - (i - 1)) - 1)
    BY <1>2, <2>2
  <2> QED BY <1>11, <2>2, <2>3, <2>4
<1>14. f[n] = Ls(n - n)
  <2>1. n \in P
    BY <1>12, <1>13, UpTo
  <2> QED BY <1>11, <2>1
<1>15. Ls(n - n) = [i \in 1..n + 1 |-> c[i - 1]]
  <2>1. n - n = 0 /\ (n - 0) + 1 = n + 1
    BY <1>1
  <2>2. Ls(0) = [i \in 1..n + 1 |-> c[0 + i - 1]]
    BY <2>1 DEF Ls
  <2> QED BY <2>1, <2>2
<1> QED BY <1>1, <1>9, <1>14, <1>15

-----------------------------------------------------------------------------
(* The units of a list: all blocks but the last are full.                  *)
FlashType(fl) ==
    /\ fl \in [Blocks -> [heads : Seq(Blocks), data : Seq(Int)]]
    /\ \A b \in Blocks : Len(fl[b].data) <= BlockSize

(* Every block of the list but the last holds a block's worth of bytes,    *)
(* and the last enough for the size.                                       *)
IsFull(fl, c, size) ==
    LET n == Index(size - 1)
    IN  /\ \A i \in 0..n - 1 : Len(fl[c[i]].data) = BlockSize
        /\ Len(fl[c[n]].data) >= size - BlockSize * n

(* The byte at position p of the list c.                                   *)
Unit(fl, c, p) == fl[c[Index(p)]].data[(p % BlockSize) + 1]

(* The elements of two sequences one behind the other.                     *)
LEMMA ConcatIs ==
    ASSUME NEW S, NEW s \in Seq(S), NEW t \in Seq(S)
    PROVE  /\ s \o t \in Seq(S)
           /\ Len(s \o t) = Len(s) + Len(t)
           /\ \A q \in 1..Len(s) + Len(t) :
                  (s \o t)[q] = IF q <= Len(s) THEN s[q] ELSE t[q - Len(s)]
OBVIOUS

(* The positions of one block.                                             *)
LEMMA SpanIs ==
    ASSUME NEW i \in Nat, NEW p \in Nat, BlockSize * i <= p, p < BlockSize * i + BlockSize
    PROVE  Index(p) = i /\ p % BlockSize = p - BlockSize * i
<1>1. PICK B \in Nat \ {0} : B = BlockSize
  BY BlockSizeAssumption
<1>2. B * i \in Nat
  OBVIOUS
<1>3. PICK off \in 0..BlockSize - 1 : off = p - B * i
  BY <1>1, <1>2
<1>4. p = BlockSize * i + off
  BY <1>1, <1>2, <1>3
<1>5. Index(p) = i /\ p % BlockSize = off
  BY <1>4, PlaceIs
<1> QED BY <1>1, <1>3, <1>5

(* What is read of a list is the bytes of its blocks, position by          *)
(* position.                                                               *)
LEMMA BytesIs ==
    ASSUME NEW fl, FlashType(fl), NEW size \in Nat \ {0}, NEW c, IsList(fl, c, Index(size - 1)),
           IsFull(fl, c, size)
    PROVE  /\ Bytes(fl, c[Index(size - 1)], size) \in Seq(Int)
           /\ Len(Bytes(fl, c[Index(size - 1)], size)) = size
           /\ \A p \in 0..size - 1 : Bytes(fl, c[Index(size - 1)], size)[p + 1] = Unit(fl, c, p)
<1>1. PICK n \in Nat : n = Index(size - 1)
  BY IndexIs
<1>2. PICK B \in Nat \ {0} : B = BlockSize
  BY BlockSizeAssumption
<1>3. PICK chain : chain = Chain(fl, c[n], size)
  OBVIOUS
<1>4. chain = [i \in 1..n + 1 |-> c[i - 1]]
  BY <1>1, <1>3, ChainIs
<1>5. Len(chain) = n + 1
  <2>1. PICK m \in Nat : m = n + 1
    OBVIOUS
  <2>2. Len([i \in 1..m |-> c[i - 1]]) = m
    OBVIOUS
  <2> QED BY <1>4, <2>1, <2>2
<1>6. c \in [0..n -> Blocks]
  BY <1>1 DEF IsList
<1>7. PICK d : d = [i \in 1..n + 1 |-> fl[c[i - 1]].data]
  OBVIOUS
<1>8. \A i \in 1..n + 1 : d[i] = fl[chain[i]].data /\ d[i] = fl[c[i - 1]].data /\ d[i] \in Seq(Int)
  BY <1>4, <1>6, <1>7 DEF FlashType
<1> DEFINE V == Seq(Int)
           Fn(f) == f = [i \in 0..Len(chain) |-> IF i = 0 THEN <<>> ELSE f[i - 1] \o fl[chain[i]].data]
<1>9. PICK step : step = [i \in 1..n + 1 |-> [y \in V |-> y \o d[i]]]
  OBVIOUS
<1>10. step \in [1..n + 1 -> [V -> V]]
  BY <1>8, <1>9
<1>11. PICK g : IsFold(g, V, <<>>, n + 1, step)
  <2>1. <<>> \in V /\ n + 1 \in Nat
    OBVIOUS
  <2> HIDE DEF V
  <2> QED BY <1>10, <2>1, FoldIs
<1>12. Fn(g)
  <2>1. PICK h : h = [i \in 0..n + 1 |-> IF i = 0 THEN <<>> ELSE g[i - 1] \o fl[chain[i]].data]
    OBVIOUS
  <2>2. g = [i \in 0..n + 1 |-> g[i]] /\ g[0] = <<>>
    BY <1>11 DEF IsFold
  <2>3. ASSUME NEW i \in 1..n + 1 PROVE g[i] = g[i - 1] \o fl[chain[i]].data
    <3>1. i - 1 \in 0..n + 1 /\ g[i - 1] \in V /\ g[i] = step[i][g[i - 1]]
      BY <1>11 DEF IsFold
    <3> HIDE DEF V
    <3>2. step[i][g[i - 1]] = g[i - 1] \o d[i]
      BY <1>9, <3>1
    <3> QED BY <1>8, <3>1, <3>2
  <2>4. ASSUME NEW i \in 0..n + 1 PROVE g[i] = h[i]
    <3>1. CASE i = 0
      BY <2>1, <2>2, <3>1
    <3>2. CASE i # 0
      <4>1. i \in 1..n + 1
        BY <3>2
      <4> QED BY <2>1, <2>3, <3>2, <4>1
    <3> QED BY <3>1, <3>2
  <2>5. h = [i \in 0..n + 1 |-> h[i]]
    BY <2>1
  <2>6. g = h
    BY <2>2, <2>4, <2>5
  <2> QED BY <1>5, <2>1, <2>6
<1>13. PICK f : Fn(f) /\ Bytes(fl, c[n], size) = SubSeq(f[n + 1], 1, Min({size, Len(f[n + 1])}))
  <2>1. Bytes(fl, c[n], size) = SubSeq((CHOOSE f : Fn(f))[Len(chain)], 1,
                                       Min({size, Len((CHOOSE f : Fn(f))[Len(chain)])}))
    BY <1>3, Zenon DEF Bytes
  <2> HIDE DEF Fn
  <2> QED BY <1>5, <1>12, <2>1, Zenon
<1>14. f[0] = <<>> /\ \A i \in 1..n + 1 : f[i] = f[i - 1] \o d[i]
  <2>1. f = [i \in 0..n + 1 |-> IF i = 0 THEN <<>> ELSE f[i - 1] \o fl[chain[i]].data]
    BY <1>5, <1>13
  <2> HIDE DEF Fn
  <2>2. f[0] = <<>>
    BY <2>1
  <2>3. ASSUME NEW i \in 1..n + 1 PROVE f[i] = f[i - 1] \o d[i]
    <3>1. i \in 0..n + 1 /\ i # 0
      OBVIOUS
    <3>2. f[i] = f[i - 1] \o fl[chain[i]].data
      BY <2>1, <3>1
    <3> QED BY <1>8, <3>2
  <2> QED BY <2>2, <2>3
<1> DEFINE Holds(i) == /\ f[i] \in Seq(Int) /\ Len(f[i]) = B * i
                       /\ \A p \in 0..B * i - 1 : f[i][p + 1] = Unit(fl, c, p)
<1> HIDE DEF Fn
<1>15. PICK P : P = {i \in 0..n : Holds(i)}
  OBVIOUS
<1>16. 0 \in P
  <2>1. B * 0 = 0
    OBVIOUS
  <2>2. Holds(0)
    BY <1>14, <2>1
  <2> HIDE DEF Holds
  <2> QED BY <1>15, <2>2
<1>17. ASSUME NEW i \in 1..n, i - 1 \in P PROVE i \in P
  <2>1. PICK k \in 0..n - 1 : k = i - 1 /\ i = k + 1
    OBVIOUS
  <2>2. Holds(k)
    <3> HIDE DEF Holds
    <3> QED BY <1>15, <1>17, <2>1
  <2>3. i \in 1..n + 1
    OBVIOUS
  <2>4. f[i] = f[k] \o d[i] /\ d[i] = fl[c[k]].data /\ d[i] \in Seq(Int)
    BY <1>8, <1>14, <2>1, <2>3
  <2>5. Len(d[i]) = B
    BY <1>1, <1>2, <2>1, <2>4 DEF IsFull
  <2>6. PICK a \in Nat : a = B * k /\ B * i = a + B
    BY <2>1
  <2>7. f[k] \in Seq(Int) /\ Len(f[k]) = a /\ \A p \in 0..a - 1 : f[k][p + 1] = Unit(fl, c, p)
    BY <2>2, <2>6
  <2>8. f[i] \in Seq(Int) /\ Len(f[i]) = a + B
        /\ \A q \in 1..a + B : f[i][q] = IF q <= a THEN f[k][q] ELSE d[i][q - a]
    <3>1. PICK s \in Seq(Int), t \in Seq(Int) : s = f[k] /\ t = d[i] /\ f[i] = s \o t
      BY <2>4, <2>7
    <3>2. Len(s) = a /\ Len(t) = B
      BY <2>5, <2>7, <3>1
    <3>3. s \o t \in Seq(Int) /\ Len(s \o t) = a + B
          /\ \A q \in 1..a + B : (s \o t)[q] = IF q <= a THEN s[q] ELSE t[q - a]
      BY <3>2, ConcatIs, ZenonT(40)
    <3> QED BY <3>1, <3>3
  <2>9. ASSUME NEW p \in 0..(a + B) - 1 PROVE f[i][p + 1] = Unit(fl, c, p)
    <3>1. p + 1 \in 1..a + B
      OBVIOUS
    <3>2. CASE p < a
      <4>1. p \in 0..a - 1 /\ p + 1 <= a
        BY <3>2
      <4> QED BY <2>7, <2>8, <3>1, <4>1
    <3>3. CASE p >= a
      <4>1. Index(p) = k /\ p % BlockSize = p - a
        <5>1. BlockSize * k <= p /\ p < BlockSize * k + BlockSize /\ p \in Nat /\ k \in Nat
          BY <1>2, <2>6, <3>3
        <5>2. Index(p) = k /\ p % BlockSize = p - BlockSize * k
          BY <5>1, SpanIs
        <5> QED BY <1>2, <2>6, <5>2
      <4>2. ~(p + 1 <= a) /\ (p + 1) - a = (p - a) + 1
        BY <3>3
      <4>3. f[i][p + 1] = d[i][(p - a) + 1]
        BY <2>8, <3>1, <4>2
      <4> QED BY <2>4, <4>1, <4>3 DEF Unit
    <3> QED BY <3>2, <3>3
  <2>10. Holds(i)
    BY <2>6, <2>8, <2>9
  <2> HIDE DEF Holds
  <2> QED BY <1>15, <2>10
<1>18. Holds(n)
  <2> HIDE DEF Holds
  <2>1. n \in P
    BY <1>16, <1>17, UpTo
  <2> QED BY <1>15, <2>1
<1>19. PICK a \in Nat : a = B * n
  OBVIOUS
<1>20. f[n] \in Seq(Int) /\ Len(f[n]) = a /\ \A p \in 0..a - 1 : f[n][p + 1] = Unit(fl, c, p)
  BY <1>18, <1>19
<1>21. f[n + 1] = f[n] \o d[n + 1] /\ d[n + 1] = fl[c[n]].data /\ d[n + 1] \in Seq(Int)
  <2>1. n + 1 \in 1..n + 1 /\ (n + 1) - 1 = n
    OBVIOUS
  <2> QED BY <1>8, <1>14, <2>1
<1>22. Len(d[n + 1]) >= size - a /\ Len(d[n + 1]) \in Nat
  BY <1>1, <1>2, <1>19, <1>21 DEF IsFull
<1>23. f[n + 1] \in Seq(Int) /\ Len(f[n + 1]) = a + Len(d[n + 1])
       /\ \A q \in 1..a + Len(d[n + 1]) : f[n + 1][q] = IF q <= a THEN f[n][q] ELSE d[n + 1][q - a]
  <2>1. PICK s \in Seq(Int), t \in Seq(Int) : s = f[n] /\ t = d[n + 1] /\ f[n + 1] = s \o t
    BY <1>20, <1>21
  <2>2. Len(s) = a
    BY <1>20, <2>1
  <2>3. s \o t \in Seq(Int) /\ Len(s \o t) = a + Len(t)
        /\ \A q \in 1..a + Len(t) : (s \o t)[q] = IF q <= a THEN s[q] ELSE t[q - a]
    BY <2>2, ConcatIs
  <2> QED BY <2>1, <2>3
<1>24. Len(f[n + 1]) >= size
  BY <1>22, <1>23
<1>25. size - 1 < a + B /\ a <= size - 1
  <2>1. size - 1 = B * n + ((size - 1) % B) /\ (size - 1) % B \in 0..B - 1
    <3>1. size - 1 \in Nat
      OBVIOUS
    <3> QED BY <1>1, <1>2, <3>1, IndexIs
  <2> QED BY <1>19, <2>1
<1>26. ASSUME NEW p \in 0..size - 1 PROVE f[n + 1][p + 1] = Unit(fl, c, p)
  <2>1. p + 1 \in 1..a + Len(d[n + 1])
    BY <1>22
  <2>2. CASE p < a
    <3>1. p \in 0..a - 1 /\ p + 1 <= a
      BY <2>2
    <3> QED BY <1>20, <1>23, <2>1, <3>1
  <2>3. CASE p >= a
    <3>1. Index(p) = n /\ p % BlockSize = p - a
      <4>1. BlockSize * n <= p /\ p < BlockSize * n + BlockSize /\ p \in Nat
        BY <1>2, <1>19, <1>25, <2>3
      <4>2. Index(p) = n /\ p % BlockSize = p - BlockSize * n
        BY <4>1, SpanIs
      <4> QED BY <1>2, <1>19, <4>2
    <3>2. ~(p + 1 <= a) /\ (p + 1) - a = (p - a) + 1
      BY <2>3
    <3>3. f[n + 1][p + 1] = d[n + 1][(p - a) + 1]
      BY <1>23, <2>1, <3>2
    <3> QED BY <1>21, <3>1, <3>3 DEF Unit
  <2> QED BY <2>2, <2>3
<1>27. Min({size, Len(f[n + 1])}) = size
  <2>1. PICK l \in Nat : l = Len(f[n + 1])
    BY <1>23
  <2>2. Min({size, l}) \in {size, l} /\ \A y \in {size, l} : Min({size, l}) <= y
    <3>1. {size, l} \in SUBSET Nat /\ {size, l} # {}
      OBVIOUS
    <3> QED BY <3>1, MinIsLeast
  <2> QED BY <1>24, <2>1, <2>2
<1>28. PICK s : s = f[n + 1] /\ s \in Seq(Int) /\ Len(s) >= size
  BY <1>23, <1>24
<1>29. SubSeq(s, 1, size) \in Seq(Int) /\ Len(SubSeq(s, 1, size)) = size
       /\ \A q \in 1..size : SubSeq(s, 1, size)[q] = s[q]
  BY <1>28
<1>30. Bytes(fl, c[n], size) = SubSeq(s, 1, size)
  BY <1>13, <1>27, <1>28
<1>31. ASSUME NEW p \in 0..size - 1 PROVE SubSeq(s, 1, size)[p + 1] = Unit(fl, c, p)
  <2>1. p + 1 \in 1..size
    OBVIOUS
  <2> QED BY <1>26, <1>28, <1>29, <2>1
<1> QED BY <1>1, <1>29, <1>30, <1>31

-----------------------------------------------------------------------------
(* lfs_popc() and lfs_ctz() of a number and of its half.                   *)
Bits(n) == {k \in Nat : (n \div Pow2[k]) % 2 = 1}

(* The number of the bits of n, by their places.                           *)
LEMMA BitsAre ==
    ASSUME NEW n \in Nat
    PROVE  /\ Popc(n) = Cardinality(Bits(n)) /\ IsFiniteSet(Bits(n))
           /\ Popc(n) \in 0..n + 1
<1>1. ASSUME NEW k \in Nat, k > n PROVE n \div Pow2[k] = 0
  <2>1. PICK m \in Nat \ {0} : m = Pow2[k] /\ m > n
    BY <1>1, Pow2Is
  <2>2. n \div m = 0
    BY <2>1
  <2> QED BY <2>1, <2>2
<1>2. Bits(n) = {k \in 0..n : (n \div Pow2[k]) % 2 = 1}
  <2>1. ASSUME NEW k \in Nat, (n \div Pow2[k]) % 2 = 1 PROVE k \in 0..n
    <3>1. CASE k > n
      <4>1. (n \div Pow2[k]) % 2 = 0
        BY <1>1, <3>1
      <4> QED BY <2>1, <4>1
    <3>2. CASE ~(k > n)
      BY <3>2
    <3> QED BY <3>1, <3>2
  <2> QED BY <2>1 DEF Bits
<1>3. IsFiniteSet(0..n) /\ Cardinality(0..n) = n + 1
  <2>1. 0 \in Int /\ n \in Int /\ ~(0 > n)
    OBVIOUS
  <2> QED BY <2>1, FS_Interval
<1>4. Bits(n) \in SUBSET (0..n)
  BY <1>2
<1>5. IsFiniteSet(Bits(n)) /\ Cardinality(Bits(n)) <= n + 1
  BY <1>3, <1>4, FS_Subset
<1>6. Cardinality(Bits(n)) \in Nat
  BY <1>5, FS_CardinalityType
<1> QED BY <1>2, <1>5, <1>6 DEF Popc

(* Doubling a number moves its bits, and one more adds a bit.              *)
LEMMA BitsOfDouble ==
    ASSUME NEW m \in Nat
    PROVE  Popc(2 * m) = Popc(m) /\ Popc(2 * m + 1) = Popc(m) + 1
<1> DEFINE Up == {k + 1 : k \in Bits(m)}
<1>1. ASSUME NEW k \in Nat
      PROVE  (2 * m) \div Pow2[k + 1] = m \div Pow2[k] /\ (2 * m + 1) \div Pow2[k + 1] = m \div Pow2[k]
  <2>1. PICK q \in Nat \ {0} : q = Pow2[k] /\ Pow2[k + 1] = 2 * q
    BY Pow2Is
  <2>2. (2 * m) \div 2 = m /\ (2 * m + 1) \div 2 = m /\ 2 * m \in Nat /\ 2 * m + 1 \in Nat
    OBVIOUS
  <2>3. (2 * m) \div (2 * q) = ((2 * m) \div 2) \div q
        /\ (2 * m + 1) \div (2 * q) = ((2 * m + 1) \div 2) \div q
    BY <2>2, Halves
  <2> QED BY <2>1, <2>2, <2>3
<1>2. Pow2[0] = 1 /\ ((2 * m) \div 1) % 2 = 0 /\ ((2 * m + 1) \div 1) % 2 = 1
  BY Pow2Is
<1>3. Bits(2 * m) = Up
  <2>1. ASSUME NEW k \in Bits(2 * m) PROVE k \in Up
    <3>1. k \in Nat \ {0}
      BY <1>2 DEF Bits
    <3>2. PICK j \in Nat : k = j + 1
      BY <3>1
    <3>3. j \in Bits(m)
      BY <1>1, <3>2 DEF Bits
    <3> QED BY <3>2, <3>3
  <2>2. ASSUME NEW j \in Bits(m) PROVE j + 1 \in Bits(2 * m)
    BY <1>1 DEF Bits
  <2> QED BY <2>1, <2>2
<1>4. Bits(2 * m + 1) = Up \cup {0}
  <2>1. ASSUME NEW k \in Bits(2 * m + 1), k # 0 PROVE k \in Up
    <3>1. k \in Nat \ {0}
      BY <2>1 DEF Bits
    <3>2. PICK j \in Nat : k = j + 1
      BY <3>1
    <3>3. j \in Bits(m)
      BY <1>1, <3>2 DEF Bits
    <3> QED BY <3>2, <3>3
  <2>2. ASSUME NEW j \in Bits(m) PROVE j + 1 \in Bits(2 * m + 1)
    BY <1>1 DEF Bits
  <2>3. 0 \in Bits(2 * m + 1)
    BY <1>2 DEF Bits
  <2> QED BY <2>1, <2>2, <2>3
<1>5. IsFiniteSet(Up) /\ Cardinality(Up) = Cardinality(Bits(m))
  <2>1. PICK f : f = [k \in Bits(m) |-> k + 1]
    OBVIOUS
  <2>2. \A k \in Bits(m) : k \in Nat
    BY DEF Bits
  <2>3. f \in Bijection(Bits(m), Up)
    BY <2>1, <2>2 DEF Bijection, Injection, Surjection, IsInjective
  <2>4. ExistsBijection(Bits(m), Up)
    BY <2>3 DEF ExistsBijection
  <2> QED BY <2>4, BitsAre, FS_Bijection
<1>6. 0 \notin Up
  BY DEF Bits
<1>7. Cardinality(Up \cup {0}) = Cardinality(Up) + 1
  BY <1>5, <1>6, FS_AddElement
<1>8. 2 * m \in Nat /\ 2 * m + 1 \in Nat
  OBVIOUS
<1>9. Popc(2 * m) = Cardinality(Up) /\ Popc(2 * m + 1) = Cardinality(Up \cup {0})
      /\ Popc(m) = Cardinality(Bits(m))
  BY <1>3, <1>4, <1>8, BitsAre
<1> HIDE DEF Up
<1> QED BY <1>5, <1>7, <1>9

(* Doubling a number adds a trailing zero.                                 *)
LEMMA CtzOfDouble ==
    ASSUME NEW m \in Nat \ {0}
    PROVE  Ctz(2 * m) = Ctz(m) + 1
<1>1. 2 * m \in Nat \ {0}
  OBVIOUS
<1>2. ASSUME NEW k \in Nat PROVE (2 * m) % Pow2[k + 1] = 0 <=> m % Pow2[k] = 0
  <2>1. PICK q \in Nat \ {0} : q = Pow2[k] /\ Pow2[k + 1] = 2 * q
    BY Pow2Is
  <2>2. (2 * m) % 2 = 0 /\ (2 * m) \div 2 = m
    OBVIOUS
  <2>3. (2 * m) % (2 * q) = 0 <=> (2 * m) % 2 = 0 /\ ((2 * m) \div 2) % q = 0
    BY <1>1, Halves
  <2> QED BY <2>1, <2>2, <2>3
<1>3. Ctz(m) \in Nat /\ m % Pow2[Ctz(m)] = 0
  BY CtzIs
<1>4. Ctz(2 * m) >= Ctz(m) + 1
  <2>1. Ctz(m) + 1 \in Nat /\ (2 * m) % Pow2[Ctz(m) + 1] = 0
    BY <1>2, <1>3
  <2> QED BY <1>1, <2>1, CtzIs
<1>5. PICK z \in Nat : z = Ctz(2 * m) /\ (2 * m) % Pow2[z] = 0 /\ z >= 1
  BY <1>1, <1>3, <1>4, CtzIs
<1>6. PICK k \in Nat : z = k + 1
  BY <1>5
<1>7. k <= Ctz(m)
  BY <1>2, <1>5, <1>6, CtzIs
<1> QED BY <1>3, <1>4, <1>5, <1>6, <1>7

(* Counting on from one number to the next.                                *)
LEMMA PopcOfNext ==
    ASSUME NEW n \in Nat \ {0}
    PROVE  Popc(n) = Popc(n - 1) - Ctz(n) + 1
<1> DEFINE Q(i) == Popc(i) = Popc(i - 1) - Ctz(i) + 1
<1>1. ASSUME NEW i \in Nat \ {0}, \A j \in 1..i - 1 : Q(j) PROVE Q(i)
  <2>1. CASE i % 2 = 1
    <3>1. PICK m \in Nat : i = 2 * m + 1
      <4>1. i = 2 * (i \div 2) + 1 /\ i \div 2 \in Nat
        BY <2>1
      <4> QED BY <4>1
    <3>2. Popc(i) = Popc(m) + 1
      BY <3>1, BitsOfDouble
    <3>3. i - 1 = 2 * m
      BY <3>1
    <3>4. Popc(i - 1) = Popc(m)
      BY <3>3, BitsOfDouble
    <3>5. Ctz(i) = 0 /\ Popc(m) \in Nat
      BY <2>1, CtzOfEven, BitsAre
    <3> QED BY <3>2, <3>4, <3>5
  <2>2. CASE i % 2 = 0
    <3>1. PICK m \in Nat \ {0} : i = 2 * m
      <4>1. i = 2 * (i \div 2) /\ i \div 2 \in Nat \ {0}
        BY <2>2
      <4> QED BY <4>1
    <3>2. PICK l \in Nat : m = l + 1
      <4>1. m - 1 \in Nat /\ m = (m - 1) + 1
        BY <3>1
      <4> QED BY <4>1
    <3>3. Popc(i) = Popc(m)
      BY <3>1, BitsOfDouble
    <3>4. i - 1 = 2 * l + 1 /\ m - 1 = l
      BY <3>1, <3>2
    <3>5. Popc(i - 1) = Popc(l) + 1
      BY <3>4, BitsOfDouble
    <3>6. Ctz(i) = Ctz(m) + 1 /\ Ctz(m) \in Nat
      BY <3>1, CtzOfDouble, CtzIs
    <3>7. m \in 1..i - 1
      BY <3>1
    <3>8. Popc(m) = Popc(l) - Ctz(m) + 1
      BY <1>1, <3>4, <3>7
    <3>9. Popc(l) \in Nat /\ Popc(m) \in Nat
      BY BitsAre
    <3> HIDE DEF Q
    <3>10. Popc(i) = Popc(i - 1) - Ctz(i) + 1
      BY <3>3, <3>5, <3>6, <3>8, <3>9
    <3> QED BY <3>10 DEF Q
  <2>3. i % 2 = 0 \/ i % 2 = 1
    OBVIOUS
  <2> QED BY <2>1, <2>2, <2>3
<1>2. PICK P : P = {i \in 0..n : \A j \in 1..i : Q(j)}
  OBVIOUS
<1> HIDE DEF Q
<1>3. 0 \in P
  BY <1>2
<1>4. ASSUME NEW i \in 1..n, i - 1 \in P PROVE i \in P
  <2>1. \A j \in 1..i - 1 : Q(j)
    BY <1>2, <1>4
  <2>2. Q(i)
    BY <1>1, <2>1
  <2>3. \A j \in 1..i : j \in 1..i - 1 \/ j = i
    OBVIOUS
  <2>4. \A j \in 1..i : Q(j)
    BY <2>1, <2>2, <2>3
  <2> QED BY <1>2, <2>4
<1>5. Q(n)
  <2>1. n \in P
    BY <1>3, <1>4, UpTo
  <2> QED BY <1>2, <2>1
<1> QED BY <1>5 DEF Q

(* lfs_ctz_index() of the byte at an offset of a block, when as many bytes *)
(* are in the blocks before it as there are, and the blocks are not too    *)
(* small for the pointers.                                                 *)
LEMMA CtzIndexIs ==
    ASSUME NEW b \in Nat, NEW i \in Nat, 4 * Popc(i) + 8 <= b,
           NEW start \in Nat, start = IF i = 0 THEN 0 ELSE b * i + 8 + 4 * Popc(i - 1),
           NEW heads \in Nat, heads = IF i = 0 THEN 0 ELSE 4 * (Ctz(i) + 1),
           NEW off \in heads..b + 7
    PROVE  CtzIndex(b + 8, start + off - heads) = [index |-> i, off |-> off]
<1>1. PICK p \in Nat : p = Popc(i) /\ 4 * p + 8 <= b /\ (i = 0 => p = 0)
  <2>1. Popc(i) \in Nat
    BY BitsAre
  <2>2. i = 0 => Popc(i) = 0
    <3>1. (0 \div Pow2[0]) % 2 = 0
      BY Pow2Is
    <3>2. {k \in 0..0 : (0 \div Pow2[k]) % 2 = 1} = {}
      BY <3>1
    <3> QED BY <3>2, FS_EmptySet DEF Popc
  <2> QED BY <2>1, <2>2
<1>2. PICK pos \in Nat, a \in Nat : a = b * i /\ pos = start + off - heads /\ pos = a + 4 * p + off
  <2>1. CASE i = 0
    BY <1>1, <2>1
  <2>2. CASE i # 0
    <3>1. PICK z \in Nat, q \in Nat : z = Ctz(i) /\ q = Popc(i - 1) /\ p = q - z + 1
      <4>1. i - 1 \in Nat /\ i \in Nat \ {0}
        BY <2>2
      <4> QED BY <1>1, <4>1, PopcOfNext, CtzIs, BitsAre
    <3>2. PICK a \in Nat : a = b * i
      OBVIOUS
    <3>3. start = a + 8 + 4 * q /\ heads = 4 * (z + 1)
      BY <2>2, <3>1, <3>2
    <3>4. start + off - heads = a + 4 * p + off
      BY <3>1, <3>3
    <3> QED BY <3>2, <3>4
  <2> QED BY <2>1, <2>2
<1>3. off \in Nat /\ off <= b + 7 /\ b \in Nat \ {0}
  BY <1>1
<1>4. PICK n \in Nat : n = pos \div b
  <2>1. \A x \in Nat, y \in Nat \ {0} : x \div y \in Nat
    OBVIOUS
  <2>2. pos \div b \in Nat
    BY <1>3, <2>1
  <2> QED BY <2>2
<1> DEFINE j == IF n = 0 THEN 0 ELSE (pos - 4 * (Popc(n - 1) + 2)) \div b
<1>5. CtzIndex(b + 8, pos) = [index |-> j, off |-> IF n = 0 THEN pos ELSE pos - b * j - 4 * Popc(j)]
  <2>1. (b + 8) - 2 * 4 = b
    OBVIOUS
  <2> QED BY <1>4, <2>1 DEF CtzIndex
<1>6. n = (IF 4 * p + off < b THEN i ELSE i + 1)
  <2>1. CASE 4 * p + off < b
    <3>1. PICK r \in 0..b - 1 : r = 4 * p + off
      BY <2>1
    <3>2. pos = b * i + r
      BY <1>2, <3>1
    <3>3. (b * i + r) \div b = i
      BY <1>3
    <3> QED BY <1>4, <2>1, <3>2, <3>3
  <2>2. CASE ~(4 * p + off < b)
    <3>1. PICK r \in 0..b - 1 : r = 4 * p + off - b
      BY <1>1, <1>3, <2>2
    <3>2. b * (i + 1) = b * i + b /\ i + 1 \in Nat
      OBVIOUS
    <3>3. pos = b * (i + 1) + r
      BY <1>2, <3>1, <3>2
    <3>4. (b * (i + 1) + r) \div b = i + 1
      BY <1>3
    <3> QED BY <1>4, <2>2, <3>3, <3>4
  <2> QED BY <2>1, <2>2
<1>7. j = i
  <2>1. CASE n = 0
    BY <1>6, <2>1
  <2>2. CASE n # 0 /\ 4 * p + off < b
    <3>0. i # 0 /\ n = i
      BY <1>6, <2>2
    <3>1. PICK z \in Nat, q \in Nat : z = Ctz(i) /\ q = Popc(i - 1) /\ p = q - z + 1
      <4>1. i - 1 \in Nat /\ i \in Nat \ {0}
        BY <3>0
      <4> QED BY <1>1, <4>1, PopcOfNext, CtzIs, BitsAre
    <3>2. heads = 4 * (z + 1)
      BY <3>0, <3>1
    <3>3. PICK r \in 0..b - 1 : r = off - 4 * (z + 1)
      BY <1>1, <1>3, <2>2, <3>2
    <3>4. pos - 4 * (q + 2) = a + r
      BY <1>2, <3>1, <3>3
    <3>5. (b * i + r) \div b = i
      BY <1>3
    <3> QED BY <1>2, <3>0, <3>1, <3>4, <3>5
  <2>3. CASE n # 0 /\ ~(4 * p + off < b)
    <3>0. n = i + 1 /\ n - 1 = i
      BY <1>6, <2>3
    <3>1. PICK r \in 0..b - 1 : r = off - 8
      BY <1>1, <1>3, <2>3
    <3>2. pos - 4 * (p + 2) = a + r
      BY <1>2, <3>1
    <3>3. (b * i + r) \div b = i
      BY <1>3
    <3> QED BY <1>1, <1>2, <2>3, <3>0, <3>2, <3>3
  <2> QED BY <2>1, <2>2, <2>3
<1>8. (IF n = 0 THEN pos ELSE pos - b * j - 4 * Popc(j)) = off
  <2>1. CASE n = 0
    <3>1. i = 0 /\ p = 0 /\ a = 0
      BY <1>1, <1>2, <1>6, <2>1
    <3> QED BY <1>2, <2>1, <3>1
  <2>2. CASE n # 0
    <3>1. pos - a - 4 * p = off
      BY <1>2
    <3> HIDE DEF j
    <3> QED BY <1>1, <1>2, <1>7, <2>2, <3>1
  <2> QED BY <2>1, <2>2
<1> HIDE DEF j
<1> QED BY <1>2, <1>5, <1>7, <1>8

(* The room that the pointers of a block take.                             *)
Heads(i) == IF i = 0 THEN 0 ELSE 4 * (Ctz(i) + 1)

(* Where a block begins that is found by counting, in closed form.         *)
Begins(b, i) == IF i = 0 THEN 0 ELSE b * i + 8 + 4 * Popc(i - 1)

LEMMA BeginsAre ==
    ASSUME NEW b \in Nat, NEW i \in Nat
    PROVE  /\ Heads(i) \in Nat /\ Begins(b, i) \in Nat
           /\ i # 0 => Begins(b, i) = Begins(b, i - 1) + (b + 8) - Heads(i - 1)
<1>1. ASSUME NEW j \in Nat PROVE Heads(j) \in Nat /\ Begins(b, j) \in Nat
  <2>1. j # 0 => j \in Nat \ {0} /\ j - 1 \in Nat
    OBVIOUS
  <2>2. j # 0 => Ctz(j) \in Nat /\ Popc(j - 1) \in Nat
    BY <2>1, CtzIs, BitsAre
  <2> QED BY <2>2 DEF Heads, Begins
<1>2. ASSUME i = 1 PROVE Begins(b, i) = Begins(b, i - 1) + (b + 8) - Heads(i - 1)
  <2>1. Popc(0) = 0
    <3>1. (0 \div Pow2[0]) % 2 = 0
      BY Pow2Is
    <3>2. {k \in 0..0 : (0 \div Pow2[k]) % 2 = 1} = {}
      BY <3>1
    <3> QED BY <3>2, FS_EmptySet DEF Popc
  <2> QED BY <1>2, <2>1 DEF Heads, Begins
<1>3. ASSUME i # 0, i # 1 PROVE Begins(b, i) = Begins(b, i - 1) + (b + 8) - Heads(i - 1)
  <2>1. PICK j \in Nat \ {0} : j = i - 1 /\ j - 1 \in Nat /\ i = j + 1
    BY <1>3
  <2>2. Popc(j) = Popc(j - 1) - Ctz(j) + 1 /\ Popc(j) \in Nat /\ Popc(j - 1) \in Nat /\ Ctz(j) \in Nat
    BY <2>1, PopcOfNext, BitsAre, CtzIs
  <2>3. b * i = b * j + b
    BY <2>1
  <2>4. Begins(b, i) = b * i + 8 + 4 * Popc(j)
    BY <1>3, <2>1 DEF Begins
  <2>5. Begins(b, j) = b * j + 8 + 4 * Popc(j - 1) /\ Heads(j) = 4 * (Ctz(j) + 1)
    BY <2>1 DEF Begins, Heads
  <2>6. PICK m \in Nat : m = b * j
    OBVIOUS
  <2> QED BY <2>1, <2>2, <2>3, <2>4, <2>5, <2>6
<1> QED BY <1>1, <1>2, <1>3

(* A block of b + 8 bytes holds the pointers of the first n, and the places *)
(* where these begin are those of counting.                                *)
Holds(b, n) == \A k \in 0..n : 4 * Popc(k) + 8 <= b

BytesCounted(start, b, n) ==
    /\ start[0] = 0
    /\ \A k \in 1..n : start[k] = start[k - 1] + (b + 8) - Heads(k - 1)

(* lfs_ctz_index finds the block and the offset of a byte that are found   *)
(* by counting the bytes block by block, for any block size that holds the *)
(* pointers of the blocks counted, and however many these are.             *)
THEOREM CtzIndexCounts ==
    ASSUME NEW b \in Nat, NEW n \in Nat, Holds(b, n), NEW start, BytesCounted(start, b, n),
           NEW i \in 0..n, NEW off \in Heads(i)..b + 7
    PROVE  CtzIndex(b + 8, start[i] + off - Heads(i)) = [index |-> i, off |-> off]
<1>0. /\ \A k \in 0..n : 4 * Popc(k) + 8 <= b
      /\ start[0] = 0
      /\ \A k \in 1..n : start[k] = start[k - 1] + (b + 8) - Heads(k - 1)
  BY DEF Holds, BytesCounted
<1>1. PICK P : P = {k \in 0..n : start[k] = Begins(b, k)}
  OBVIOUS
<1>2. i \in P
  <2>1. 0 \in P
    BY <1>0, <1>1 DEF Begins
  <2>2. ASSUME NEW k \in 1..n, k - 1 \in P PROVE k \in P
    <3>1. k \in Nat /\ k # 0
      OBVIOUS
    <3>2. Begins(b, k) = Begins(b, k - 1) + (b + 8) - Heads(k - 1)
      BY <3>1, BeginsAre
    <3> QED BY <1>0, <1>1, <2>2, <3>2
  <2> QED BY <2>1, <2>2, UpTo
<1>3. PICK s \in Nat : s = start[i] /\ s = Begins(b, i)
  <2>1. i \in Nat /\ start[i] = Begins(b, i)
    BY <1>1, <1>2
  <2>2. Begins(b, i) \in Nat
    BY <2>1, BeginsAre
  <2> QED BY <2>1, <2>2
<1>4. PICK h \in Nat : h = Heads(i)
  BY BeginsAre
<1>5. CtzIndex(b + 8, s + off - h) = [index |-> i, off |-> off]
  <2>1. i \in Nat /\ off \in h..b + 7 /\ 4 * Popc(i) + 8 <= b
    BY <1>0, <1>4
  <2>2. s = IF i = 0 THEN 0 ELSE b * i + 8 + 4 * Popc(i - 1)
    BY <1>3 DEF Begins
  <2>3. h = IF i = 0 THEN 0 ELSE 4 * (Ctz(i) + 1)
    BY <1>4 DEF Heads
  <2> QED BY <2>1, <2>2, <2>3, CtzIndexIs
<1> QED BY <1>3, <1>4, <1>5

(* The smallest block that littlefs takes, and the first nine of a file.   *)
THEOREM IndexIsThePlace == IndexIsPlace
<1> DEFINE Fn(f) == f = [i \in 0..8 |-> IF i = 0 THEN 0 ELSE f[i - 1] + 128 - Heads(i - 1)]
<1>1. \E f : Fn(f)
  <2>1. PICK f : f = [i \in 0..8 |-> Begins(120, i)]
    OBVIOUS
  <2>2. PICK g : g = [i \in 0..8 |-> IF i = 0 THEN 0 ELSE f[i - 1] + 128 - Heads(i - 1)]
    OBVIOUS
  <2>3. Begins(120, 0) = 0 /\ 120 + 8 = 128
    BY DEF Begins
  <2>4. ASSUME NEW i \in 0..8 PROVE f[i] = g[i]
    <3>1. CASE i = 0
      BY <2>1, <2>2, <2>3, <3>1
    <3>2. CASE i # 0
      <4>1. i \in Nat /\ i - 1 \in 0..8 /\ 120 \in Nat
        BY <3>2
      <4>2. Begins(120, i) = Begins(120, i - 1) + (120 + 8) - Heads(i - 1)
        BY <3>2, <4>1, BeginsAre
      <4> QED BY <2>1, <2>2, <2>3, <3>2, <4>1, <4>2
    <3> QED BY <3>1, <3>2
  <2>5. f = g
    BY <2>1, <2>2, <2>4
  <2> QED BY <2>2, <2>5
<1>2. PICK start : start = (CHOOSE f : Fn(f)) /\ Fn(start)
  <2> HIDE DEF Fn
  <2> QED BY <1>1
<1>3. start[0] = 0 /\ \A i \in 1..8 : start[i] = start[i - 1] + 128 - Heads(i - 1)
  BY <1>2
<1>4. ASSUME NEW i \in 0..8, NEW off \in Heads(i)..127
      PROVE  CtzIndex(128, start[i] + off - Heads(i)) = [index |-> i, off |-> off]
  <2>1. PICK b \in Nat : b = 120
    OBVIOUS
  <2>2. PICK n \in Nat : n = 8
    OBVIOUS
  <2>3. Holds(b, n)
    <3>1. ASSUME NEW k \in 0..n PROVE 4 * Popc(k) + 8 <= b
      <4>1. k \in Nat /\ k <= 8
        BY <2>2
      <4>2. Popc(k) \in 0..k + 1
        BY <4>1, BitsAre
      <4> QED BY <2>1, <4>1, <4>2
    <3> QED BY <3>1 DEF Holds
  <2>4. b + 8 = 128 /\ i \in 0..n /\ off \in Heads(i)..b + 7
    BY <2>1, <2>2
  <2>5. BytesCounted(start, b, n)
    BY <1>3, <2>2, <2>4 DEF BytesCounted
  <2>6. CtzIndex(b + 8, start[i] + off - Heads(i)) = [index |-> i, off |-> off]
    BY <2>3, <2>4, <2>5, CtzIndexCounts
  <2> QED BY <2>4, <2>6
<1>5. IndexIsPlace <=>
        \A i \in 0..8 : \A off \in Heads(i)..128 - 1 :
            CtzIndex(128, (CHOOSE f : Fn(f))[i] + off - Heads(i)) = [index |-> i, off |-> off]
  BY DEF IndexIsPlace, Heads
<1>6. 128 - 1 = 127
  OBVIOUS
<1> HIDE DEF Fn
<1> QED BY <1>2, <1>4, <1>5, <1>6

-----------------------------------------------------------------------------
(* The allocator.                                                          *)
LEMMA ModIs ==
    ASSUME NEW B \in Nat \ {0}, NEW x \in Nat, NEW n \in Nat
    PROVE  /\ x % B \in 0..B - 1
           /\ ((x % B) + n) % B = (x + n) % B
<1>1. PICK q \in Nat, r \in 0..B - 1 : x = B * q + r /\ r = x % B
  <2>1. x = B * (x \div B) + (x % B) /\ x \div B \in Nat /\ x % B \in 0..B - 1
    OBVIOUS
  <2> QED BY <2>1
<1>2. PICK p \in Nat, s \in 0..B - 1 : r + n = B * p + s
  <2>1. PICK y \in Nat : y = r + n
    OBVIOUS
  <2>2. y = B * (y \div B) + (y % B) /\ y \div B \in Nat /\ y % B \in 0..B - 1
    OBVIOUS
  <2> QED BY <2>1, <2>2
<1>3. PICK t \in Nat : t = q + p
  OBVIOUS
<1>4. B * t = B * q + B * p
  BY <1>3
<1>5. x + n = B * t + s
  BY <1>1, <1>2, <1>4
<1>6. (B * t + s) % B = s /\ (B * p + s) % B = s
  OBVIOUS
<1> QED BY <1>1, <1>2, <1>5, <1>6

(* Two numbers less than B apart differ modulo B.                          *)
LEMMA ModDiffers ==
    ASSUME NEW B \in Nat \ {0}, NEW x \in Nat, NEW y \in Nat, x < y, y - x < B
    PROVE  x % B # y % B
<1>1. PICK q \in Nat, r \in 0..B - 1 : x = B * q + r /\ r = x % B
  <2>1. x = B * (x \div B) + (x % B) /\ x \div B \in Nat /\ x % B \in 0..B - 1
    OBVIOUS
  <2> QED BY <2>1
<1>2. PICK p \in Nat, s \in 0..B - 1 : y = B * p + s /\ s = y % B
  <2>1. y = B * (y \div B) + (y % B) /\ y \div B \in Nat /\ y % B \in 0..B - 1
    OBVIOUS
  <2> QED BY <2>1
<1> SUFFICES ASSUME r = s PROVE FALSE
  BY <1>1, <1>2
<1>3. PICK d \in Int : d = p - q
  OBVIOUS
<1>4. B * p = B * q + B * d
  BY <1>3
<1>5. B * d = y - x
  BY <1>1, <1>2, <1>4, SMTT(30)
<1>6. CASE d <= 0
  BY <1>5, <1>6
<1>7. CASE d >= 1
  <2>1. B * d >= B
    BY <1>7
  <2> QED BY <1>5, <2>1
<1> QED BY <1>6, <1>7

(* Lookahead windows.                                                      *)
Windows == [off : Nat, size : Nat, i : Nat, ack : Nat, taken : SUBSET Nat]

(* The window lies within the device, what was looked at within the        *)
(* window, and what is left to look at within what the acknowledgement     *)
(* allows.                                                                 *)
WindowType(fr) ==
    /\ fr \in Windows
    /\ fr.size <= BlockCount /\ fr.ack <= BlockCount
    /\ fr.i <= fr.size /\ fr.size - fr.i <= fr.ack

(* What the next allocations find.                                         *)
Vacants(fr) == {(fr.off + n) % BlockCount : n \in (fr.i..fr.size - 1) \ fr.taken}

(* The window begins with a block that is vacant, or it is used up.        *)
Eager(fr) == fr.i = fr.size \/ fr.i \notin fr.taken

(* A search within the window returns a block it offered and no longer     *)
(* offers it, or finds that it offers none.                                *)
LEMMA SearchIs ==
    ASSUME NEW fr, WindowType(fr), NEW a, a = Search(fr)
    PROVE  /\ a = [block |-> a.block, free |-> a.free]
           /\ a.block \in Blocks \cup {None}
           /\ WindowType(a.free) /\ Eager(a.free)
           /\ a.free.off = fr.off /\ a.free.size = fr.size
           /\ a.block # None => /\ a.block \in Vacants(fr)
                                /\ Vacants(a.free) \subseteq Vacants(fr) \ {a.block}
           /\ a.block = None => /\ Vacants(a.free) = {} /\ a.free.i = fr.size
                                /\ a.free.ack = fr.ack - (fr.size - fr.i)
                                /\ (fr.i..fr.size - 1) \ fr.taken = {}
<1>1. PICK B \in Nat \ {0} : B = BlockCount
  BY BlockCountAssumption
<1>2. PICK vacant : vacant = (fr.i..fr.size - 1) \ fr.taken
  OBVIOUS
<1>3. fr.off \in Nat /\ fr.size \in Nat /\ fr.i \in Nat /\ fr.ack \in Nat /\ fr.taken \in SUBSET Nat
      /\ fr.size <= B /\ fr.ack <= B /\ fr.i <= fr.size /\ fr.size - fr.i <= fr.ack
  BY <1>1 DEF WindowType, Windows
<1>03. fr \in Windows
  BY DEF WindowType
<1>4. CASE vacant = {}
  <2>1. PICK g : g = [fr EXCEPT !.i = fr.size, !.ack = @ - (fr.size - fr.i)]
    OBVIOUS
  <2>2. Search(fr) = [block |-> None, free |-> g]
    BY <1>2, <1>4, <2>1 DEF Search
  <2>3. g \in Windows /\ g.i = fr.size /\ g.size = fr.size /\ g.off = fr.off
        /\ g.ack = fr.ack - (fr.size - fr.i) /\ g.taken = fr.taken
    <3>1. PICK k \in Nat : k = fr.ack - (fr.size - fr.i)
      BY <1>3
    <3>2. g = [fr EXCEPT !.i = fr.size, !.ack = k]
      BY <2>1, <3>1
    <3> QED BY <1>03, <1>3, <3>1, <3>2 DEF Windows
  <2>4. WindowType(g)
    BY <1>1, <1>3, <2>3 DEF WindowType
  <2>5. Vacants(g) = {}
    <3>1. g.i..g.size - 1 = {}
      BY <1>3, <2>3
    <3> QED BY <3>1 DEF Vacants
  <2>6. Eager(g)
    BY <2>3 DEF Eager
  <2>7. a.block = None /\ a.free = g
    BY <2>2
  <2>8. None \in Blocks \cup {None}
    OBVIOUS
  <2> QED BY <1>2, <1>4, <2>2, <2>3, <2>4, <2>5, <2>6, <2>7
<1>5. CASE vacant # {}
  <2>1. vacant \in SUBSET Nat
    BY <1>2, <1>3
  <2>2. PICK m \in vacant : m = Min(vacant) /\ \A x \in vacant : m <= x
    BY <1>5, <2>1, MinIsLeast
  <2>3. m \in Nat /\ fr.i <= m /\ m < fr.size /\ m \notin fr.taken
    BY <1>2, <1>3, <2>2
  <2>4. PICK R : R = (vacant \ {m}) \cup {fr.size}
    OBVIOUS
  <2>5. R \in SUBSET Nat /\ R # {}
    BY <1>3, <2>1, <2>4
  <2>6. PICK i \in R : i = Min(R) /\ \A x \in R : i <= x
    BY <2>5, MinIsLeast
  <2>7. i \in Nat /\ m < i /\ i <= fr.size /\ (i = fr.size \/ i \notin fr.taken)
    <3>0. i \in Nat
      BY <2>5, <2>6
    <3>1. i <= fr.size
      BY <2>4, <2>6
    <3>2. CASE i = fr.size
      BY <1>3, <2>3, <3>2
    <3>3. CASE i # fr.size
      <4>1. i \in vacant /\ i # m
        BY <2>4, <2>6, <3>3
      <4>2. m <= i
        BY <2>2, <4>1
      <4>3. m < i
        BY <2>3, <3>0, <4>1, <4>2
      <4>4. i \notin fr.taken
        BY <1>2, <4>1
      <4> QED BY <3>0, <3>1, <4>3, <4>4
    <3> QED BY <3>0, <3>2, <3>3
  <2>8. PICK g : g = [fr EXCEPT !.i = i, !.ack = @ - (i - fr.i)]
    OBVIOUS
  <2>9. Search(fr) = [block |-> (fr.off + m) % BlockCount, free |-> g]
    BY <1>2, <1>5, <2>2, <2>4, <2>6, <2>8 DEF Search
  <2>10. g \in Windows /\ g.i = i /\ g.size = fr.size /\ g.off = fr.off
         /\ g.ack = fr.ack - (i - fr.i) /\ g.taken = fr.taken
    <3>1. PICK k \in Nat : k = fr.ack - (i - fr.i)
      BY <1>3, <2>3, <2>7
    <3>2. g = [fr EXCEPT !.i = i, !.ack = k]
      BY <2>8, <3>1
    <3> QED BY <1>03, <2>7, <3>1, <3>2 DEF Windows
  <2>11. WindowType(g) /\ Eager(g)
    BY <1>1, <1>3, <2>3, <2>7, <2>10 DEF WindowType, Eager
  <2>12. PICK b : b = (fr.off + m) % B
    OBVIOUS
  <2>13. b \in 0..B - 1 /\ b \in Vacants(fr)
    <3>1. fr.off + m \in Nat
      BY <1>3, <2>3
    <3>2. b \in 0..B - 1
      BY <2>12, <3>1, ModIs
    <3> QED BY <1>1, <1>2, <2>12, <3>2 DEF Vacants
  <2>14. ASSUME NEW v \in Vacants(g) PROVE v \in Vacants(fr) /\ v # b
    <3>1. PICK n \in (i..fr.size - 1) \ fr.taken : v = (fr.off + n) % B
      BY <1>1, <2>10 DEF Vacants
    <3>2. n \in Nat /\ m < n /\ n < fr.size /\ n \in (fr.i..fr.size - 1) \ fr.taken
      BY <1>3, <2>3, <2>7, <3>1
    <3>3. v \in Vacants(fr)
      BY <1>1, <3>1, <3>2 DEF Vacants
    <3>4. fr.off + m \in Nat /\ fr.off + n \in Nat /\ fr.off + m < fr.off + n
          /\ (fr.off + n) - (fr.off + m) < B
      BY <1>3, <2>3, <3>2
    <3>5. (fr.off + m) % B # (fr.off + n) % B
      BY <3>4, ModDiffers
    <3> QED BY <2>12, <3>1, <3>3, <3>5
  <2>15. b # None /\ b \in Blocks
    BY <1>1, <2>13 DEF None, Blocks
  <2>16. a.block = b /\ a.free = g
    BY <1>1, <2>9, <2>12
  <2>17. a = [block |-> a.block, free |-> a.free]
    BY <2>9
  <2> QED BY <2>10, <2>11, <2>13, <2>14, <2>15, <2>16, <2>17
<1> QED BY <1>4, <1>5

(* The next window offers no block that is in use.                         *)
LEMMA WindowIs ==
    ASSUME NEW fr, WindowType(fr), NEW used
    PROVE  LET w == Window(fr, used) IN
           /\ WindowType(w) /\ Vacants(w) \cap used = {} /\ w.i = 0
           /\ w.off = (fr.off + fr.size) % BlockCount /\ w.ack = fr.ack
           /\ fr.ack > 0 => w.size > 0
           /\ \A n \in 0..w.size - 1 : n \in w.taken => (w.off + n) % BlockCount \in Marks(used)
<1>1. PICK B \in Nat \ {0} : B = BlockCount
  BY BlockCountAssumption
<1>2. fr.off \in Nat /\ fr.size \in Nat /\ fr.ack \in Nat /\ fr.ack <= B
  BY <1>1 DEF WindowType, Windows
<1>3. PICK size : size = Min({Lookahead, fr.ack})
  OBVIOUS
<1>4. size \in Nat /\ size <= fr.ack /\ (fr.ack > 0 => size > 0)
  <2>1. Lookahead \in Nat \ {0} /\ {Lookahead, fr.ack} \in SUBSET Nat
    BY <1>2, LookaheadAssumption
  <2>2. size \in {Lookahead, fr.ack} /\ \A x \in {Lookahead, fr.ack} : size <= x
    BY <1>3, <2>1, MinIsLeast
  <2> QED BY <1>2, <2>1, <2>2
<1>5. PICK off \in Nat : off = (fr.off + fr.size) % B
  <2>1. fr.off + fr.size \in Nat
    BY <1>2
  <2>2. (fr.off + fr.size) % B \in 0..B - 1
    BY <2>1, ModIs
  <2> QED BY <2>2
<1>6. PICK taken : taken = {n \in 0..size - 1 : (off + n) % BlockCount \in Marks(used)}
  OBVIOUS
<1>7. PICK w : w = [off |-> off, size |-> size, i |-> 0, ack |-> fr.ack, taken |-> taken]
  OBVIOUS
<1>8. Window(fr, used) = w
  BY <1>1, <1>3, <1>5, <1>6, <1>7 DEF Window
<1>9. taken \in SUBSET Nat
  BY <1>6
<1>10. WindowType(w)
  BY <1>1, <1>2, <1>4, <1>7, <1>9 DEF WindowType, Windows
<1>11. ASSUME NEW b \in Vacants(w) PROVE b \notin used
  <2>1. PICK n \in (0..size - 1) \ taken : b = (off + n) % B
    BY <1>1, <1>7 DEF Vacants
  <2>2. b \notin Marks(used)
    BY <1>1, <1>6, <2>1
  <2>3. off + n \in Nat
    BY <1>4, <2>1
  <2>4. b \in 0..B - 1
    BY <2>1, <2>3, ModIs
  <2>5. b % B = b
    BY <2>4
  <2> QED BY <1>1, <2>2, <2>5 DEF Marks
<1> QED BY <1>1, <1>4, <1>5, <1>6, <1>7, <1>8, <1>10, <1>11

(* lfs_alloc(): what it finds is not in use, nor will the next be; when it *)
(* looked at all blocks and found none, there is none.                     *)
IsFound(a, used) ==
    /\ a = [block |-> a.block, free |-> a.free]
    /\ a.block \in Blocks \cup {None}
    /\ WindowType(a.free) /\ Eager(a.free)
    /\ Vacants(a.free) \cap used = {}
    /\ a.block # None => a.block \notin used /\ a.block \notin Vacants(a.free)
    /\ a.block = None => Vacants(a.free) = {} /\ a.free.i = a.free.size

(* All that was looked at since the acknowledgement is marked.             *)
IsCovered(a, used, start) ==
    a.block = None =>
        /\ \A j \in 0..BlockCount - a.free.ack - 1 : (start + j) % BlockCount \in Marks(used)
        /\ (a.free.off + a.free.size) % BlockCount = (start + (BlockCount - a.free.ack)) % BlockCount

(* One more window, when nothing was found yet and the acknowledgement     *)
(* allows it.                                                              *)
More(a, used) ==
    IF a.block # None \/ a.free.ack = 0 THEN a ELSE Search(Window(a.free, used))

(* One more window keeps what is known of the search, and brings its end   *)
(* nearer.                                                                 *)
LEMMA MoreIs ==
    ASSUME NEW used, NEW a, IsFound(a, used), NEW start \in Nat
    PROVE  /\ IsFound(More(a, used), used)
           /\ IsCovered(a, used, start) => IsCovered(More(a, used), used, start)
           /\ More(a, used).block = None =>
                More(a, used).free.ack < a.free.ack \/ More(a, used).free.ack = 0
<1>1. CASE a.block # None \/ a.free.ack = 0
  BY <1>1 DEF More
<1>2. CASE ~(a.block # None \/ a.free.ack = 0)
  <2>1. PICK B \in Nat \ {0} : B = BlockCount
    BY BlockCountAssumption
  <2>2. PICK w : w = Window(a.free, used)
    OBVIOUS
  <2>3. /\ WindowType(w) /\ Vacants(w) \cap used = {} /\ w.i = 0
        /\ w.off = (a.free.off + a.free.size) % BlockCount /\ w.ack = a.free.ack
        /\ a.free.ack > 0 => w.size > 0
        /\ \A n \in 0..w.size - 1 : n \in w.taken => (w.off + n) % BlockCount \in Marks(used)
    BY <2>2, WindowIs DEF IsFound
  <2>4. PICK m : m = Search(w) /\ m = More(a, used)
    BY <1>2, <2>2 DEF More
  <2>5. /\ m = [block |-> m.block, free |-> m.free]
        /\ m.block \in Blocks \cup {None}
        /\ WindowType(m.free) /\ Eager(m.free)
        /\ m.free.off = w.off /\ m.free.size = w.size
        /\ m.block # None => /\ m.block \in Vacants(w)
                             /\ Vacants(m.free) \subseteq Vacants(w) \ {m.block}
        /\ m.block = None => /\ Vacants(m.free) = {} /\ m.free.i = w.size
                             /\ m.free.ack = w.ack - (w.size - w.i)
                             /\ (w.i..w.size - 1) \ w.taken = {}
    BY <2>3, <2>4, SearchIs
  <2>6. IsFound(m, used)
    BY <2>3, <2>5 DEF IsFound
  <2>7. a.free.ack \in Nat /\ a.free.ack > 0 /\ a.free.ack <= B /\ w.size \in Nat /\ w.size > 0
        /\ w.off \in Nat /\ w.size <= w.ack /\ a.free.off \in Nat /\ a.free.size \in Nat
    BY <1>2, <2>1, <2>3 DEF IsFound, WindowType, Windows
  <2>8. m.block = None => m.free.ack < a.free.ack
    BY <2>3, <2>5, <2>7
  <2>9. ASSUME IsCovered(a, used, start), m.block = None PROVE IsCovered(m, used, start)
    <3>1. PICK t \in Nat : t = B - a.free.ack
      BY <2>7
    <3>2. /\ \A j \in 0..t - 1 : (start + j) % B \in Marks(used)
          /\ (a.free.off + a.free.size) % B = (start + t) % B
      BY <1>2, <2>1, <2>9, <3>1 DEF IsCovered
    <3>3. PICK z \in Nat : z = w.size /\ z > 0 /\ m.free.ack = a.free.ack - z /\ B - m.free.ack = t + z
      BY <2>3, <2>5, <2>7, <2>9, <3>1
    <3>4. PICK off \in Nat : off = w.off /\ off = (start + t) % B
      BY <2>1, <2>3, <2>7, <3>2
    <3>5. ASSUME NEW n \in Nat PROVE (off + n) % B = (start + (t + n)) % B
      <4>1. start + t \in Nat
        OBVIOUS
      <4>2. (((start + t) % B) + n) % B = ((start + t) + n) % B
        BY <4>1, ModIs
      <4>3. (start + t) + n = start + (t + n)
        OBVIOUS
      <4> QED BY <3>4, <4>2, <4>3
    <3>6. ASSUME NEW j \in 0..(t + z) - 1 PROVE (start + j) % B \in Marks(used)
      <4>1. CASE j < t
        <5>1. PICK S : S = {x \in Nat : (start + x) % B \in Marks(used)}
          OBVIOUS
        <5>2. \A x \in 0..t - 1 : x \in S
          <6>1. \A x \in 0..t - 1 : x \in Nat
            OBVIOUS
          <6> QED BY <3>2, <5>1, <6>1
        <5>3. j \in 0..t - 1
          BY <4>1
        <5>4. j \in S
          BY <5>2, <5>3
        <5> QED BY <5>1, <5>4
      <4>2. CASE j >= t
        <5>1. PICK n \in 0..z - 1 : n = j - t
          BY <4>2
        <5>2. n \in w.taken
          BY <2>3, <2>5, <2>9, <3>3, <5>1
        <5>3. (off + n) % B \in Marks(used)
          BY <2>1, <2>3, <3>3, <3>4, <5>2
        <5>4. t + n = j
          BY <5>1
        <5>5. n \in Nat
          BY <3>3
        <5>6. (off + n) % B = (start + (t + n)) % B
          BY <3>5, <5>5
        <5>7. (start + (t + n)) % B \in Marks(used)
          BY <5>3, <5>6
        <5> QED BY <5>4, <5>7
      <4> QED BY <4>1, <4>2
    <3>7. (m.free.off + m.free.size) % B = (start + (t + z)) % B
      BY <2>5, <3>3, <3>4, <3>5
    <3> QED BY <2>1, <3>3, <3>6, <3>7 DEF IsCovered
  <2>10. m.block # None => IsCovered(m, used, start)
    BY DEF IsCovered
  <2> QED BY <2>4, <2>6, <2>8, <2>9, <2>10
<1> QED BY <1>1, <1>2

(* lfs_alloc returns a block that is not in use, and offers no block in    *)
(* use; and when a search that began with a fresh acknowledgement finds    *)
(* none, all blocks are in use but what LFS_BLOCK_INLINE marks.            *)
LEMMA AllocIs ==
    ASSUME NEW fr, WindowType(fr), NEW used \in SUBSET (Blocks \cup {Inline}), Vacants(fr) \cap used = {},
           NEW a, a = Alloc(fr, used)
    PROVE  /\ a.block \in Blocks \cup {None}
           /\ WindowType(a.free) /\ Eager(a.free)
           /\ Vacants(a.free) \cap used = {}
           /\ a.block # None => a.block \notin used /\ a.block \notin Vacants(a.free)
           /\ a.block = None => Vacants(a.free) = {}
           /\ Eager(fr) /\ fr.ack = BlockCount /\ a.block = None => a.full
<1>1. PICK B \in Nat \ {0} : B = BlockCount
  BY BlockCountAssumption
<1> DEFINE Next1(y) == More(y, used)
           x == Search(fr)
           V == {y \in [block : Blocks \cup {None}, free : Windows] : IsFound(y, used)}
           Fn(f) == f = [i \in 0..B |-> IF i = 0 THEN x
                             ELSE CHOOSE r \in {Next1(y) : y \in {f[i - 1]}} : TRUE]
<1>2. PICK s : s = Search(fr) /\ s = x
  OBVIOUS
<1>3. /\ s = [block |-> s.block, free |-> s.free]
      /\ s.block \in Blocks \cup {None}
      /\ WindowType(s.free) /\ Eager(s.free)
      /\ s.free.off = fr.off /\ s.free.size = fr.size
      /\ s.block # None => /\ s.block \in Vacants(fr)
                           /\ Vacants(s.free) \subseteq Vacants(fr) \ {s.block}
      /\ s.block = None => /\ Vacants(s.free) = {} /\ s.free.i = fr.size
                           /\ s.free.ack = fr.ack - (fr.size - fr.i)
                           /\ (fr.i..fr.size - 1) \ fr.taken = {}
  BY <1>2, SearchIs
<1>4. IsFound(s, used)
  BY <1>3 DEF IsFound
<1>5. ASSUME NEW y, IsFound(y, used) PROVE y \in V
  <2>1. y.free \in Windows
    BY <1>5 DEF IsFound, WindowType
  <2>2. y = [block |-> y.block, free |-> y.free] /\ y.block \in Blocks \cup {None}
    BY <1>5 DEF IsFound
  <2>3. [block |-> y.block, free |-> y.free] \in [block : Blocks \cup {None}, free : Windows]
    BY <2>1, <2>2
  <2>4. y \in [block : Blocks \cup {None}, free : Windows]
    BY <2>2, <2>3
  <2> QED BY <1>5, <2>4
<1>6. ASSUME NEW y \in V PROVE Next1(y) \in V
  <2>1. 0 \in Nat /\ IsFound(y, used)
    OBVIOUS
  <2>2. IsFound(More(y, used), used)
    BY <2>1, MoreIs
  <2> QED BY <1>5, <2>2
<1>7. x \in V
  BY <1>2, <1>4, <1>5
<1>8. PICK step : step = [i \in 1..B |-> [y \in V |-> Next1(y)]]
  OBVIOUS
<1>9. step \in [1..B -> [V -> V]]
  <2> HIDE DEF Next1, V
  <2> QED BY <1>6, <1>8
<1>10. PICK g : IsFold(g, V, x, B, step)
  <2> HIDE DEF V, x
  <2> QED BY <1>1, <1>7, <1>9, FoldIs
<1>11. Fn(g)
  <2> HIDE DEF Next1, V, x
  <2>1. ASSUME NEW i \in 1..B PROVE g[i] = Next1(g[i - 1])
    <3>1. i - 1 \in 0..B /\ g[i - 1] \in V /\ g[i] = step[i][g[i - 1]]
      BY <1>10 DEF IsFold
    <3> QED BY <1>8, <3>1
  <2>2. g = [i \in 0..B |-> g[i]] /\ g[0] = x
    BY <1>10 DEF IsFold
  <2>3. PICK h : h = [i \in 0..B |-> IF i = 0 THEN x
                             ELSE CHOOSE r \in {Next1(y) : y \in {g[i - 1]}} : TRUE]
    OBVIOUS
  <2>4. ASSUME NEW i \in 0..B PROVE h[i] = g[i]
    <3>1. CASE i = 0
      BY <2>2, <2>3, <3>1
    <3>2. CASE i # 0
      <4>1. i \in 1..B
        BY <3>2
      <4>2. h[i] \in {Next1(y) : y \in {g[i - 1]}}
        BY <2>3, <3>2
      <4> QED BY <2>1, <4>1, <4>2
    <3> QED BY <3>1, <3>2
  <2>5. h = [i \in 0..B |-> h[i]]
    BY <2>3
  <2>6. g = h
    BY <2>2, <2>4, <2>5
  <2> QED BY <2>3, <2>6
<1> DEFINE full == Blocks \ used \subseteq Marks(used \cap {Inline})
<1>12. PICK f : Fn(f) /\ a = [block |-> f[B].block, free |-> f[B].free, full |-> full]
  <2>1. a = [block |-> (CHOOSE f : Fn(f))[B].block, free |-> (CHOOSE f : Fn(f))[B].free,
             full |-> full]
    BY <1>1 DEF Alloc, Iterate, More
  <2> HIDE DEF Fn
  <2> QED BY <1>11, <2>1
<1>13. f[0] = s /\ \A i \in 1..B : f[i] = More(f[i - 1], used)
  <2>1. f[0] = s
    <3> HIDE DEF Next1, x
    <3> QED BY <1>2, <1>12
  <2>2. ASSUME NEW i \in 1..B PROVE f[i] = More(f[i - 1], used)
    <3>1. i \in 0..B /\ i # 0
      OBVIOUS
    <3> HIDE DEF Next1, x
    <3>2. f[i] = CHOOSE r \in {Next1(y) : y \in {f[i - 1]}} : TRUE
      BY <1>12, <3>1
    <3>3. f[i] \in {Next1(y) : y \in {f[i - 1]}}
      BY <3>2
    <3>4. f[i] = Next1(f[i - 1])
      BY <3>3
    <3> QED BY <3>4 DEF Next1
  <2> QED BY <2>1, <2>2
<1> HIDE DEF Fn, V, x, Next1
<1>14. PICK start \in Nat : start = fr.off + fr.size
  BY DEF WindowType, Windows
<1> DEFINE At(i) == /\ IsFound(f[i], used)
                    /\ f[i].block = None => f[i].free.ack <= B - i
                    /\ Eager(fr) /\ fr.ack = B => IsCovered(f[i], used, start)
<1>15. PICK P : P = {i \in 0..B : At(i)}
  OBVIOUS
<1>16. 0 \in P
  <2>1. s.block = None => s.free.ack <= B - 0
    BY <1>1, <1>4 DEF IsFound, WindowType, Windows
  <2>2. ASSUME Eager(fr), fr.ack = B, s.block = None PROVE IsCovered(s, used, start)
    <3>1. fr.i = fr.size
      <4>1. fr.i \in Nat /\ fr.size \in Nat /\ fr.i <= fr.size
        BY DEF WindowType, Windows
      <4>2. CASE fr.i < fr.size
        <5>1. fr.i \in fr.i..fr.size - 1
          BY <4>1, <4>2
        <5>2. fr.i \in fr.taken
          BY <1>3, <2>2, <5>1
        <5> QED BY <2>2, <4>1, <4>2, <5>2 DEF Eager
      <4> QED BY <4>1, <4>2
    <3>2. fr.size \in Nat
      BY DEF WindowType, Windows
    <3>3. s.free.ack = B
      BY <1>3, <2>2, <3>1, <3>2
    <3>4. BlockCount - s.free.ack = 0
      BY <1>1, <3>3
    <3>5. start + 0 = start /\ 0..0 - 1 = {}
      OBVIOUS
    <3> QED BY <1>3, <1>14, <3>4, <3>5 DEF IsCovered
  <2>3. s.block # None => IsCovered(s, used, start)
    BY DEF IsCovered
  <2>4. At(0)
    BY <1>4, <1>13, <2>1, <2>2, <2>3
  <2> HIDE DEF At
  <2> QED BY <1>15, <2>4
<1>17. ASSUME NEW i \in 1..B, i - 1 \in P PROVE i \in P
  <2>1. At(i - 1)
    <3> HIDE DEF At
    <3> QED BY <1>15, <1>17
  <2>2. PICK y : y = f[i - 1] /\ f[i] = More(y, used)
    BY <1>13
  <2>3. IsFound(y, used)
    BY <2>1, <2>2
  <2>4. /\ IsFound(More(y, used), used)
        /\ IsCovered(y, used, start) => IsCovered(More(y, used), used, start)
        /\ More(y, used).block = None =>
             More(y, used).free.ack < y.free.ack \/ More(y, used).free.ack = 0
    BY <2>3, MoreIs
  <2>5. f[i].block = None => y.block = None
    BY <2>2 DEF More
  <2>6. f[i].block = None => f[i].free.ack <= B - i
    <3>1. f[i].free.ack \in Nat /\ y.free.ack \in Nat
      BY <2>2, <2>3, <2>4 DEF IsFound, WindowType, Windows
    <3>2. y.block = None => y.free.ack <= B - (i - 1)
      BY <2>1, <2>2
    <3> QED BY <2>2, <2>4, <2>5, <3>1, <3>2
  <2>7. At(i)
    BY <2>1, <2>2, <2>4, <2>6
  <2> HIDE DEF At
  <2> QED BY <1>15, <2>7
<1>18. At(B)
  <2> HIDE DEF At
  <2>1. B \in P
    BY <1>16, <1>17, UpTo
  <2> QED BY <1>15, <2>1
<1>19. IsFound(f[B], used)
  BY <1>18
<1>20. a.block = f[B].block /\ a.free = f[B].free /\ a.full = full
  <2> HIDE DEF full
  <2> QED BY <1>12
<1>21. ASSUME Eager(fr), fr.ack = BlockCount, a.block = None PROVE full
  <2>1. f[B].free.ack = 0
    <3>1. f[B].free.ack \in Nat
      BY <1>19 DEF IsFound, WindowType, Windows
    <3>2. f[B].free.ack <= B - B
      BY <1>18, <1>20, <1>21
    <3> QED BY <3>1, <3>2
  <2>2. \A j \in 0..B - 1 : (start + j) % B \in Marks(used)
    <3>1. IsCovered(f[B], used, start)
      BY <1>1, <1>18, <1>21
    <3>2. BlockCount - f[B].free.ack - 1 = B - 1
      BY <1>1, <2>1
    <3> QED BY <1>1, <1>20, <1>21, <3>1, <3>2 DEF IsCovered
  <2>3. ASSUME NEW b \in Blocks PROVE b \in Marks(used)
    <3>1. b \in 0..B - 1
      BY <1>1 DEF Blocks
    <3>2. PICK r \in 0..B - 1, q \in Nat : start = B * q + r
      <4>1. start = B * (start \div B) + (start % B) /\ start \div B \in Nat /\ start % B \in 0..B - 1
        OBVIOUS
      <4> QED BY <4>1
    <3>3. PICK j \in 0..B - 1 : r + j = b \/ r + j = b + B
      <4>1. CASE r <= b
        <5>1. b - r \in 0..B - 1 /\ r + (b - r) = b
          BY <3>1, <4>1
        <5> QED BY <5>1
      <4>2. CASE r > b
        <5>1. (b + B) - r \in 0..B - 1 /\ r + ((b + B) - r) = b + B
          BY <3>1, <4>2
        <5> QED BY <5>1
      <4> QED BY <3>1, <4>1, <4>2
    <3>4. (start + j) % B = b
      <4>1. CASE r + j = b
        <5>1. start + j = B * q + b
          BY <3>2, <4>1
        <5>2. (B * q + b) % B = b
          BY <3>1
        <5> QED BY <5>1, <5>2
      <4>2. CASE r + j = b + B
        <5>1. PICK t \in Nat : t = q + 1
          OBVIOUS
        <5>2. B * t = B * q + B
          BY <5>1
        <5>3. start + j = B * t + b
          BY <3>1, <3>2, <4>2, <5>2
        <5>4. (B * t + b) % B = b
          BY <3>1
        <5> QED BY <5>3, <5>4
      <4> QED BY <3>3, <4>1, <4>2
    <3> QED BY <2>2, <3>4
  <2>4. ASSUME NEW b \in Blocks \ used PROVE b \in Marks(used \cap {Inline})
    <3>1. PICK c \in used : b = c % B
      BY <1>1, <2>3 DEF Marks
    <3>2. c \in Blocks => c % B = c
      BY <1>1 DEF Blocks
    <3>3. c \in used \cap {Inline}
      BY <3>1, <3>2
    <3> QED BY <1>1, <3>1, <3>3 DEF Marks
  <2> QED BY <2>4
<1> QED BY <1>19, <1>20, <1>21 DEF IsFound

-----------------------------------------------------------------------------
(* Lists as the entries and the files hold them.                           *)
ListOf(fl, c, head, size) ==
    /\ IsList(fl, c, Index(size - 1))
    /\ c[Index(size - 1)] = head
    /\ IsFull(fl, c, size)

(* The blocks from head hold size bytes.                                   *)
HasList(fl, head, size) ==
    /\ head \in Blocks
    /\ size > 0 => \E c : ListOf(fl, c, head, size)

(* What a list of blocks is to the operators that walk it.                 *)
LEMMA ListIs ==
    ASSUME NEW fl, FlashType(fl), NEW size \in Nat \ {0}, NEW head, NEW c, ListOf(fl, c, head, size)
    PROVE  /\ Index(size - 1) \in Nat
           /\ c \in [0..Index(size - 1) -> Blocks]
           /\ Traverse(fl, head, size) = {c[i] : i \in 0..Index(size - 1)}
           /\ head \in Traverse(fl, head, size) /\ head \in Blocks
           /\ Traverse(fl, head, size) \subseteq Blocks
           /\ Bytes(fl, head, size) \in Seq(Int) /\ Len(Bytes(fl, head, size)) = size
           /\ \A p \in 0..size - 1 : /\ Index(p) \in 0..Index(size - 1)
                                     /\ Bytes(fl, head, size)[p + 1] = Unit(fl, c, p)
                                     /\ Unit(fl, c, p) \in Int
<1>1. PICK n \in Nat : n = Index(size - 1)
  BY IndexIs
<1>2. IsList(fl, c, n) /\ c[n] = head /\ IsFull(fl, c, size)
  BY <1>1 DEF ListOf
<1>3. c \in [0..n -> Blocks]
  BY <1>2 DEF IsList
<1>4. Traverse(fl, head, size) = {c[i] : i \in 0..n}
  BY <1>1, <1>2, TraverseIs, ZenonT(40)
<1>5. Bytes(fl, head, size) \in Seq(Int) /\ Len(Bytes(fl, head, size)) = size
      /\ \A p \in 0..size - 1 : Bytes(fl, head, size)[p + 1] = Unit(fl, c, p)
  BY <1>1, <1>2, BytesIs
<1>6. ASSUME NEW p \in 0..size - 1
      PROVE  Index(p) \in 0..n /\ Unit(fl, c, p) \in Int
  <2>1. p \in Nat /\ size - 1 \in Nat /\ p <= size - 1
    OBVIOUS
  <2>2. Index(p) \in 0..n
    BY <1>1, <2>1, IndexIs, IndexGrows
  <2>3. p + 1 \in 1..size
    OBVIOUS
  <2>4. Bytes(fl, head, size)[p + 1] \in Int
    BY <1>5, <2>3
  <2> QED BY <1>5, <2>2, <2>4
<1>7. head \in {c[i] : i \in 0..n} /\ {c[i] : i \in 0..n} \subseteq Blocks
  BY <1>2, <1>3
<1> QED BY <1>1, <1>3, <1>4, <1>5, <1>6, <1>7

(* The traversal alone.                                                    *)
LEMMA TraversalIs ==
    ASSUME NEW fl, FlashType(fl), NEW size \in Nat \ {0}, NEW head, NEW c, ListOf(fl, c, head, size)
    PROVE  Traverse(fl, head, size) = {c[i] : i \in 0..Index(size - 1)}
BY ListIs

(* A file without bytes has no blocks.                                     *)
LEMMA NoList ==
    ASSUME NEW fl, NEW head
    PROVE  Traverse(fl, head, 0) = {} /\ Bytes(fl, head, 0) = <<>>
BY DEF Traverse, Bytes

(* A list lies within the device and reads as its bytes.                   *)
LEMMA HasListIs ==
    ASSUME NEW fl, FlashType(fl), NEW size \in Nat, NEW head, HasList(fl, head, size)
    PROVE  /\ Traverse(fl, head, size) \subseteq Blocks
           /\ size > 0 => head \in Traverse(fl, head, size)
           /\ Bytes(fl, head, size) \in Seq(Int) /\ Len(Bytes(fl, head, size)) = size
<1>1. CASE size = 0
  <2>1. Traverse(fl, head, size) = {} /\ Bytes(fl, head, size) = <<>>
    BY <1>1, NoList
  <2>02. <<>> \in Seq(Int) /\ Len(<<>>) = 0
    OBVIOUS
  <2>2. PICK s : s \in Seq(Int) /\ s = <<>> /\ Len(s) = 0
    BY <2>02, Zenon
  <2>3. Traverse(fl, head, size) \subseteq Blocks
    BY <2>1
  <2>4. Bytes(fl, head, size) = s
    BY <2>1, <2>2
  <2>5. Bytes(fl, head, size) \in Seq(Int)
    BY <2>2, <2>4
  <2>6. Len(Bytes(fl, head, size)) = size
    BY <1>1, <2>2, <2>4
  <2>7. ~(size > 0)
    BY <1>1
  <2> QED BY <2>3, <2>5, <2>6, <2>7
<1>2. CASE size # 0
  <2>1. PICK c : ListOf(fl, c, head, size)
    BY <1>2 DEF HasList
  <2>2. size \in Nat \ {0} /\ size > 0
    BY <1>2
  <2>3. head \in Traverse(fl, head, size) /\ Traverse(fl, head, size) \subseteq Blocks
    BY <2>1, <2>2, ListIs
  <2>4. Bytes(fl, head, size) \in Seq(Int) /\ Len(Bytes(fl, head, size)) = size
    BY <2>1, <2>2, ListIs
  <2> QED BY <2>3, <2>4
<1> QED BY <1>1, <1>2

(* Sequences with the same units.                                          *)
LEMMA SameUnits ==
    ASSUME NEW S, NEW s \in Seq(S), NEW t \in Seq(S), Len(s) = Len(t),
           \A p \in 0..Len(s) - 1 : s[p + 1] = t[p + 1]
    PROVE  s = t
<1>1. PICK n \in Nat : n = Len(s) /\ n = Len(t)
  OBVIOUS
<1>2. ASSUME NEW i \in 1..n PROVE s[i] = t[i]
  <2>1. i - 1 \in 0..Len(s) - 1 /\ (i - 1) + 1 = i
    BY <1>1
  <2> QED BY <2>1
<1> QED BY <1>1, <1>2

(* What is not in a list does not matter to it.                            *)
LEMMA ListStays ==
    ASSUME NEW fl, FlashType(fl), NEW fl2, FlashType(fl2), NEW size \in Nat, NEW head,
           HasList(fl, head, size), \A b \in Traverse(fl, head, size) : fl2[b] = fl[b]
    PROVE  /\ HasList(fl2, head, size)
           /\ Traverse(fl2, head, size) = Traverse(fl, head, size)
           /\ Bytes(fl2, head, size) = Bytes(fl, head, size)
<1>1. CASE size = 0
  BY <1>1, NoList DEF HasList
<1>2. CASE size # 0
  <2>1. PICK c : ListOf(fl, c, head, size)
    BY <1>2 DEF HasList
  <2>02. size \in Nat \ {0}
    BY <1>2
  <2>2. PICK n \in Nat : n = Index(size - 1)
    BY <1>2, IndexIs
  <2>3. c \in [0..n -> Blocks] /\ \A i \in 0..n : c[i] \in Traverse(fl, head, size)
    BY <1>2, <2>1, <2>2, ListIs
  <2>4. \A i \in 0..n : fl2[c[i]] = fl[c[i]]
    BY <2>3
  <2>5. ListOf(fl2, c, head, size)
    <3>1. IsList(fl2, c, n)
      BY <2>1, <2>2, <2>4 DEF ListOf, IsList
    <3>2. IsFull(fl2, c, size)
      <4>1. \A i \in 0..n - 1 : i \in 0..n
        OBVIOUS
      <4>2. n \in 0..n
        OBVIOUS
      <4> QED BY <2>1, <2>2, <2>4, <4>1, <4>2 DEF ListOf, IsFull
    <3> QED BY <2>1, <2>2, <3>1, <3>2 DEF ListOf
  <2>6. HasList(fl2, head, size)
    BY <2>5, <2>1, <1>2 DEF HasList
  <2>7. Traverse(fl2, head, size) = Traverse(fl, head, size)
    <3>1. Traverse(fl, head, size) = {c[i] : i \in 0..Index(size - 1)}
      BY <2>02, <2>1, ListIs
    <3>2. Traverse(fl2, head, size) = {c[i] : i \in 0..Index(size - 1)}
      BY <2>02, <2>5, ListIs
    <3> QED BY <3>1, <3>2
  <2>8. PICK s \in Seq(Int) : s = Bytes(fl, head, size) /\ Len(s) = size
    BY <1>2, <2>1, ListIs
  <2>9. PICK t \in Seq(Int) : t = Bytes(fl2, head, size) /\ Len(t) = size
    BY <1>2, <2>5, ListIs
  <2>10. ASSUME NEW p \in 0..size - 1 PROVE s[p + 1] = t[p + 1]
    <3>1. s[p + 1] = Unit(fl, c, p) /\ Index(p) \in 0..n
      BY <1>2, <2>1, <2>2, <2>8, ListIs
    <3>2. t[p + 1] = Unit(fl2, c, p)
      BY <2>02, <2>5, <2>9, ListIs, SMTT(30)
    <3>3. fl2[c[Index(p)]] = fl[c[Index(p)]]
      BY <2>4, <3>1
    <3> QED BY <3>1, <3>2, <3>3 DEF Unit
  <2>11. s = t
    BY <2>8, <2>9, <2>10, SameUnits
  <2> QED BY <2>6, <2>7, <2>8, <2>9, <2>11
<1> QED BY <1>1, <1>2

-----------------------------------------------------------------------------
(* What holds of every entry and every file.                               *)
OpenFiles ==
    [open : {TRUE}, append : BOOLEAN, inl : BOOLEAN, head : Blocks \cup {Inline}, size : Nat,
     cache : Seq(Int), pos : Nat, block : Blocks \cup {None, Inline}, off : Nat,
     dirty : BOOLEAN, writing : BOOLEAN, reading : BOOLEAN, erred : BOOLEAN]

(* What a handle may stand for.                                            *)
FileSet == OpenFiles \cup {Closed}

(* What a directory may say of a file.                                     *)
Entries == [inl : BOOLEAN, head : Blocks \cup {Inline}, size : Nat, bytes : Seq(Int)]

(* The file has a block of its own that is being written.                  *)
Writes(f) == f.open /\ f.writing /\ ~f.inl

(* The bytes of an entry are there: within the entry, or as a list on the  *)
(* flash.                                                                  *)
EntryKeeps(fl, e) ==
    /\ e.inl => e.head = Inline /\ e.size = Len(e.bytes) /\ e.size <= InlineMax
    /\ ~e.inl => HasList(fl, e.head, e.size)

(* So are those an open file was opened with or flushed.                   *)
HeadKeeps(fl, f) == f.open /\ f.head # Inline => HasList(fl, f.head, f.size)

(* A block that is written holds what was written so far, at the offset    *)
(* the file has for it, and leads to the blocks before it.                 *)
TailKeeps(fl, f) ==
    Writes(f) =>
        /\ f.block \in Blocks
        /\ f.pos = 0 => f.off = 0 /\ fl[f.block] = [heads |-> <<>>, data |-> <<>>]
        /\ f.pos > 0 => /\ HasList(fl, f.block, f.pos)
                        /\ f.off = ((f.pos - 1) % BlockSize) + 1
                        /\ Len(fl[f.block].data) = f.off

(* The fields of an open file agree: the bytes of an inline file are in    *)
(* its cache, and a file opened to append writes behind its end only.      *)
RecordKeeps(f) ==
    f.open =>
        /\ f.inl => /\ f.head = Inline /\ f.size <= InlineMax
                    /\ Len(f.cache) = IF f.writing THEN Longer(f.pos, f.size) ELSE f.size
                    /\ f.writing => f.pos <= InlineMax /\ f.block = Inline
        /\ f.append /\ f.writing => f.pos >= f.size
        /\ f.head = Inline => f.size <= InlineMax

(* A file that is clean is what its entry says.                            *)
Clean(e, f) ==
    f.open /\ ~f.dirty =>
        /\ e.head = f.head /\ e.size = f.size /\ e.inl = (f.head = Inline)
        /\ f.inl /\ ~f.writing => f.cache = e.bytes

(* All of this, of one entry and the file opened of it.                    *)
Keeps(fl, e, f) ==
    /\ e \in Entries /\ f \in FileSet
    /\ EntryKeeps(fl, e) /\ HeadKeeps(fl, f) /\ TailKeeps(fl, f) /\ RecordKeeps(f) /\ Clean(e, f)

(* The blocks of an entry, of an open file's list and of the list it is    *)
(* writing.                                                                *)
EntryOf(fl, e) == IF e.inl THEN {} ELSE Traverse(fl, e.head, e.size)
HeadOf(fl, f)  == IF f.open /\ f.head # Inline THEN Traverse(fl, f.head, f.size) ELSE {}
TailOf(fl, f)  == IF Writes(f) THEN {f.block} \cup Traverse(fl, f.block, f.pos) ELSE {}

(* The blocks that any entry or any open file holds.                       *)
Held(fl, es, fs) ==
    UNION {EntryOf(fl, es[h]) \cup HeadOf(fl, fs[h]) \cup TailOf(fl, fs[h]) : h \in Handles}

(* The block that is written is in no other list.                          *)
Alone(fl, es, fs) ==
    \A h \in Handles, k \in Handles : Writes(fs[h]) =>
        /\ fs[h].block \notin EntryOf(fl, es[k]) \cup HeadOf(fl, fs[k])
        /\ h # k => fs[h].block \notin TailOf(fl, fs[k])

(* The flash, the entries, the open files and the window fit each other:   *)
(* every list is there, a block that is written is in one list only, and   *)
(* the window offers no block that is held. It is stated of values, as an  *)
(* action is followed through the states within it.                        *)
World(fl, es, fs, fr) ==
    /\ FlashType(fl)
    /\ es \in [Handles -> Entries] /\ fs \in [Handles -> FileSet]
    /\ \A h \in Handles : Keeps(fl, es[h], fs[h])
    /\ Alone(fl, es, fs)
    /\ WindowType(fr) /\ Eager(fr)
    /\ Vacants(fr) \cap Held(fl, es, fs) = {}

(* A block is held if one of the handles' pieces has it.                   *)
LEMMA HeldIs ==
    ASSUME NEW fl, NEW es, NEW fs, NEW b
    PROVE  b \in Held(fl, es, fs) <=>
               \E h \in Handles : b \in EntryOf(fl, es[h]) \cup HeadOf(fl, fs[h]) \cup TailOf(fl, fs[h])
BY DEF Held

(* What a file holds lies within the device.                               *)
LEMMA PiecesAreBlocks ==
    ASSUME NEW fl, FlashType(fl), NEW e, NEW f, Keeps(fl, e, f)
    PROVE  EntryOf(fl, e) \cup HeadOf(fl, f) \cup TailOf(fl, f) \subseteq Blocks
<1>1. e \in Entries /\ (f.open => f \in OpenFiles)
  BY DEF Keeps, FileSet, Closed
<1>2. EntryOf(fl, e) \subseteq Blocks
  <2>1. CASE e.inl
    BY <2>1 DEF EntryOf
  <2>2. CASE ~e.inl
    <3>1. e.size \in Nat /\ HasList(fl, e.head, e.size)
      BY <1>1, <2>2 DEF Keeps, EntryKeeps, Entries
    <3> QED BY <2>2, <3>1, HasListIs DEF EntryOf
  <2> QED BY <2>1, <2>2
<1>3. HeadOf(fl, f) \subseteq Blocks
  <2>1. CASE ~(f.open /\ f.head # Inline)
    BY <2>1 DEF HeadOf
  <2>2. CASE f.open /\ f.head # Inline
    <3>1. f.size \in Nat /\ HasList(fl, f.head, f.size)
      BY <1>1, <2>2 DEF Keeps, HeadKeeps, OpenFiles
    <3> QED BY <2>2, <3>1, HasListIs DEF HeadOf
  <2> QED BY <2>1, <2>2
<1>4. TailOf(fl, f) \subseteq Blocks
  <2>1. CASE ~Writes(f)
    BY <2>1 DEF TailOf
  <2>2. CASE Writes(f)
    <3>1. f.pos \in Nat /\ f.block \in Blocks /\ (f.pos > 0 => HasList(fl, f.block, f.pos))
      BY <1>1, <2>2 DEF Keeps, TailKeeps, OpenFiles, Writes
    <3>2. Traverse(fl, f.block, f.pos) \subseteq Blocks
      <4>1. CASE f.pos = 0
        BY <4>1, NoList
      <4>2. CASE f.pos # 0
        BY <3>1, <4>2, HasListIs
      <4> QED BY <4>1, <4>2
    <3> QED BY <2>2, <3>1, <3>2 DEF TailOf
  <2> QED BY <2>1, <2>2
<1> QED BY <1>2, <1>3, <1>4

(* When nothing that a file holds is written, it keeps what it has.        *)
LEMMA PiecesStay ==
    ASSUME NEW fl, FlashType(fl), NEW fl2, FlashType(fl2), NEW e, NEW f, Keeps(fl, e, f),
           \A b \in EntryOf(fl, e) \cup HeadOf(fl, f) \cup TailOf(fl, f) : fl2[b] = fl[b]
    PROVE  /\ Keeps(fl2, e, f)
           /\ EntryOf(fl2, e) = EntryOf(fl, e)
           /\ HeadOf(fl2, f) = HeadOf(fl, f)
           /\ TailOf(fl2, f) = TailOf(fl, f)
<1>1. e \in Entries /\ (f.open => f \in OpenFiles)
  BY DEF Keeps, FileSet, Closed
<1>2. EntryOf(fl2, e) = EntryOf(fl, e) /\ EntryKeeps(fl2, e)
  <2>1. CASE e.inl
    BY <2>1 DEF EntryOf, EntryKeeps, Keeps
  <2>2. CASE ~e.inl
    <3>1. e.size \in Nat /\ HasList(fl, e.head, e.size)
      BY <1>1, <2>2 DEF Keeps, EntryKeeps, Entries
    <3>2. \A b \in Traverse(fl, e.head, e.size) : fl2[b] = fl[b]
      BY <2>2 DEF EntryOf
    <3>3. HasList(fl2, e.head, e.size) /\ Traverse(fl2, e.head, e.size) = Traverse(fl, e.head, e.size)
      BY <3>1, <3>2, ListStays
    <3> QED BY <2>2, <3>3 DEF EntryOf, EntryKeeps
  <2> QED BY <2>1, <2>2
<1>3. HeadOf(fl2, f) = HeadOf(fl, f) /\ HeadKeeps(fl2, f)
  <2>1. CASE ~(f.open /\ f.head # Inline)
    BY <2>1 DEF HeadOf, HeadKeeps
  <2>2. CASE f.open /\ f.head # Inline
    <3>1. f.size \in Nat /\ HasList(fl, f.head, f.size)
      BY <1>1, <2>2 DEF Keeps, HeadKeeps, OpenFiles
    <3>2. \A b \in Traverse(fl, f.head, f.size) : fl2[b] = fl[b]
      BY <2>2 DEF HeadOf
    <3>3. HasList(fl2, f.head, f.size) /\ Traverse(fl2, f.head, f.size) = Traverse(fl, f.head, f.size)
      BY <3>1, <3>2, ListStays
    <3> QED BY <2>2, <3>3 DEF HeadOf, HeadKeeps
  <2> QED BY <2>1, <2>2
<1>4. TailOf(fl2, f) = TailOf(fl, f) /\ TailKeeps(fl2, f)
  <2>1. CASE ~Writes(f)
    BY <2>1 DEF TailOf, TailKeeps
  <2>2. CASE Writes(f)
    <3>1. /\ f.pos \in Nat /\ f.block \in Blocks
          /\ f.pos = 0 => f.off = 0 /\ fl[f.block] = [heads |-> <<>>, data |-> <<>>]
          /\ f.pos > 0 => /\ HasList(fl, f.block, f.pos)
                          /\ f.off = ((f.pos - 1) % BlockSize) + 1
                          /\ Len(fl[f.block].data) = f.off
      BY <1>1, <2>2 DEF Keeps, TailKeeps, OpenFiles, Writes
    <3>2. fl2[f.block] = fl[f.block] /\ \A b \in Traverse(fl, f.block, f.pos) : fl2[b] = fl[b]
      BY <2>2 DEF TailOf
    <3>3. CASE f.pos = 0
      <4>1. Traverse(fl2, f.block, f.pos) = Traverse(fl, f.block, f.pos)
        BY <3>3, NoList
      <4> QED BY <2>2, <3>1, <3>2, <3>3, <4>1 DEF TailOf, TailKeeps
    <3>4. CASE f.pos # 0
      <4>1. /\ HasList(fl2, f.block, f.pos)
            /\ Traverse(fl2, f.block, f.pos) = Traverse(fl, f.block, f.pos)
        BY <3>1, <3>2, <3>4, ListStays
      <4> QED BY <2>2, <3>1, <3>2, <3>4, <4>1 DEF TailOf, TailKeeps
    <3> QED BY <3>3, <3>4
  <2> QED BY <2>1, <2>2
<1> QED BY <1>2, <1>3, <1>4 DEF Keeps

-----------------------------------------------------------------------------
(* What one file holds, in a world.                                        *)
Pieces(fl, e, f) == EntryOf(fl, e) \cup HeadOf(fl, f) \cup TailOf(fl, f)

(* What one of the files holds is held.                                    *)
LEMMA PieceIsHeld ==
    ASSUME NEW fl, NEW es, NEW fs, NEW h \in Handles, NEW b \in Pieces(fl, es[h], fs[h])
    PROVE  b \in Held(fl, es, fs)
BY HeldIs DEF Pieces

(* A file that gives up some of what it holds.                             *)
LEMMA WorldLess ==
    ASSUME NEW fl, NEW es, NEW fs, NEW fr, World(fl, es, fs, fr), NEW h \in Handles,
           NEW e2, NEW f2, Keeps(fl, e2, f2), Pieces(fl, e2, f2) \subseteq Pieces(fl, es[h], fs[h]),
           Writes(f2) => /\ Writes(fs[h]) /\ f2.block = fs[h].block
                         /\ f2.block \notin EntryOf(fl, e2) \cup HeadOf(fl, f2),
           NEW fr2, WindowType(fr2), Eager(fr2), Vacants(fr2) \subseteq Vacants(fr)
    PROVE  World(fl, [es EXCEPT ![h] = e2], [fs EXCEPT ![h] = f2], fr2)
<1>1. PICK es2 \in [Handles -> Entries] : es2 = [es EXCEPT ![h] = e2]
  BY DEF World, Keeps
<1>2. PICK fs2 \in [Handles -> FileSet] : fs2 = [fs EXCEPT ![h] = f2]
  BY DEF World, Keeps
<1>3. es2[h] = e2 /\ fs2[h] = f2
  BY <1>1, <1>2 DEF World
<1>4. ASSUME NEW k \in Handles, k # h PROVE es2[k] = es[k] /\ fs2[k] = fs[k]
  BY <1>1, <1>2, <1>4 DEF World
<1>5. ASSUME NEW k \in Handles PROVE Keeps(fl, es2[k], fs2[k])
  <2>1. CASE k = h
    BY <1>3, <2>1
  <2>2. CASE k # h
    BY <1>4, <2>2 DEF World
  <2> QED BY <2>1, <2>2
<1>6. ASSUME NEW k \in Handles PROVE Pieces(fl, es2[k], fs2[k]) \subseteq Pieces(fl, es[k], fs[k])
  <2>1. CASE k = h
    BY <1>3, <2>1
  <2>2. CASE k # h
    BY <1>4, <2>2
  <2> QED BY <2>1, <2>2
<1>7. Alone(fl, es2, fs2)
  <2> SUFFICES ASSUME NEW j \in Handles, NEW k \in Handles, Writes(fs2[j])
               PROVE  /\ fs2[j].block \notin EntryOf(fl, es2[k]) \cup HeadOf(fl, fs2[k])
                      /\ j # k => fs2[j].block \notin TailOf(fl, fs2[k])
    BY DEF Alone
  <2>1. Writes(fs[j]) /\ fs2[j].block = fs[j].block
    BY <1>3, <1>4
  <2>2. /\ fs[j].block \notin EntryOf(fl, es[k]) \cup HeadOf(fl, fs[k])
        /\ j # k => fs[j].block \notin TailOf(fl, fs[k])
    BY <2>1 DEF World, Alone
  <2>3. CASE j = k
    <3>1. CASE j = h
      BY <1>3, <2>3, <3>1
    <3>2. CASE j # h
      BY <1>4, <2>3, <2>2, <3>2
    <3> QED BY <3>1, <3>2
  <2>4. CASE j # k
    BY <1>6, <2>1, <2>2, <2>4 DEF Pieces
  <2> QED BY <2>3, <2>4
<1>8. Vacants(fr2) \cap Held(fl, es2, fs2) = {}
  <2> SUFFICES ASSUME NEW b \in Held(fl, es2, fs2) PROVE b \notin Vacants(fr)
    OBVIOUS
  <2>1. PICK k \in Handles : b \in Pieces(fl, es2[k], fs2[k])
    BY HeldIs DEF Pieces
  <2>2. b \in Held(fl, es, fs)
    BY <1>6, <2>1, PieceIsHeld
  <2> QED BY <2>2 DEF World
<1>9. World(fl, es2, fs2, fr2)
  BY <1>5, <1>7, <1>8 DEF World
<1> QED BY <1>1, <1>2, <1>9

(* A file that does not write yet, and then does, in a block of its own.   *)
LEMMA WorldMore ==
    ASSUME NEW fl, NEW es, NEW fs, NEW fr, World(fl, es, fs, fr), NEW h \in Handles,
           ~Writes(fs[h]), NEW fl2, FlashType(fl2), \A b \in Held(fl, es, fs) : fl2[b] = fl[b],
           NEW f2, Keeps(fl2, es[h], f2), Writes(f2),
           HeadOf(fl2, f2) \subseteq HeadOf(fl, fs[h]),
           f2.block \notin Held(fl, es, fs),
           \A k \in Handles : k # h /\ Writes(fs[k]) => fs[k].block \notin TailOf(fl2, f2),
           NEW fr2, WindowType(fr2), Eager(fr2),
           Vacants(fr2) \cap (Held(fl, es, fs) \cup TailOf(fl2, f2)) = {}
    PROVE  World(fl2, es, [fs EXCEPT ![h] = f2], fr2)
<1>2. PICK fs2 \in [Handles -> FileSet] : fs2 = [fs EXCEPT ![h] = f2]
  BY DEF World, Keeps
<1>3. fs2[h] = f2 /\ FlashType(fl) /\ es \in [Handles -> Entries]
  BY <1>2 DEF World
<1>4. ASSUME NEW k \in Handles, k # h PROVE fs2[k] = fs[k]
  BY <1>2, <1>4 DEF World
<1>5. ASSUME NEW k \in Handles
      PROVE  /\ Keeps(fl2, es[k], fs[k])
             /\ EntryOf(fl2, es[k]) = EntryOf(fl, es[k])
             /\ HeadOf(fl2, fs[k]) = HeadOf(fl, fs[k])
             /\ TailOf(fl2, fs[k]) = TailOf(fl, fs[k])
  <2>1. Keeps(fl, es[k], fs[k])
    BY DEF World
  <2>2. \A b \in EntryOf(fl, es[k]) \cup HeadOf(fl, fs[k]) \cup TailOf(fl, fs[k]) : fl2[b] = fl[b]
    BY HeldIs
  <2> QED BY <1>3, <2>1, <2>2, PiecesStay
<1>6. ASSUME NEW k \in Handles PROVE Keeps(fl2, es[k], fs2[k])
  BY <1>3, <1>4, <1>5
<1>7. Alone(fl2, es, fs2)
  <2> SUFFICES ASSUME NEW j \in Handles, NEW k \in Handles, Writes(fs2[j])
               PROVE  /\ fs2[j].block \notin EntryOf(fl2, es[k]) \cup HeadOf(fl2, fs2[k])
                      /\ j # k => fs2[j].block \notin TailOf(fl2, fs2[k])
    BY DEF Alone
  <2>0. HeadOf(fl2, fs2[k]) \subseteq HeadOf(fl, fs[k]) /\ EntryOf(fl2, es[k]) = EntryOf(fl, es[k])
    BY <1>3, <1>4, <1>5
  <2>1. CASE j = h
    <3>1. fs2[j].block \notin EntryOf(fl, es[k]) \cup HeadOf(fl, fs[k]) \cup TailOf(fl, fs[k])
      BY <1>3, <2>1, HeldIs
    <3>2. j # k => TailOf(fl2, fs2[k]) = TailOf(fl, fs[k])
      BY <1>4, <1>5, <2>1
    <3> QED BY <2>0, <3>1, <3>2
  <2>2. CASE j # h
    <3>1. Writes(fs[j]) /\ fs2[j].block = fs[j].block
      BY <1>4, <2>2
    <3>2. /\ fs[j].block \notin EntryOf(fl, es[k]) \cup HeadOf(fl, fs[k])
          /\ j # k => fs[j].block \notin TailOf(fl, fs[k])
      BY <3>1 DEF World, Alone
    <3>3. j # k => fs2[j].block \notin TailOf(fl2, fs2[k])
      <4>1. CASE k = h
        BY <1>3, <2>2, <3>1, <4>1
      <4>2. CASE k # h
        BY <1>4, <1>5, <3>1, <3>2, <4>2
      <4> QED BY <4>1, <4>2
    <3> QED BY <2>0, <3>1, <3>2, <3>3
  <2> QED BY <2>1, <2>2
<1>8. Vacants(fr2) \cap Held(fl2, es, fs2) = {}
  <2> SUFFICES ASSUME NEW b \in Held(fl2, es, fs2) PROVE b \notin Vacants(fr2)
    OBVIOUS
  <2>1. PICK k \in Handles : b \in EntryOf(fl2, es[k]) \cup HeadOf(fl2, fs2[k]) \cup TailOf(fl2, fs2[k])
    BY HeldIs
  <2>2. b \in Held(fl, es, fs) \cup TailOf(fl2, f2)
    <3>1. CASE k = h
      BY <1>3, <1>5, <2>1, <3>1, HeldIs
    <3>2. CASE k # h
      BY <1>4, <1>5, <2>1, <3>2, HeldIs
    <3> QED BY <3>1, <3>2
  <2> QED BY <2>2
<1>9. World(fl2, es, fs2, fr2)
  BY <1>3, <1>6, <1>7, <1>8 DEF World
<1> QED BY <1>2, <1>9

-----------------------------------------------------------------------------
(* A file that has no block is traversed from LFS_BLOCK_INLINE.            *)
LEMMA InlineTraversal ==
    ASSUME NEW fl, NEW size \in Nat, size <= InlineMax
    PROVE  Traverse(fl, Inline, size) \subseteq {Inline}
<1>1. CASE size = 0
  BY <1>1, NoList
<1>2. CASE size # 0
  <2> DEFINE Two(at) ==
               LET heads == fl[at.block].heads
                   count == 2 - (at.index % 2)
               IN  IF at.index <= 0 \/ Len(heads) < count THEN [at EXCEPT !.index = 0]
                   ELSE [block |-> heads[count], index |-> at.index - count,
                         seen |-> at.seen \cup {heads[i] : i \in 1..count}]
             x == [block |-> Inline, index |-> 0, seen |-> {Inline}]
             Fn(f) == f = [i \in 0..0 |-> IF i = 0 THEN x
                               ELSE CHOOSE r \in {Two(y) : y \in {f[i - 1]}} : TRUE]
  <2>1. Index(size - 1) = 0
    <3>1. size - 1 \in 0..BlockSize - 1 /\ BlockSize \in Nat \ {0}
      BY <1>2, InlineAssumption, BlockSizeAssumption
    <3> QED BY <3>1 DEF Index
  <2>2. Traverse(fl, Inline, size) = (CHOOSE f : Fn(f))[0].seen
    BY <1>2, <2>1, Zenon DEF Traverse, Iterate
  <2>3. \E g : Fn(g)
    <3>1. PICK g : g = [i \in 0..0 |-> x]
      OBVIOUS
    <3>2. PICK h : h = [i \in 0..0 |-> IF i = 0 THEN x
                            ELSE CHOOSE r \in {Two(y) : y \in {g[i - 1]}} : TRUE]
      OBVIOUS
    <3> HIDE DEF x, Two
    <3>3. g = h
      BY <3>1, <3>2
    <3> QED BY <3>2, <3>3
  <2>4. PICK f : Fn(f) /\ Traverse(fl, Inline, size) = f[0].seen
    <3> HIDE DEF Fn
    <3> QED BY <2>2, <2>3, Zenon
  <2>5. f[0] = x
    <3> HIDE DEF x, Two
    <3> QED BY <2>4
  <2> QED BY <2>4, <2>5
<1> QED BY <1>1, <1>2

(* What the allocator is told is in use is what is held, but for a block   *)
(* that nothing has been written to, and for LFS_BLOCK_INLINE.             *)
LEMMA UsedIs ==
    ASSUME NEW fl, NEW fs, NEW fr, World(fl, entry, fs, fr),
           \A h \in Handles : EntryOf(flash, entry[h]) = EntryOf(fl, entry[h])
    PROVE  /\ Used(fl, fs) \subseteq Held(fl, entry, fs) \cup {Inline}
           /\ Used(fl, fs) \in SUBSET (Blocks \cup {Inline})
           /\ \A b \in Held(fl, entry, fs) :
                b \in Used(fl, fs)
                \/ \E k \in Handles : Writes(fs[k]) /\ fs[k].pos = 0 /\ b = fs[k].block
<1>1. ASSUME NEW b
      PROVE  b \in InEntries <=> \E h \in Handles : b \in EntryOf(fl, entry[h])
  <2>1. b \in InEntries <=> \E h \in Handles : ~entry[h].inl /\ b \in Traverse(flash, entry[h].head, entry[h].size)
    BY DEF InEntries
  <2>2. \A h \in Handles : b \in EntryOf(flash, entry[h])
            <=> ~entry[h].inl /\ b \in Traverse(flash, entry[h].head, entry[h].size)
    BY DEF EntryOf
  <2> QED BY <2>1, <2>2
<1>2. ASSUME NEW h \in Handles
      PROVE  /\ InFile(fl, fs[h]) \subseteq HeadOf(fl, fs[h]) \cup TailOf(fl, fs[h]) \cup {Inline}
             /\ \A b \in HeadOf(fl, fs[h]) : b \in InFile(fl, fs[h]) \/ b \in EntryOf(fl, entry[h])
             /\ \A b \in TailOf(fl, fs[h]) : b \in InFile(fl, fs[h])
                                              \/ (fs[h].pos = 0 /\ b = fs[h].block)
  <2>1. PICK f, e : f = fs[h] /\ e = entry[h] /\ Keeps(fl, e, f)
    BY DEF World
  <2>2. (f.open => f \in OpenFiles) /\ e \in Entries /\ HeadKeeps(fl, f) /\ TailKeeps(fl, f)
        /\ RecordKeeps(f) /\ Clean(e, f)
    BY <2>1 DEF Keeps, FileSet, Closed
  <2>3. Inline \notin Blocks
    BY DEF Inline, Blocks
  <2>4. f.open => (f.head # Inline <=> f.head \in Blocks) /\ (f.inl => f.head = Inline)
    BY <2>2, <2>3 DEF OpenFiles, RecordKeeps
  <2>5. InFile(fl, f) \subseteq HeadOf(fl, f) \cup TailOf(fl, f) \cup {Inline}
    <3>1. f.open /\ f.head = Inline => Traverse(fl, f.head, f.size) \subseteq {Inline}
      BY <2>2, InlineTraversal DEF OpenFiles, RecordKeeps
    <3> QED BY <2>4, <3>1 DEF InFile, HeadOf, TailOf, Writes
  <2>6. ASSUME NEW b \in HeadOf(fl, f) PROVE b \in InFile(fl, f) \/ b \in EntryOf(fl, e)
    <3>1. f.open /\ f.head # Inline /\ b \in Traverse(fl, f.head, f.size) /\ ~f.inl
      BY <2>4 DEF HeadOf
    <3>2. CASE f.dirty
      BY <2>4, <3>1, <3>2 DEF InFile
    <3>3. CASE ~f.dirty
      BY <2>2, <3>1, <3>3 DEF Clean, EntryOf
    <3> QED BY <3>2, <3>3
  <2>7. ASSUME NEW b \in TailOf(fl, f) PROVE b \in InFile(fl, f) \/ (f.pos = 0 /\ b = f.block)
    <3>1. Writes(f) /\ b \in {f.block} \cup Traverse(fl, f.block, f.pos)
      BY DEF TailOf
    <3>2. CASE f.pos = 0
      <4>1. Traverse(fl, f.block, f.pos) = {}
        BY <3>2, NoList
      <4> QED BY <3>1, <3>2, <4>1
    <3>3. CASE f.pos # 0
      <4>1. f.pos \in Nat /\ f.pos > 0 /\ FlashType(fl)
        BY <2>2, <3>1, <3>3 DEF Writes, OpenFiles, World
      <4>2. HasList(fl, f.block, f.pos)
        BY <2>2, <3>1, <4>1 DEF TailKeeps
      <4>3. f.block \in Traverse(fl, f.block, f.pos)
        BY <4>1, <4>2, HasListIs
      <4> QED BY <3>1, <4>3 DEF InFile, Writes
    <3> QED BY <3>2, <3>3
  <2> QED BY <2>1, <2>5, <2>6, <2>7
<1>3. ASSUME NEW b
      PROVE  b \in Used(fl, fs) <=> b \in InEntries \/ \E h \in Handles : b \in InFile(fl, fs[h])
  BY DEF Used
<1>4. Used(fl, fs) \subseteq Held(fl, entry, fs) \cup {Inline}
  <2> SUFFICES ASSUME NEW b \in Used(fl, fs) PROVE b \in Held(fl, entry, fs) \cup {Inline}
    OBVIOUS
  <2> QED BY <1>1, <1>2, <1>3, HeldIs
<1>5. Held(fl, entry, fs) \subseteq Blocks
  <2> SUFFICES ASSUME NEW b \in Held(fl, entry, fs) PROVE b \in Blocks
    OBVIOUS
  <2>1. PICK h \in Handles : b \in EntryOf(fl, entry[h]) \cup HeadOf(fl, fs[h]) \cup TailOf(fl, fs[h])
    BY HeldIs
  <2>2. Keeps(fl, entry[h], fs[h]) /\ FlashType(fl)
    BY DEF World
  <2> QED BY <2>1, <2>2, PiecesAreBlocks
<1>6. ASSUME NEW b \in Held(fl, entry, fs)
      PROVE  b \in Used(fl, fs)
             \/ \E k \in Handles : Writes(fs[k]) /\ fs[k].pos = 0 /\ b = fs[k].block
  <2>1. PICK h \in Handles : b \in EntryOf(fl, entry[h]) \cup HeadOf(fl, fs[h]) \cup TailOf(fl, fs[h])
    BY HeldIs
  <2>2. b \in TailOf(fl, fs[h]) => Writes(fs[h])
    BY DEF TailOf
  <2> QED BY <1>1, <1>2, <1>3, <2>1, <2>2
<1> QED BY <1>4, <1>5, <1>6

(* What a list has before a position is a list.                            *)
LEMMA FrontIs ==
    ASSUME NEW fl, FlashType(fl), NEW size \in Nat, NEW head, NEW c, ListOf(fl, c, head, size),
           NEW pos \in 1..size
    PROVE  /\ HasList(fl, c[Index(pos - 1)], pos)
           /\ Find(fl, head, size, pos - 1) = c[Index(pos - 1)]
           /\ Traverse(fl, c[Index(pos - 1)], pos) \subseteq Traverse(fl, head, size)
           /\ \A p \in 0..pos - 1 : Bytes(fl, c[Index(pos - 1)], pos)[p + 1] = Bytes(fl, head, size)[p + 1]
<1>0. size \in Nat \ {0} /\ pos \in Nat \ {0} /\ size - 1 \in Nat /\ pos - 1 \in Nat /\ pos - 1 <= size - 1
  OBVIOUS
<1>1. PICK n \in Nat, m \in Nat : n = Index(size - 1) /\ m = Index(pos - 1)
  BY <1>0, IndexIs
<1>2. m <= n
  BY <1>0, <1>1, IndexGrows
<1>3. IsList(fl, c, n) /\ IsFull(fl, c, size) /\ c[n] = head /\ c \in [0..n -> Blocks]
  BY <1>1 DEF ListOf, IsList
<1>4. PICK d : d = [i \in 0..m |-> c[i]]
  OBVIOUS
<1>5. \A i \in 0..m : i \in 0..n /\ d[i] = c[i]
  BY <1>2, <1>4
<1>6. IsList(fl, d, m)
  <2>1. d \in [0..m -> Blocks]
    BY <1>3, <1>4, <1>5
  <2>2. ASSUME NEW i \in 0..m
        PROVE  fl[d[i]].heads = IF i = 0 THEN <<>> ELSE [k \in 1..Ctz(i) + 1 |-> d[i - Pow2[k - 1]]]
    <3>1. fl[c[i]].heads = IF i = 0 THEN <<>> ELSE [k \in 1..Ctz(i) + 1 |-> c[i - Pow2[k - 1]]]
      BY <1>3, <1>5 DEF IsList
    <3>2. CASE i = 0
      BY <1>5, <3>1, <3>2
    <3>3. CASE i # 0
      <4>1. i \in 1..n /\ i \in Nat \ {0}
        BY <1>5, <3>3
      <4>2. Ctz(i) \in Nat /\ \A k \in 0..Ctz(i) : Pow2[k] \in 1..i
        BY <1>3, <4>1, PointerIs
      <4>3. ASSUME NEW k \in 1..Ctz(i) + 1 PROVE c[i - Pow2[k - 1]] = d[i - Pow2[k - 1]]
        <5>1. k - 1 \in 0..Ctz(i)
          BY <4>2
        <5>2. i - Pow2[k - 1] \in 0..m
          BY <4>2, <5>1
        <5> QED BY <1>5, <5>2
      <4> QED BY <1>5, <3>1, <3>3, <4>3
    <3> QED BY <3>2, <3>3
  <2> QED BY <2>1, <2>2 DEF IsList
<1>7. IsFull(fl, d, pos)
  <2>1. ASSUME NEW i \in 0..m - 1 PROVE Len(fl[d[i]].data) = BlockSize
    <3>1. i \in 0..m /\ i \in 0..n - 1
      BY <1>2
    <3> QED BY <1>1, <1>3, <1>5, <3>1 DEF IsFull
  <2>2. Len(fl[d[m]].data) >= pos - BlockSize * m
    <3>0. PICK q : q = BlockSize * m
      OBVIOUS
    <3>1. pos - 1 = BlockSize * m + ((pos - 1) % BlockSize) /\ (pos - 1) % BlockSize \in 0..BlockSize - 1
      BY <1>0, <1>1, IndexIs
    <3>2. d[m] = c[m] /\ q \in Int
      BY <1>5, <3>0, BlockSizeAssumption
    <3>3. CASE m < n
      <4>1. m \in 0..n - 1
        BY <3>3
      <4>2. Len(fl[c[m]].data) = BlockSize
        BY <1>1, <1>3, <4>1 DEF IsFull
      <4>3. PICK r \in 0..BlockSize - 1 : pos - 1 = q + r
        BY <3>0, <3>1
      <4> QED BY <3>0, <3>2, <4>2, <4>3, BlockSizeAssumption
    <3>4. CASE m = n
      <4>1. Len(fl[c[m]].data) >= size - BlockSize * m
        BY <1>1, <1>3, <3>4 DEF IsFull
      <4>2. Len(fl[c[m]].data) \in Nat
        BY <1>2, <1>3 DEF FlashType
      <4> QED BY <3>0, <3>2, <4>1, <4>2
    <3> QED BY <1>2, <3>3, <3>4
  <2> QED BY <1>1, <2>1, <2>2 DEF IsFull
<1>8. d[m] = c[m] /\ m \in 0..m /\ c[m] \in Blocks
  BY <1>2, <1>3, <1>5
<1>9. ListOf(fl, d, c[m], pos)
  BY <1>1, <1>6, <1>7, <1>8 DEF ListOf
<1>10. HasList(fl, c[m], pos)
  BY <1>8, <1>9 DEF HasList
<1>11. Find(fl, head, size, pos - 1) = c[m]
  BY <1>0, <1>1, <1>2, <1>3, FindIs
<1>12. Traverse(fl, c[m], pos) \subseteq Traverse(fl, head, size)
  <2>1. Traverse(fl, c[m], pos) = {d[i] : i \in 0..Index(pos - 1)}
    <3>1. PICK x : x = c[m] /\ ListOf(fl, d, x, pos)
      BY <1>9
    <3>2. pos \in Nat \ {0}
      BY <1>0
    <3>3. Traverse(fl, x, pos) = {d[i] : i \in 0..Index(pos - 1)}
      BY <3>1, <3>2, TraversalIs
    <3> QED BY <3>1, <3>3
  <2>2. Traverse(fl, head, size) = {c[i] : i \in 0..Index(size - 1)}
    BY <1>0, ListIs, SMTT(30)
  <2> QED BY <1>1, <1>5, <2>1, <2>2
<1>13. ASSUME NEW p \in 0..pos - 1
       PROVE  Bytes(fl, c[m], pos)[p + 1] = Bytes(fl, head, size)[p + 1]
  <2>1. p \in 0..size - 1
    BY <1>0
  <2>2. Bytes(fl, c[m], pos)[p + 1] = Unit(fl, d, p) /\ Index(p) \in 0..m
    BY <1>0, <1>1, <1>9, ListIs, SMTT(30)
  <2>3. Bytes(fl, head, size)[p + 1] = Unit(fl, c, p)
    <3>1. size \in Nat \ {0}
      BY <1>0
    <3>2. \A q \in 0..size - 1 : Bytes(fl, head, size)[q + 1] = Unit(fl, c, q)
      BY <3>1, ListIs, SMTT(30)
    <3> QED BY <2>1, <3>2
  <2> QED BY <1>5, <2>2, <2>3 DEF Unit
<1> QED BY <1>1, <1>10, <1>11, <1>12, <1>13

-----------------------------------------------------------------------------
(* There is room for the unit at the position, behind s.                   *)
HasRoom(fl, f, c, s) ==
    /\ f \in OpenFiles /\ Writes(f) /\ f.block \in Blocks
    /\ IsList(fl, c, Index(f.pos)) /\ c[Index(f.pos)] = f.block
    /\ \A i \in 0..Index(f.pos) - 1 : c[i] # f.block /\ Len(fl[c[i]].data) = BlockSize
    /\ f.off = f.pos % BlockSize /\ Len(fl[f.block].data) = f.off
    /\ s \in Seq(Int) /\ Len(s) = f.pos
    /\ \A p \in 0..f.pos - 1 : Unit(fl, c, p) = s[p + 1]

(* Its blocks.                                                             *)
OfList(c, n) == {c[i] : i \in 0..n}

(* All of a sequence.                                                      *)
LEMMA SubSeqAll ==
    ASSUME NEW S, NEW s \in Seq(S)
    PROVE  SubSeq(s, 1, Len(s)) = s
OBVIOUS

(* A sequence with one element more.                                       *)
LEMMA AppendIs ==
    ASSUME NEW S, NEW s \in Seq(S), NEW v \in S
    PROVE  /\ Append(s, v) \in Seq(S) /\ Len(Append(s, v)) = Len(s) + 1
           /\ Append(s, v)[Len(s) + 1] = v
           /\ \A i \in 1..Len(s) : Append(s, v)[i] = s[i]
OBVIOUS

(* The unit is programmed.                                                 *)
Programmed(fl, f, val) == [fl EXCEPT ![f.block].data = Append(SubSeq(@, 1, f.off), val)]

(* A unit programmed behind the last one makes the list one byte longer    *)
(* and leaves the bytes before it.                                         *)
LEMMA UnitIsAppended ==
    ASSUME NEW fl, FlashType(fl), NEW f, NEW c, NEW s, HasRoom(fl, f, c, s), NEW val \in Int,
           NEW fl2, fl2 = Programmed(fl, f, val)
    PROVE  /\ FlashType(fl2) /\ Len(fl2[f.block].data) = f.off + 1
           /\ \A b \in Blocks : b # f.block => fl2[b] = fl[b]
           /\ ListOf(fl2, c, f.block, f.pos + 1)
           /\ \A p \in 0..f.pos - 1 : Bytes(fl2, f.block, f.pos + 1)[p + 1] = s[p + 1]
           /\ Bytes(fl2, f.block, f.pos + 1)[f.pos + 1] = val
<1>1. PICK pos \in Nat, b \in Blocks, off \in Nat : pos = f.pos /\ b = f.block /\ off = f.off
  BY DEF HasRoom, OpenFiles
<1>2. PICK n \in Nat : n = Index(pos)
  BY <1>1, IndexIs
<1>3. off = pos % BlockSize /\ off \in 0..BlockSize - 1 /\ pos = BlockSize * n + off
  BY <1>1, <1>2, IndexIs DEF HasRoom
<1>4. PICK d \in Seq(Int), w \in Seq(Blocks) : fl[b] = [heads |-> w, data |-> d]
  BY <1>1 DEF FlashType
<1>5. Len(d) = off
  BY <1>1, <1>4 DEF HasRoom
<1>6. SubSeq(d, 1, off) = d
  BY <1>5, SubSeqAll
<1>7. PICK e \in Seq(Int) : e = Append(d, val)
  <2>1. Append(d, val) \in Seq(Int)
    BY AppendIs
  <2> QED BY <2>1
<1>8. Len(e) = off + 1 /\ e[off + 1] = val /\ \A i \in 1..off : e[i] = d[i]
  BY <1>5, <1>7, AppendIs
<1>9. fl2[b] = [heads |-> w, data |-> e]
  <2>1. fl2[b] = [fl[b] EXCEPT !.data = Append(SubSeq(@, 1, off), val)]
    BY <1>1 DEF FlashType, Programmed
  <2>2. fl[b].data = d /\ fl[b].heads = w
    BY <1>4
  <2>3. fl2[b] = [fl[b] EXCEPT !.data = e]
    BY <1>6, <1>7, <2>1, <2>2
  <2> QED BY <1>4, <2>3
<1>09. fl2[b].data = e /\ fl2[b].heads = w /\ fl[b].data = d /\ Len(fl2[b].data) = off + 1
  <2>1. [heads |-> w, data |-> e].data = e /\ [heads |-> w, data |-> e].heads = w
    OBVIOUS
  <2>2. fl2[b].data = e /\ fl2[b].heads = w
    BY <1>9, <2>1
  <2>3. fl[b].data = d
    BY <1>4
  <2> QED BY <1>8, <2>2, <2>3
<1>10. \A x \in Blocks : x # b => fl2[x] = fl[x]
  BY <1>1 DEF FlashType, Programmed
<1>11. FlashType(fl2)
  <2>1. \A x \in Blocks : fl2[x] \in [heads : Seq(Blocks), data : Seq(Int)]
    <3>1. fl2[b] \in [heads : Seq(Blocks), data : Seq(Int)]
      BY <1>9
    <3>2. \A x \in Blocks : x # b => fl2[x] \in [heads : Seq(Blocks), data : Seq(Int)]
      BY <1>10 DEF FlashType
    <3> QED BY <3>1, <3>2
  <2>2. fl2 = [x \in Blocks |-> fl2[x]]
    BY DEF FlashType, Programmed
  <2>3. \A x \in Blocks : Len(fl2[x].data) <= BlockSize
    <3>1. off + 1 <= BlockSize
      BY <1>3, BlockSizeAssumption
    <3> QED BY <1>09, <1>10, <3>1 DEF FlashType
  <2> QED BY <2>1, <2>2, <2>3 DEF FlashType
<1>12. IsList(fl, c, n) /\ c[n] = b /\ c \in [0..n -> Blocks]
       /\ \A i \in 0..n - 1 : c[i] # b /\ Len(fl[c[i]].data) = BlockSize
  BY <1>1, <1>2 DEF HasRoom, IsList
<1>13. \A x \in Blocks : fl2[x].heads = fl[x].heads
  BY <1>4, <1>9, <1>10
<1>14. IsList(fl2, c, n)
  <2>1. \A i \in 0..n : fl2[c[i]].heads = fl[c[i]].heads
    BY <1>12, <1>13
  <2> QED BY <1>12, <2>1 DEF IsList
<1>15. \A i \in 0..n - 1 : fl2[c[i]] = fl[c[i]] /\ c[i] # b
  <2>1. \A i \in 0..n - 1 : c[i] \in Blocks /\ c[i] # b
    BY <1>12
  <2> QED BY <1>10, <2>1
<1>16. IsFull(fl2, c, pos + 1)
  <2>1. \A i \in 0..n - 1 : Len(fl2[c[i]].data) = BlockSize
    BY <1>12, <1>15
  <2>2. Len(fl2[c[n]].data) >= (pos + 1) - BlockSize * n
    <3>1. Len(fl2[c[n]].data) = off + 1
      BY <1>09, <1>12
    <3>2. PICK q \in Nat : q = BlockSize * n
      BY BlockSizeAssumption
    <3>3. pos = q + off
      BY <1>3, <3>2
    <3>4. off + 1 >= (pos + 1) - q
      BY <3>3
    <3> QED BY <3>1, <3>2, <3>4
  <2>3. n = Index((pos + 1) - 1)
    BY <1>2
  <2> QED BY <2>1, <2>2, <2>3 DEF IsFull
<1>17. ListOf(fl2, c, b, pos + 1)
  <2>1. n = Index((pos + 1) - 1)
    BY <1>2
  <2> QED BY <1>12, <1>14, <1>16, <2>1 DEF ListOf
<1>18. \A p \in 0..pos : Bytes(fl2, b, pos + 1)[p + 1] = Unit(fl2, c, p) /\ Index(p) \in 0..n
  <2>1. pos + 1 \in Nat \ {0}
    OBVIOUS
  <2>2. \A p \in 0..(pos + 1) - 1 : /\ Index(p) \in 0..Index((pos + 1) - 1)
                                     /\ Bytes(fl2, b, pos + 1)[p + 1] = Unit(fl2, c, p)
    BY <1>11, <1>17, <2>1, ListIs, SMTT(30)
  <2>3. (pos + 1) - 1 = pos
    OBVIOUS
  <2> QED BY <1>2, <2>2, <2>3
<1>19. Bytes(fl2, b, pos + 1)[pos + 1] = val
  <2>1. Unit(fl2, c, pos) = val
    BY <1>09, <1>2, <1>3, <1>8, <1>12 DEF Unit
  <2>2. pos \in 0..pos
    OBVIOUS
  <2> QED BY <1>18, <2>1, <2>2
<1>20. ASSUME NEW p \in 0..pos - 1
       PROVE  Bytes(fl2, b, pos + 1)[p + 1] = s[p + 1]
  <2>1. p \in 0..pos /\ p \in Nat
    OBVIOUS
  <2>2. Index(p) \in 0..n /\ Bytes(fl2, b, pos + 1)[p + 1] = Unit(fl2, c, p)
    BY <1>18, <2>1
  <2>3. Unit(fl, c, p) = s[p + 1]
    BY <1>1 DEF HasRoom
  <2>4. CASE Index(p) # n
    <3>1. Index(p) \in 0..n - 1
      BY <2>2, <2>4
    <3> QED BY <1>15, <2>2, <2>3, <3>1 DEF Unit
  <2>5. CASE Index(p) = n
    <3>1. PICK r \in 0..BlockSize - 1 : r = p % BlockSize /\ p = BlockSize * n + r
      BY <2>1, <2>5, IndexIs
    <3>2. PICK q \in Nat : q = BlockSize * n
      BY BlockSizeAssumption
    <3>3. r + 1 \in 1..off
      <4>1. p = q + r /\ pos = q + off /\ p < pos
        BY <1>3, <3>1, <3>2, SMTT(30)
      <4>2. r < off
        BY <3>1, <3>2, <4>1
      <4> QED BY <1>3, <3>1, <4>2
    <3>4. Unit(fl2, c, p) = e[r + 1] /\ Unit(fl, c, p) = d[r + 1]
      BY <1>09, <1>12, <2>5, <3>1 DEF Unit
    <3> QED BY <1>8, <2>2, <2>3, <3>3, <3>4
  <2> QED BY <2>4, <2>5
<1> QED BY <1>09, <1>1, <1>10, <1>11, <1>17, <1>19, <1>20

(* What is there before the unit is programmed.                            *)
LEMMA RoomIsList ==
    ASSUME NEW fl, FlashType(fl), NEW f, NEW c, NEW s, HasRoom(fl, f, c, s)
    PROVE  /\ f.pos = 0 => /\ f.off = 0 /\ fl[f.block] = [heads |-> <<>>, data |-> <<>>]
                           /\ OfList(c, Index(f.pos)) = {f.block}
           /\ f.off > 0 => /\ f.off = ((f.pos - 1) % BlockSize) + 1 /\ f.pos > 0
                           /\ ListOf(fl, c, f.block, f.pos)
                           /\ Bytes(fl, f.block, f.pos) = s
                           /\ OfList(c, Index(f.pos)) = Traverse(fl, f.block, f.pos)
<1>1. PICK pos \in Nat, b \in Blocks, off \in Nat : pos = f.pos /\ b = f.block /\ off = f.off
  BY DEF HasRoom, OpenFiles
<1>2. PICK n \in Nat : n = Index(pos)
  BY <1>1, IndexIs
<1>3. off = pos % BlockSize /\ off \in 0..BlockSize - 1 /\ pos = BlockSize * n + off
  BY <1>1, <1>2, IndexIs DEF HasRoom
<1>4. IsList(fl, c, n) /\ c[n] = b /\ c \in [0..n -> Blocks]
       /\ \A i \in 0..n - 1 : c[i] # b /\ Len(fl[c[i]].data) = BlockSize
  BY <1>1, <1>2 DEF HasRoom, IsList
<1>5. Len(fl[b].data) = off
  BY <1>1 DEF HasRoom
<1>6. CASE pos = 0
  <2>1. n = 0 /\ off = 0
    <3>1. 0 \in Nat /\ BlockSize * 0 + 0 = 0 /\ 0 \in 0..BlockSize - 1
      BY BlockSizeAssumption
    <3>2. Index(BlockSize * 0 + 0) = 0 /\ (BlockSize * 0 + 0) % BlockSize = 0
      BY <3>1, PlaceIs
    <3> QED BY <1>2, <1>3, <1>6, <3>1, <3>2
  <2>2. fl[b].heads = <<>>
    BY <1>4, <2>1 DEF IsList
  <2>3. fl[b].data = <<>>
    <3>1. fl[b].data \in Seq(Int) /\ Len(fl[b].data) = 0
      BY <1>5, <2>1 DEF FlashType
    <3> QED BY <3>1
  <2>4. fl[b] = [heads |-> <<>>, data |-> <<>>]
    BY <2>2, <2>3 DEF FlashType
  <2>5. OfList(c, n) = {b}
    BY <1>4, <2>1 DEF OfList
  <2> QED BY <1>1, <1>2, <1>6, <2>1, <2>4, <2>5
<1>7. CASE pos # 0
  <2>1. CASE off = 0
    BY <1>1, <1>7, <2>1
  <2>2. CASE off # 0
    <3>1. pos \in Nat \ {0} /\ n = Index(pos - 1) /\ ((pos - 1) % BlockSize) + 1 = off
      BY <1>2, <1>3, <1>7, <2>2, IndexOfNext
    <3>2. IsFull(fl, c, pos)
      <4>1. PICK q \in Nat : q = BlockSize * n
        BY BlockSizeAssumption
      <4>3. pos = q + off
        BY <1>3, <4>1
      <4>4. off >= pos - q
        BY <4>3
      <4>2. Len(fl[c[n]].data) >= pos - BlockSize * n
        BY <1>4, <1>5, <4>1, <4>4
      <4> QED BY <1>4, <3>1, <4>2 DEF IsFull
    <3>3. ListOf(fl, c, b, pos)
      BY <1>4, <3>1, <3>2 DEF ListOf
    <3>4. PICK t \in Seq(Int) : t = Bytes(fl, b, pos) /\ Len(t) = pos
      BY <3>1, <3>3, ListIs
    <3>5. s \in Seq(Int) /\ Len(s) = pos
      BY <1>1 DEF HasRoom
    <3>6. ASSUME NEW p \in 0..Len(s) - 1 PROVE t[p + 1] = s[p + 1]
      <4>1. p \in 0..pos - 1
        BY <3>5
      <4>2. t[p + 1] = Unit(fl, c, p)
        BY <3>1, <3>3, <3>4, <4>1, ListIs
      <4> QED BY <1>1, <4>1, <4>2 DEF HasRoom
    <3>7. t = s
      BY <3>4, <3>5, <3>6, SameUnits
    <3>8. Traverse(fl, b, pos) = {c[i] : i \in 0..Index(pos - 1)}
      BY <3>1, <3>3, ListIs
    <3>9. OfList(c, n) = Traverse(fl, b, pos)
      BY <3>1, <3>8 DEF OfList
    <3> QED BY <1>1, <1>2, <1>7, <3>1, <3>3, <3>4, <3>7, <3>9
  <2> QED BY <2>1, <2>2
<1> QED BY <1>6, <1>7

(* The pointers of a block that is put behind a list.                      *)
PointersTo(c, n) == [k \in 1..Ctz(n) + 1 |-> c[n - Pow2[k - 1]]]

(* The pointers of a new block are found by following those of the block   *)
(* before it.                                                              *)
LEMMA PointersAre ==
    ASSUME NEW fl, NEW n \in Nat \ {0}, NEW c, IsList(fl, c, n - 1)
    PROVE  Pointers(fl, c[n - 1], n) = PointersTo(c, n)
<1>1. PICK z \in Nat : z = Ctz(n)
  BY CtzIs
<1>2. PICK head : head = c[n - 1]
  OBVIOUS
<1> DEFINE Fn(f) == f = [i \in 0..z |-> IF i = 0 THEN head ELSE fl[f[i - 1]].heads[i]]
<1>3. ASSUME NEW i \in 1..z
      PROVE  fl[c[n - Pow2[i - 1]]].heads[i] = c[n - Pow2[i]]
  <2>1. i - 1 \in 0..Ctz(n) /\ i - 1 < Ctz(n) /\ i - 1 \in Nat
    BY <1>1
  <2>2. PICK w \in Nat \ {0} : w = Pow2[i - 1]
    BY <2>1, Pow2Is
  <2>3. Pow2[i] = w + w
    <3>1. Pow2[(i - 1) + 1] = 2 * Pow2[i - 1] /\ (i - 1) + 1 = i
      BY <2>1, Pow2Is
    <3> QED BY <2>2, <3>1
  <2>4. n - w \in 0..n - 1 /\ n - w # 0 /\ Ctz(n - w) >= i - 1
    BY <2>1, <2>2, CtzBehind
  <2>5. PICK j \in 1..n - 1 : j = n - w
    BY <2>4
  <2>6. \A k \in 0..Ctz(j) : fl[c[j]].heads[k + 1] = c[j - Pow2[k]]
    <3>1. PICK m \in Nat : m = n - 1
      OBVIOUS
    <3>11. IsList(fl, c, m)
      BY <3>1
    <3>12. j \in 1..m
      BY <2>5, <3>1
    <3> HIDE DEF Fn
    <3>2. ASSUME NEW k \in 0..Ctz(j) PROVE fl[c[j]].heads[k + 1] = c[j - Pow2[k]]
      BY <3>11, <3>12, <3>2, PointsAt
    <3> QED BY <3>2
  <2>7. i - 1 \in 0..Ctz(j)
    <3>1. Ctz(j) \in Nat
      BY <2>5, CtzIs
    <3> QED BY <2>1, <2>4, <2>5, <3>1
  <2>8. fl[c[j]].heads[(i - 1) + 1] = c[j - w]
    BY <2>2, <2>6, <2>7
  <2>9. (i - 1) + 1 = i /\ j - w = n - (w + w)
    BY <2>5
  <2> QED BY <2>2, <2>3, <2>5, <2>8, <2>9
<1>4. head = c[n - Pow2[0]]
  BY <1>2, Pow2Is
<1>5. \E f : Fn(f)
  <2>1. PICK g : g = [i \in 0..z |-> c[n - Pow2[i]]]
    OBVIOUS
  <2>2. PICK h : h = [i \in 0..z |-> IF i = 0 THEN head ELSE fl[g[i - 1]].heads[i]]
    OBVIOUS
  <2>3. ASSUME NEW i \in 0..z PROVE g[i] = h[i]
    <3>1. CASE i = 0
      BY <1>4, <2>1, <2>2, <3>1
    <3>2. CASE i # 0
      <4>1. i \in 1..z /\ i - 1 \in 0..z
        BY <3>2
      <4>2. fl[c[n - Pow2[i - 1]]].heads[i] = c[n - Pow2[i]]
        BY <1>3, <4>1
      <4>3. h[i] = fl[g[i - 1]].heads[i]
        BY <2>2, <3>2
      <4> QED BY <2>1, <4>1, <4>2, <4>3
    <3> QED BY <3>1, <3>2
  <2>4. g = h
    BY <2>1, <2>2, <2>3
  <2> QED BY <2>2, <2>4
<1>6. PICK f : Fn(f) /\ Pointers(fl, head, n) = [i \in 1..z + 1 |-> f[i - 1]]
  <2>1. Pointers(fl, head, n) = [i \in 1..z + 1 |-> (CHOOSE f : Fn(f))[i - 1]]
    BY <1>1 DEF Pointers
  <2> HIDE DEF Fn
  <2> QED BY <1>5, <2>1
<1>7. PICK P : P = {i \in 0..z : f[i] = c[n - Pow2[i]]}
  OBVIOUS
<1>8. 0 \in P
  <2>1. f[0] = head
    BY <1>6
  <2> QED BY <1>4, <1>7, <2>1
<1>9. ASSUME NEW i \in 1..z, i - 1 \in P PROVE i \in P
  <2>1. f[i - 1] = c[n - Pow2[i - 1]]
    BY <1>7, <1>9, SMTT(30)
  <2>2. f[i] = fl[f[i - 1]].heads[i]
    <3>1. i \in 0..z /\ i # 0
      OBVIOUS
    <3> QED BY <1>6, <3>1
  <2> QED BY <1>3, <1>7, <2>1, <2>2
<1>10. \A i \in 0..z : i \in P
  BY <1>8, <1>9, UpTo
<1>11. ASSUME NEW i \in 1..z + 1 PROVE f[i - 1] = c[n - Pow2[i - 1]]
  <2>1. i - 1 \in 0..z
    OBVIOUS
  <2> QED BY <1>7, <1>10, <2>1
<1> HIDE DEF Fn
<1> QED BY <1>1, <1>2, <1>6, <1>11 DEF PointersTo

(* A file that is written has room in its block, until that is full.       *)
LEMMA OwnRoom ==
    ASSUME NEW fl, FlashType(fl), NEW f \in OpenFiles, Writes(f), TailKeeps(fl, f),
           f.off < BlockSize
    PROVE  \E c : /\ HasRoom(fl, f, c, Bytes(fl, f.block, f.pos))
                  /\ OfList(c, Index(f.pos)) = TailOf(fl, f)
<1>1. PICK pos \in Nat, b \in Blocks, off \in Nat : pos = f.pos /\ b = f.block /\ off = f.off
  BY DEF TailKeeps, OpenFiles
<1>2. PICK n \in Nat : n = Index(pos)
  BY <1>1, IndexIs
<1>3. CASE pos = 0
  <2>1. off = 0 /\ fl[b] = [heads |-> <<>>, data |-> <<>>]
    BY <1>1, <1>3 DEF TailKeeps
  <2>2. n = 0 /\ pos % BlockSize = 0
    <3>1. 0 \in Nat /\ BlockSize * 0 + 0 = 0 /\ 0 \in 0..BlockSize - 1
      BY BlockSizeAssumption
    <3>2. Index(BlockSize * 0 + 0) = 0 /\ (BlockSize * 0 + 0) % BlockSize = 0
      BY <3>1, PlaceIs
    <3> QED BY <1>2, <1>3, <3>1, <3>2
  <2>3. PICK c : c = [i \in 0..0 |-> b]
    OBVIOUS
  <2>4. c \in [0..0 -> Blocks] /\ c[0] = b
    BY <2>3
  <2>5. fl[b].heads = <<>> /\ fl[b].data = <<>> /\ Len(<<>>) = 0 /\ <<>> \in Seq(Int)
    BY <2>1
  <2>6. IsList(fl, c, 0)
    BY <2>4, <2>5 DEF IsList
  <2>7. Bytes(fl, b, pos) = <<>> /\ Traverse(fl, b, pos) = {}
    BY <1>3, NoList
  <2>8. HasRoom(fl, f, c, <<>>)
    <3>1. \A i \in 0..Index(f.pos) - 1 : FALSE
      BY <1>1, <1>2, <2>2
    <3>2. \A i \in 0..f.pos - 1 : FALSE
      BY <1>1, <1>3
    <3>3. IsList(fl, c, Index(f.pos)) /\ c[Index(f.pos)] = f.block
      BY <1>1, <1>2, <2>2, <2>4, <2>6
    <3>4. f.off = f.pos % BlockSize /\ Len(fl[f.block].data) = f.off
      BY <1>1, <2>1, <2>2, <2>5
    <3>5. <<>> \in Seq(Int) /\ Len(<<>>) = f.pos
      BY <1>1, <1>3, <2>5
    <3> QED BY <1>1, <3>1, <3>2, <3>3, <3>4, <3>5 DEF HasRoom
  <2>9. OfList(c, 0) = {b}
    BY <2>4 DEF OfList
  <2>10. OfList(c, Index(f.pos)) = TailOf(fl, f)
    BY <1>1, <1>2, <2>2, <2>7, <2>9 DEF TailOf
  <2> QED BY <1>1, <2>7, <2>8, <2>10
<1>4. CASE pos # 0
  <2>0. pos \in Nat \ {0} /\ pos > 0
    BY <1>4
  <2>1. HasList(fl, b, pos) /\ off = ((pos - 1) % BlockSize) + 1 /\ Len(fl[b].data) = off
    BY <1>1, <2>0 DEF TailKeeps
  <2>2. PICK c : ListOf(fl, c, b, pos)
    BY <2>0, <2>1 DEF HasList
  <2>3. n = Index(pos - 1) /\ off = pos % BlockSize
    <3>1. off # BlockSize
      BY <1>1, BlockSizeAssumption
    <3>2. pos % BlockSize # 0
      BY <2>0, <2>1, <3>1, IndexOfNext
    <3> QED BY <1>2, <2>0, <2>1, <3>2, IndexOfNext
  <2>4. IsList(fl, c, n) /\ c[n] = b /\ \A i \in 0..n - 1 : Len(fl[c[i]].data) = BlockSize
    BY <2>2, <2>3 DEF ListOf, IsFull
  <2>5. \A i \in 0..n - 1 : c[i] # b
    BY <1>1, <2>1, <2>4, BlockSizeAssumption
  <2>6. PICK s \in Seq(Int) : s = Bytes(fl, b, pos) /\ Len(s) = pos
    BY <2>0, <2>2, ListIs
  <2>7. \A p \in 0..pos - 1 : Unit(fl, c, p) = s[p + 1]
    BY <2>0, <2>2, <2>6, ListIs
  <2>8. HasRoom(fl, f, c, s)
    BY <1>1, <1>2, <2>1, <2>3, <2>4, <2>5, <2>6, <2>7 DEF HasRoom
  <2>9. Traverse(fl, b, pos) = {c[i] : i \in 0..Index(pos - 1)} /\ b \in Traverse(fl, b, pos)
    BY <2>0, <2>2, ListIs
  <2>10. OfList(c, Index(f.pos)) = TailOf(fl, f)
    BY <1>1, <1>2, <2>3, <2>9 DEF TailOf, OfList
  <2> QED BY <1>1, <2>6, <2>8, <2>10
<1> QED BY <1>3, <1>4

(* A list that ends with a block fills it.                                 *)
LEMMA PartIsFull ==
    ASSUME NEW pos \in Nat \ {0}, pos % BlockSize = 0
    PROVE  pos - BlockSize * Index(pos - 1) = BlockSize
<1>1. PICK m \in Nat : m = pos - 1 /\ pos = m + 1
  OBVIOUS
<1>2. PICK i \in Nat : i = Index(m)
  BY IndexIs
<1>3. PICK r \in Nat : r = m % BlockSize
  BY IndexIs
<1>4. PICK q \in Nat : q = BlockSize * i
  BY BlockSizeAssumption
<1>5. m = q + r
  BY <1>2, <1>3, <1>4, IndexIs
<1>6. r + 1 = BlockSize
  BY <1>1, <1>3, IndexOfNext
<1>7. pos - q = r + 1
  BY <1>1, <1>5
<1> QED BY <1>1, <1>2, <1>4, <1>6, <1>7

(* A position within the part of a block that is written.                  *)
LEMMA WithinPart ==
    ASSUME NEW q \in Nat, NEW r \in Nat, NEW off \in Nat, NEW p \in Nat, NEW pos \in Nat,
           p = q + r, pos = q + off, p < pos
    PROVE  r + 1 \in 1..off
OBVIOUS

(* The block that is new has what the last one had of the part that is     *)
(* filled, or points to it.                                                *)
NewBlock(fl, last, pos) ==
    IF pos = 0  THEN [heads |-> <<>>, data |-> <<>>]
    ELSE IF pos % BlockSize = 0 THEN [heads |-> Pointers(fl, last, Index(pos)), data |-> <<>>]
    ELSE [fl[last] EXCEPT !.data = SubSeq(@, 1, pos % BlockSize)]

(* The flash with a block programmed anew.                                 *)
Added(fl, b, new) == [fl EXCEPT ![b] = new]

(* lfs_ctz_extend: the new block is room for a unit behind the bytes of    *)
(* the list, whether it is the first, a new one, or a copy of the last     *)
(* one's bytes.                                                            *)
LEMMA ExtendIs ==
    ASSUME NEW fl, FlashType(fl), NEW pos \in Nat, NEW last, pos > 0 => HasList(fl, last, pos),
           NEW b \in Blocks, b \notin Traverse(fl, last, pos),
           NEW fl2, fl2 = Added(fl, b, NewBlock(fl, last, pos)),
           NEW f2 \in OpenFiles, Writes(f2), f2.block = b, f2.pos = pos, f2.off = pos % BlockSize
    PROVE  /\ FlashType(fl2)
           /\ \A x \in Blocks : x # b => fl2[x] = fl[x]
           /\ \E c : /\ HasRoom(fl2, f2, c, Bytes(fl, last, pos))
                     /\ OfList(c, Index(pos)) \subseteq Traverse(fl, last, pos) \cup {b}
<1>1. PICK n \in Nat, off \in 0..BlockSize - 1 : n = Index(pos) /\ off = pos % BlockSize
  BY IndexIs
<1>01. PICK new :
           /\ new = NewBlock(fl, last, pos)
           /\ new = IF pos = 0 THEN [heads |-> <<>>, data |-> <<>>]
                     ELSE IF pos % BlockSize = 0
                          THEN [heads |-> Pointers(fl, last, Index(pos)), data |-> <<>>]
                     ELSE [fl[last] EXCEPT !.data = SubSeq(@, 1, pos % BlockSize)]
  BY DEF NewBlock
<1>02. fl2 = [fl EXCEPT ![b] = new]
  BY <1>01 DEF Added
<1>2. \A x \in Blocks : x # b => fl2[x] = fl[x]
  BY <1>02 DEF FlashType
<1>3. fl2[b] = new /\ fl2 = [x \in Blocks |-> fl2[x]]
  BY <1>02 DEF FlashType
<1>4. ASSUME new \in [heads : Seq(Blocks), data : Seq(Int)], Len(new.data) <= BlockSize
      PROVE  FlashType(fl2)
  <2>1. \A x \in Blocks : fl2[x] \in [heads : Seq(Blocks), data : Seq(Int)]
    BY <1>2, <1>3, <1>4 DEF FlashType
  <2>2. \A x \in Blocks : Len(fl2[x].data) <= BlockSize
    BY <1>2, <1>3, <1>4 DEF FlashType
  <2> QED BY <1>3, <2>1, <2>2 DEF FlashType
<1>5. <<>> \in Seq(Int) /\ <<>> \in Seq(Blocks) /\ Len(<<>>) = 0
  OBVIOUS
<1>6. CASE pos = 0
  <2>1. new.heads = <<>> /\ new.data = <<>> /\ new \in [heads : Seq(Blocks), data : Seq(Int)]
    BY <1>01, <1>5, <1>6
  <2>2. n = 0 /\ off = 0
    <3>1. 0 \in Nat /\ BlockSize * 0 + 0 = 0 /\ 0 \in 0..BlockSize - 1
      BY BlockSizeAssumption
    <3>2. Index(BlockSize * 0 + 0) = 0 /\ (BlockSize * 0 + 0) % BlockSize = 0
      BY <3>1, PlaceIs
    <3> QED BY <1>1, <1>6, <3>1, <3>2
  <2>3. TailKeeps(fl2, f2)
    <3>1. fl2[b] = [heads |-> <<>>, data |-> <<>>]
      BY <1>01, <1>3, <1>6
    <3> QED BY <1>1, <1>6, <2>2, <3>1 DEF TailKeeps
  <2>4. FlashType(fl2)
    <3>1. Len(new.data) <= BlockSize
      BY <1>5, <2>1, BlockSizeAssumption
    <3> QED BY <1>4, <2>1, <3>1
  <2>5. f2.off < BlockSize
    BY <1>1, <2>2, BlockSizeAssumption
  <2>6. PICK c : HasRoom(fl2, f2, c, Bytes(fl2, b, pos)) /\ OfList(c, Index(pos)) = TailOf(fl2, f2)
    BY <2>3, <2>4, <2>5, OwnRoom
  <2>7. Bytes(fl2, b, pos) = Bytes(fl, last, pos) /\ TailOf(fl2, f2) = {b}
    BY <1>6, NoList DEF TailOf
  <2> QED BY <1>2, <2>4, <2>6, <2>7
<1>7. CASE pos # 0
  <2>0. pos \in Nat \ {0} /\ pos - 1 \in Nat /\ pos > 0
    BY <1>7
  <2>1. PICK m \in Nat : m = Index(pos - 1)
    BY <2>0, IndexIs
  <2>2. PICK c : ListOf(fl, c, last, pos)
    BY <2>0 DEF HasList
  <2>3. IsList(fl, c, m) /\ c[m] = last /\ IsFull(fl, c, pos) /\ c \in [0..m -> Blocks]
    BY <2>1, <2>2 DEF ListOf, IsList
  <2>4. /\ off = 0 => n = m + 1
        /\ off # 0 => n = m
    BY <1>1, <2>0, <2>1, IndexOfNext
  <2>5. \A i \in 0..n - 1 : i \in 0..m
    BY <2>4
  <2>6. PICK d : d = [i \in 0..n |-> IF i = n THEN b ELSE c[i]]
    OBVIOUS
  <2>7. d \in [0..n -> Blocks] /\ d[n] = b /\ \A i \in 0..n - 1 : d[i] = c[i]
    BY <2>3, <2>5, <2>6
  <2>8. Traverse(fl, last, pos) = {c[i] : i \in 0..Index(pos - 1)}
    BY <2>0, <2>2, ListIs
  <2>9. \A i \in 0..m : c[i] # b /\ fl2[c[i]] = fl[c[i]]
    BY <1>2, <2>1, <2>3, <2>8
  <2>10. ASSUME NEW i \in Nat, i \in 1..n, NEW k \in 1..Ctz(i) + 1
         PROVE  i - Pow2[k - 1] \in 0..n - 1
    <3>1. i \in Nat \ {0}
      BY <2>10
    <3>01. Ctz(i) \in Nat
      BY <3>1, CtzIs
    <3>2. k - 1 \in 0..Ctz(i)
      BY <3>01
    <3>3. PICK x : x = i - Pow2[k - 1] /\ x \in 0..i - 1
      BY <3>1, <3>2, CtzBehind
    <3>4. x \in 0..n - 1
      BY <2>10, <3>3
    <3> QED BY <3>3, <3>4
  <2>11. /\ new.heads \in Seq(Blocks) /\ new.data \in Seq(Int)
         /\ new = [heads |-> new.heads, data |-> new.data]
         /\ Len(new.data) = off
         /\ new.heads = IF n = 0 THEN <<>> ELSE [k \in 1..Ctz(n) + 1 |-> c[n - Pow2[k - 1]]]
    <3>1. CASE off = 0
      <4>1. n \in Nat \ {0} /\ n - 1 = m
        BY <2>4, <3>1
      <4>2. PICK z \in Nat : z = Ctz(n) + 1
        BY <4>1, CtzIs
      <4>3. PICK w : w = [k \in 1..Ctz(n) + 1 |-> c[n - Pow2[k - 1]]]
        OBVIOUS
      <4>4. Pointers(fl, last, n) = w
        <5>1. IsList(fl, c, n - 1) /\ c[n - 1] = last
          BY <2>3, <4>1
        <5>2. Pointers(fl, c[n - 1], n) = w
          <6>1. Pointers(fl, c[n - 1], n) = PointersTo(c, n)
            BY <4>1, <5>1, PointersAre, Zenon
          <6> QED BY <4>3, <6>1 DEF PointersTo
        <5> QED BY <5>1, <5>2
      <4>5. new = [heads |-> w, data |-> <<>>]
        BY <1>01, <1>1, <1>7, <3>1, <4>4
      <4>6. w \in Seq(Blocks)
        <5>1. \A k \in 1..z : n \in 1..n /\ k \in 1..Ctz(n) + 1
          BY <4>1, <4>2
        <5>2. \A k \in 1..z : n - Pow2[k - 1] \in 0..n - 1
          BY <2>10, <5>1
        <5>3. \A k \in 1..z : c[n - Pow2[k - 1]] \in Blocks
          BY <2>3, <2>5, <5>2
        <5>4. w \in [1..z -> Blocks]
          BY <4>2, <4>3, <5>3
        <5> QED BY <5>4
      <4>7. new.heads = w /\ new.data = <<>>
        <5>1. \A v : [heads |-> w, data |-> v].heads = w /\ [heads |-> w, data |-> v].data = v
          OBVIOUS
        <5> QED BY <4>5, <5>1
      <4> QED BY <1>5, <3>1, <4>1, <4>3, <4>5, <4>6, <4>7
    <3>2. CASE off # 0
      <4>1. n = m
        BY <2>4, <3>2
      <4>2. PICK w \in Seq(Blocks), v \in Seq(Int) : fl[last] = [heads |-> w, data |-> v]
        BY <2>3, <4>1 DEF FlashType
      <4>3. Len(v) >= off
        <5>1. Len(fl[c[m]].data) >= pos - BlockSize * m
          BY <2>1, <2>3 DEF IsFull
        <5>2. pos = BlockSize * n + (pos % BlockSize)
          BY <1>1, IndexIs
        <5>3. PICK q \in Nat : q = BlockSize * n
          BY BlockSizeAssumption
        <5>4. pos = q + off
          BY <1>1, <5>2, <5>3
        <5>5. pos - q = off
          BY <5>4
        <5>6. fl[c[m]].data = v
          BY <2>3, <4>2
        <5> QED BY <4>1, <5>1, <5>3, <5>5, <5>6
      <4>4. PICK u \in Seq(Int) : u = SubSeq(v, 1, off) /\ Len(u) = off
        <5>1. SubSeq(v, 1, off) \in Seq(Int) /\ Len(SubSeq(v, 1, off)) = off
          BY <4>3
        <5> QED BY <5>1
      <4>05. fl[last].heads = w /\ fl[last].data = v
        BY <4>2
      <4>5. new = [heads |-> w, data |-> u]
        <5>1. new = [fl[last] EXCEPT !.data = SubSeq(fl[last].data, 1, off)]
          BY <1>01, <1>1, <1>7, <3>2
        <5>2. new = [[heads |-> w, data |-> v] EXCEPT !.data = u]
          BY <4>2, <4>4, <4>05, <5>1
        <5> QED BY <5>2
      <4>6. new.heads = w /\ new.data = u
        BY <4>5
      <4>7. w = IF n = 0 THEN <<>> ELSE [k \in 1..Ctz(n) + 1 |-> c[n - Pow2[k - 1]]]
        <5>1. n \in 0..m
          BY <4>1
        <5>2. fl[c[n]].heads = IF n = 0 THEN <<>> ELSE [k \in 1..Ctz(n) + 1 |-> c[n - Pow2[k - 1]]]
          BY <2>3, <5>1 DEF IsList
        <5>3. c[n] = last
          BY <2>3, <4>1
        <5> QED BY <4>05, <5>2, <5>3
      <4> QED BY <4>4, <4>5, <4>6, <4>7
    <3> QED BY <3>1, <3>2
  <2>12. FlashType(fl2)
    <3>1. Len(new.data) <= BlockSize
      BY <2>11, BlockSizeAssumption
    <3> QED BY <1>4, <2>11, <3>1
  <2>13. IsList(fl2, d, n)
    <3>1. ASSUME NEW i \in 0..n
          PROVE  fl2[d[i]].heads = IF i = 0 THEN <<>> ELSE [k \in 1..Ctz(i) + 1 |-> d[i - Pow2[k - 1]]]
      <4>1. fl2[d[i]].heads = IF i = 0 THEN <<>> ELSE [k \in 1..Ctz(i) + 1 |-> c[i - Pow2[k - 1]]]
        <5>1. CASE i = n
          BY <1>3, <2>7, <2>11, <5>1
        <5>2. CASE i # n
          <6>1. i \in 0..n - 1 /\ i \in 0..m
            BY <2>5, <5>2
          <6>2. fl2[d[i]] = fl[c[i]]
            BY <2>7, <2>9, <6>1
          <6> QED BY <2>3, <6>1, <6>2 DEF IsList
        <5> QED BY <5>1, <5>2
      <4>2. CASE i = 0
        BY <4>1, <4>2
      <4>3. CASE i # 0
        <5>1. i \in Nat /\ i \in 1..n
          BY <4>3
        <5>2. \A k \in 1..Ctz(i) + 1 : c[i - Pow2[k - 1]] = d[i - Pow2[k - 1]]
          BY <2>7, <2>10, <5>1
        <5> QED BY <4>1, <4>3, <5>2
      <4> QED BY <4>2, <4>3
    <3> QED BY <2>7, <3>1 DEF IsList
  <2>14. PICK s \in Seq(Int) : s = Bytes(fl, last, pos) /\ Len(s) = pos
    BY <2>0, <2>2, ListIs
  <2>15. ASSUME NEW p \in 0..pos - 1 PROVE Unit(fl2, d, p) = s[p + 1]
    <3>1. s[p + 1] = Unit(fl, c, p) /\ Index(p) \in 0..m
      BY <2>0, <2>1, <2>2, <2>14, ListIs, SMTT(30)
    <3>2. CASE Index(p) # n
      <4>1. Index(p) \in 0..n - 1
        BY <2>4, <3>1, <3>2
      <4>2. fl2[d[Index(p)]] = fl[c[Index(p)]]
        BY <2>7, <2>9, <3>1, <4>1
      <4> QED BY <3>1, <4>2 DEF Unit
    <3>3. CASE Index(p) = n
      <4>1. n = m /\ off # 0
        BY <2>4, <3>1, <3>3
      <4>2. PICK r \in 0..BlockSize - 1 : r = p % BlockSize /\ p = BlockSize * n + r
        BY <3>3, IndexIs, SMTT(30)
      <4>3. PICK q \in Nat : q = BlockSize * n
        BY BlockSizeAssumption
      <4>4. pos = q + off
        BY <1>1, <4>3, IndexIs
      <4>5. r + 1 \in 1..off
        <5>1. r \in Nat /\ off \in Nat /\ p \in Nat
          BY <4>2
        <5>2. p = q + r /\ p < pos
          BY <4>2, <4>3
        <5> QED BY <4>3, <4>4, <5>1, <5>2, WithinPart, Zenon
      <4>6. new.data = SubSeq(fl[last].data, 1, off)
        <5>1. new = [fl[last] EXCEPT !.data = SubSeq(fl[last].data, 1, off)]
          BY <1>01, <1>1, <1>7, <4>1
        <5>2. last \in Blocks
          BY <2>3, <4>1
        <5>3. PICK w \in Seq(Blocks), v \in Seq(Int) : fl[last] = [heads |-> w, data |-> v]
          BY <5>2 DEF FlashType
        <5> QED BY <5>1, <5>3
      <4>7. PICK v \in Seq(Int) : v = fl[last].data
        BY <2>3 DEF FlashType
      <4>8. SubSeq(v, 1, off)[r + 1] = v[r + 1]
        <5>1. Len(new.data) = off
          BY <2>11
        <5>2. Len(SubSeq(v, 1, off)) = off
          BY <4>6, <4>7, <5>1
        <5> QED BY <4>5, <5>2
      <4>9. Unit(fl2, d, p) = new.data[r + 1]
        BY <1>3, <2>7, <3>3, <4>2 DEF Unit
      <4>10. Unit(fl, c, p) = v[r + 1]
        BY <2>3, <3>3, <4>1, <4>2, <4>7 DEF Unit
      <4> QED BY <3>1, <4>6, <4>7, <4>8, <4>9, <4>10
    <3> QED BY <3>2, <3>3
  <2>16. \A i \in 0..n - 1 : d[i] # b /\ Len(fl2[d[i]].data) = BlockSize
    <3> SUFFICES ASSUME NEW i \in 0..n - 1
                 PROVE  d[i] # b /\ Len(fl2[d[i]].data) = BlockSize
      OBVIOUS
    <3>1. d[i] = c[i] /\ c[i] # b /\ fl2[d[i]] = fl[c[i]] /\ i \in 0..m
      BY <2>5, <2>7, <2>9
    <3>2. CASE i \in 0..m - 1
      BY <2>1, <2>3, <3>1, <3>2 DEF IsFull
    <3>3. CASE i = m
      <4>1. off = 0
        BY <2>4, <3>3
      <4>2. PICK q \in Nat : q = BlockSize * m
        BY BlockSizeAssumption
      <4>3. pos - q = BlockSize
        <5>1. pos - BlockSize * Index(pos - 1) = BlockSize
          BY <1>1, <2>0, <4>1, PartIsFull, Zenon
        <5> QED BY <2>1, <4>2, <5>1
      <4>4. Len(fl[c[m]].data) >= BlockSize
        BY <2>1, <2>3, <4>2, <4>3 DEF IsFull
      <4>5. Len(fl[c[m]].data) <= BlockSize /\ Len(fl[c[m]].data) \in Nat
        BY <2>3 DEF FlashType
      <4>6. Len(fl[c[m]].data) = BlockSize
        BY <4>4, <4>5, BlockSizeAssumption
      <4> QED BY <3>1, <3>3, <4>6
    <3> QED BY <3>1, <3>2, <3>3
  <2>17. HasRoom(fl2, f2, d, s)
    <3>1. Len(fl2[f2.block].data) = f2.off
      BY <1>1, <1>3, <2>11
    <3> QED BY <1>1, <2>7, <2>13, <2>14, <2>15, <2>16, <3>1 DEF HasRoom
  <2>18. OfList(d, Index(pos)) \subseteq Traverse(fl, last, pos) \cup {b}
    <3>1. \A i \in 0..n : d[i] = b \/ (i \in 0..m /\ d[i] = c[i])
      <4> SUFFICES ASSUME NEW i \in 0..n PROVE d[i] = b \/ (i \in 0..m /\ d[i] = c[i])
        OBVIOUS
      <4>1. i = n \/ i \in 0..n - 1
        OBVIOUS
      <4> QED BY <2>5, <2>7, <4>1
    <3> QED BY <1>1, <2>1, <2>8, <3>1 DEF OfList
  <2> QED BY <1>2, <2>12, <2>14, <2>17, <2>18
<1> QED BY <1>6, <1>7

(* A copy of the last block may take its place.                            *)
Copied(fl, a, b) == [fl EXCEPT ![b] = fl[a]]

(* A relocated block is the last of the same list: what pointed at it was  *)
(* the file, not a block.                                                  *)
LEMMA CopyIs ==
    ASSUME NEW fl, FlashType(fl), NEW f \in OpenFiles, Writes(f), TailKeeps(fl, f),
           NEW b \in Blocks, b \notin Traverse(fl, f.block, f.pos),
           NEW fl2, fl2 = Copied(fl, f.block, b),
           NEW f2 \in OpenFiles, Writes(f2), f2.block = b, f2.pos = f.pos, f2.off = f.off
    PROVE  /\ FlashType(fl2)
           /\ \A x \in Blocks : x # b => fl2[x] = fl[x]
           /\ TailKeeps(fl2, f2)
           /\ TailOf(fl2, f2) \subseteq TailOf(fl, f) \cup {b}
           /\ Bytes(fl2, b, f.pos) = Bytes(fl, f.block, f.pos)
<1>1. PICK pos \in Nat, a \in Blocks, off \in Nat : pos = f.pos /\ a = f.block /\ off = f.off
  BY DEF TailKeeps, OpenFiles
<1>2. fl2[b] = fl[a] /\ \A x \in Blocks : x # b => fl2[x] = fl[x]
  BY <1>1 DEF FlashType, Copied
<1>3. FlashType(fl2)
  BY <1>1 DEF FlashType, Copied
<1>4. CASE pos = 0
  <2>1. Traverse(fl2, b, pos) = {} /\ Bytes(fl2, b, pos) = <<>> /\ Bytes(fl, a, pos) = <<>>
    BY <1>4, NoList
  <2>2. TailOf(fl2, f2) = {b}
    BY <1>1, <2>1 DEF TailOf
  <2>3. TailKeeps(fl2, f2)
    BY <1>1, <1>2, <1>4 DEF TailKeeps
  <2> QED BY <1>1, <1>2, <1>3, <2>1, <2>2, <2>3
<1>5. CASE pos # 0
  <2>0. pos \in Nat \ {0} /\ pos > 0
    BY <1>5
  <2>1. HasList(fl, a, pos) /\ off = ((pos - 1) % BlockSize) + 1 /\ Len(fl[a].data) = off
    BY <1>1, <2>0 DEF TailKeeps
  <2>2. PICK c : ListOf(fl, c, a, pos)
    BY <2>0, <2>1 DEF HasList
  <2>3. PICK n \in Nat : n = Index(pos - 1)
    BY <2>0, IndexIs
  <2>4. IsList(fl, c, n) /\ c[n] = a /\ IsFull(fl, c, pos) /\ c \in [0..n -> Blocks]
    BY <2>2, <2>3 DEF ListOf, IsList
  <2>5. Traverse(fl, a, pos) = {c[i] : i \in 0..Index(pos - 1)}
    BY <2>0, <2>2, ListIs
  <2>6. \A i \in 0..n : c[i] # b /\ fl2[c[i]] = fl[c[i]]
    BY <1>1, <1>2, <2>3, <2>4, <2>5
  <2>7. PICK d : d = [i \in 0..n |-> IF i = n THEN b ELSE c[i]]
    OBVIOUS
  <2>8. d \in [0..n -> Blocks] /\ d[n] = b /\ \A i \in 0..n - 1 : d[i] = c[i]
    BY <2>4, <2>7
  <2>9. \A i \in 0..n : fl2[d[i]] = fl[c[i]]
    <3> SUFFICES ASSUME NEW i \in 0..n PROVE fl2[d[i]] = fl[c[i]]
      OBVIOUS
    <3>1. CASE i = n
      BY <1>2, <2>4, <2>8, <3>1
    <3>2. CASE i # n
      BY <2>6, <2>7, <3>2
    <3> QED BY <3>1, <3>2
  <2>10. IsList(fl2, d, n)
    <3>1. ASSUME NEW i \in 0..n
          PROVE  fl2[d[i]].heads = IF i = 0 THEN <<>> ELSE [k \in 1..Ctz(i) + 1 |-> d[i - Pow2[k - 1]]]
      <4>1. fl2[d[i]].heads = IF i = 0 THEN <<>> ELSE [k \in 1..Ctz(i) + 1 |-> c[i - Pow2[k - 1]]]
        BY <2>4, <2>9 DEF IsList
      <4>2. CASE i = 0
        BY <4>1, <4>2
      <4>3. CASE i # 0
        <5>1. i \in Nat \ {0}
          BY <4>3
        <5>2. Ctz(i) \in Nat
          BY <5>1, CtzIs
        <5>3. ASSUME NEW k \in 1..Ctz(i) + 1 PROVE c[i - Pow2[k - 1]] = d[i - Pow2[k - 1]]
          <6>1. k - 1 \in 0..Ctz(i)
            BY <5>2
          <6>2. PICK x : x = i - Pow2[k - 1] /\ x \in 0..i - 1
            BY <5>1, <6>1, CtzBehind
          <6>3. x \in 0..n - 1
            BY <6>2
          <6> QED BY <2>8, <6>2, <6>3
        <5> QED BY <4>1, <4>3, <5>3
      <4> QED BY <4>2, <4>3
    <3> QED BY <2>8, <3>1 DEF IsList
  <2>11. IsFull(fl2, d, pos)
    <3>1. \A i \in 0..n - 1 : i \in 0..n
      OBVIOUS
    <3>2. n \in 0..n
      OBVIOUS
    <3> QED BY <2>3, <2>4, <2>9, <3>1, <3>2 DEF IsFull
  <2>12. ListOf(fl2, d, b, pos)
    BY <2>3, <2>8, <2>10, <2>11 DEF ListOf
  <2>13. HasList(fl2, b, pos)
    BY <2>12 DEF HasList
  <2>14. TailKeeps(fl2, f2)
    BY <1>1, <1>2, <1>5, <2>1, <2>13 DEF TailKeeps
  <2>15. Traverse(fl2, b, pos) = {d[i] : i \in 0..Index(pos - 1)}
    BY <1>3, <2>0, <2>12, ListIs
  <2>16. TailOf(fl2, f2) \subseteq TailOf(fl, f) \cup {b}
    <3>1. \A i \in 0..n : d[i] = b \/ d[i] = c[i]
      BY <2>7
    <3>2. \A x \in Traverse(fl2, b, pos) : x = b \/ x \in Traverse(fl, a, pos)
      <4> SUFFICES ASSUME NEW x \in Traverse(fl2, b, pos) PROVE x = b \/ x \in Traverse(fl, a, pos)
        OBVIOUS
      <4>1. PICK i \in 0..n : x = d[i]
        BY <2>3, <2>15
      <4>2. c[i] \in Traverse(fl, a, pos)
        BY <2>3, <2>5
      <4> QED BY <3>1, <4>1, <4>2
    <3> QED BY <1>1, <3>2 DEF TailOf
  <2>17. PICK s \in Seq(Int) : s = Bytes(fl, a, pos) /\ Len(s) = pos
    BY <2>0, <2>2, ListIs
  <2>18. PICK t \in Seq(Int) : t = Bytes(fl2, b, pos) /\ Len(t) = pos
    BY <1>3, <2>0, <2>12, ListIs
  <2>19. ASSUME NEW p \in 0..pos - 1 PROVE s[p + 1] = t[p + 1]
    <3>1. s[p + 1] = Unit(fl, c, p) /\ Index(p) \in 0..n
      BY <2>0, <2>2, <2>3, <2>17, ListIs
    <3>2. t[p + 1] = Unit(fl2, d, p)
      BY <1>3, <2>0, <2>12, <2>18, ListIs
    <3> QED BY <2>9, <3>1, <3>2 DEF Unit
  <2>20. s = t
    BY <2>17, <2>18, <2>19, SameUnits
  <2> QED BY <1>1, <1>2, <1>3, <2>14, <2>16, <2>17, <2>18, <2>20
<1> QED BY <1>4, <1>5

-----------------------------------------------------------------------------
(* The same files, of which one holds only what it would fall back to.     *)
Unwritten(fs, h) == [fs EXCEPT ![h].writing = FALSE]

(* Without the block it writes, a file still keeps the rest.               *)
LEMMA UnwrittenIs ==
    ASSUME NEW fl, NEW es, NEW fs, NEW fr, World(fl, es, fs, fr), NEW h \in Handles,
           fs[h].open, ~fs[h].inl,
           NEW fr2, WindowType(fr2), Eager(fr2), Vacants(fr2) \subseteq Vacants(fr)
    PROVE  LET us == Unwritten(fs, h) IN
           /\ World(fl, es, us, fr2)
           /\ us[h] = [fs[h] EXCEPT !.writing = FALSE] /\ ~Writes(us[h])
           /\ \A k \in Handles : k # h => us[k] = fs[k]
           /\ HeadOf(fl, us[h]) = HeadOf(fl, fs[h])
           /\ Held(fl, es, us) \subseteq Held(fl, es, fs)
           /\ Held(fl, es, fs) = Held(fl, es, us) \cup TailOf(fl, fs[h])
           /\ Writes(fs[h]) => fs[h].block \notin Held(fl, es, us)
           /\ \A k \in Handles : k # h /\ Writes(fs[k]) =>
                fs[k].block \in Held(fl, es, us) /\ fs[k].block \notin Pieces(fl, es[h], fs[h])
<1>1. PICK f \in OpenFiles : f = fs[h] /\ Keeps(fl, es[h], f)
  BY DEF World, FileSet, Closed
<1>2. PICK u \in OpenFiles : u = [f EXCEPT !.writing = FALSE]
  BY DEF OpenFiles
<1>3. u.writing = FALSE /\ u.open /\ ~u.inl /\ u.head = f.head /\ u.size = f.size /\ u.dirty = f.dirty
  BY <1>1, <1>2 DEF OpenFiles
<1>4. ~Writes(u) /\ HeadOf(fl, u) = HeadOf(fl, f) /\ TailOf(fl, u) = {}
  BY <1>1, <1>3 DEF Writes, HeadOf, TailOf
<1>5. Keeps(fl, es[h], u)
  <2>1. u.open /\ f.open
    BY <1>1, <1>3
  <2>2. HeadKeeps(fl, u) /\ TailKeeps(fl, u) /\ RecordKeeps(u) /\ Clean(es[h], u)
    BY <1>1, <1>3, <1>4, <2>1 DEF Keeps, HeadKeeps, TailKeeps, RecordKeeps, Clean
  <2> QED BY <1>1, <2>2 DEF Keeps, FileSet
<1>6. PICK us : us = Unwritten(fs, h)
  OBVIOUS
<1>7. us = [fs EXCEPT ![h] = u] /\ us[h] = u /\ \A k \in Handles : k # h => us[k] = fs[k]
  BY <1>1, <1>2, <1>6 DEF World, Unwritten
<1>8. es = [es EXCEPT ![h] = es[h]]
  BY DEF World
<1>9. World(fl, es, us, fr2)
  <2>1. Pieces(fl, es[h], u) \subseteq Pieces(fl, es[h], fs[h])
    BY <1>1, <1>4 DEF Pieces
  <2>2. World(fl, [es EXCEPT ![h] = es[h]], [fs EXCEPT ![h] = u], fr2)
    BY <1>4, <1>5, <2>1, WorldLess
  <2> QED BY <1>7, <1>8, <2>2
<1>10. ASSUME NEW b
       PROVE  b \in Held(fl, es, fs) <=> b \in Held(fl, es, us) \/ b \in TailOf(fl, fs[h])
  <2>1. \A k \in Handles : k # h => us[k] = fs[k]
    BY <1>7
  <2>2. HeadOf(fl, us[h]) = HeadOf(fl, fs[h]) /\ TailOf(fl, us[h]) = {}
    BY <1>1, <1>4, <1>7
  <2>3. b \in Held(fl, es, us) => b \in Held(fl, es, fs)
    <3> SUFFICES ASSUME b \in Held(fl, es, us) PROVE b \in Held(fl, es, fs)
      OBVIOUS
    <3>1. PICK k \in Handles : b \in EntryOf(fl, es[k]) \cup HeadOf(fl, us[k]) \cup TailOf(fl, us[k])
      BY HeldIs
    <3>2. b \in EntryOf(fl, es[k]) \cup HeadOf(fl, fs[k]) \cup TailOf(fl, fs[k])
      BY <2>1, <2>2, <3>1
    <3> QED BY <3>2, HeldIs
  <2>4. b \in TailOf(fl, fs[h]) => b \in Held(fl, es, fs)
    BY HeldIs
  <2>5. b \in Held(fl, es, fs) => b \in Held(fl, es, us) \/ b \in TailOf(fl, fs[h])
    <3> SUFFICES ASSUME b \in Held(fl, es, fs), b \notin TailOf(fl, fs[h])
                 PROVE  b \in Held(fl, es, us)
      OBVIOUS
    <3>1. PICK k \in Handles : b \in EntryOf(fl, es[k]) \cup HeadOf(fl, fs[k]) \cup TailOf(fl, fs[k])
      BY HeldIs
    <3>2. b \in EntryOf(fl, es[k]) \cup HeadOf(fl, us[k]) \cup TailOf(fl, us[k])
      BY <2>1, <2>2, <3>1
    <3> QED BY <3>2, HeldIs
  <2> QED BY <2>3, <2>4, <2>5
<1>11. ASSUME Writes(fs[h]) PROVE fs[h].block \notin Held(fl, es, us)
  <2> SUFFICES ASSUME fs[h].block \in Held(fl, es, us) PROVE FALSE
    OBVIOUS
  <2>1. PICK k \in Handles : fs[h].block \in EntryOf(fl, es[k]) \cup HeadOf(fl, us[k]) \cup TailOf(fl, us[k])
    BY HeldIs
  <2>2. CASE k = h
    BY <1>1, <1>4, <1>7, <1>11, <2>1, <2>2 DEF World, Alone
  <2>3. CASE k # h
    BY <1>7, <1>11, <2>1, <2>3 DEF World, Alone
  <2> QED BY <2>2, <2>3
<1>12. ASSUME NEW k \in Handles, k # h, Writes(fs[k])
       PROVE  fs[k].block \in Held(fl, es, us) /\ fs[k].block \notin Pieces(fl, es[h], fs[h])
  <2>1. fs[k].block \in TailOf(fl, us[k])
    BY <1>7, <1>12 DEF TailOf
  <2>2. fs[k].block \in Held(fl, es, us)
    BY <2>1, HeldIs
  <2> QED BY <1>12, <2>2 DEF World, Alone, Pieces
<1>13. Held(fl, es, us) \subseteq Held(fl, es, fs)
       /\ Held(fl, es, fs) = Held(fl, es, us) \cup TailOf(fl, fs[h])
  BY <1>10
<1> QED BY <1>1, <1>2, <1>4, <1>6, <1>7, <1>9, <1>11, <1>12, <1>13

(* What a file promises that it keeps while it is written.                 *)
SameFile(f, g) ==
    /\ f.head = g.head /\ f.size = g.size /\ f.dirty = g.dirty /\ f.append = g.append
    /\ f.cache = g.cache /\ f.inl = g.inl

(* A file may write a block that nothing else holds.                       *)
LEMMA WorldWrites ==
    ASSUME NEW fl, NEW es, NEW fs, NEW fr, World(fl, es, fs, fr), NEW h \in Handles,
           fs[h].open, ~fs[h].inl,
           NEW fl2, FlashType(fl2),
           \A x \in Held(fl, es, Unwritten(fs, h)) : fl2[x] = fl[x],
           NEW f2 \in OpenFiles, Writes(f2), SameFile(f2, fs[h]), TailKeeps(fl2, f2),
           f2.append => f2.pos >= f2.size,
           f2.block \notin Held(fl, es, Unwritten(fs, h)),
           \A x \in TailOf(fl2, f2) : x \in Pieces(fl, es[h], fs[h]) \/ x \notin Held(fl, es, fs),
           NEW fr2, WindowType(fr2), Eager(fr2),
           Vacants(fr2) \cap (Held(fl, es, Unwritten(fs, h)) \cup TailOf(fl2, f2)) = {}
    PROVE  World(fl2, es, [fs EXCEPT ![h] = f2], fr2)
<1>1. PICK us : us = Unwritten(fs, h)
  OBVIOUS
<1>2. PICK f : f = fs[h] /\ f \in OpenFiles /\ Keeps(fl, es[h], f) /\ FlashType(fl)
  BY DEF World, FileSet, Closed
<1>3. WindowType(fr) /\ Eager(fr) /\ Vacants(fr) \subseteq Vacants(fr)
  BY DEF World
<1>4. /\ World(fl, es, us, fr)
      /\ us[h] = [f EXCEPT !.writing = FALSE] /\ ~Writes(us[h])
      /\ \A k \in Handles : k # h => us[k] = fs[k]
      /\ HeadOf(fl, us[h]) = HeadOf(fl, f)
      /\ Held(fl, es, us) \subseteq Held(fl, es, fs)
      /\ \A k \in Handles : k # h /\ Writes(fs[k]) =>
            fs[k].block \in Held(fl, es, us) /\ fs[k].block \notin Pieces(fl, es[h], fs[h])
  BY <1>1, <1>2, <1>3, UnwrittenIs
<1>5. PICK u : u = us[h] /\ Keeps(fl, es[h], u) /\ us \in [Handles -> FileSet]
  BY <1>4 DEF World
<1>6. u.head = f.head /\ u.size = f.size /\ u.dirty = f.dirty /\ u.open
  BY <1>2, <1>4, <1>5 DEF OpenFiles
<1>7. /\ Keeps(fl2, es[h], u)
      /\ HeadOf(fl2, u) = HeadOf(fl, u)
  <2>1. \A b \in EntryOf(fl, es[h]) \cup HeadOf(fl, u) \cup TailOf(fl, u) : fl2[b] = fl[b]
    BY <1>1, <1>5, HeldIs
  <2> QED BY <1>2, <1>5, <2>1, PiecesStay
<1>8. f2.head = u.head /\ f2.size = u.size /\ f2.dirty = u.dirty /\ f2.open /\ ~f2.inl /\ f2.writing
  BY <1>2, <1>6 DEF SameFile, Writes
<1>9. HeadOf(fl2, f2) = HeadOf(fl, f)
  BY <1>4, <1>5, <1>6, <1>7, <1>8 DEF HeadOf
<1>10. Keeps(fl2, es[h], f2)
  <2>1. HeadKeeps(fl2, f2)
    BY <1>6, <1>7, <1>8 DEF Keeps, HeadKeeps
  <2>2. RecordKeeps(f2)
    BY <1>6, <1>7, <1>8 DEF Keeps, RecordKeeps
  <2>3. Clean(es[h], f2)
    BY <1>6, <1>7, <1>8 DEF Keeps, Clean
  <2> QED BY <1>7, <2>1, <2>2, <2>3 DEF Keeps, FileSet
<1>11. \A k \in Handles : k # h /\ Writes(us[k]) => us[k].block \notin TailOf(fl2, f2)
  BY <1>1, <1>4
<1>12. World(fl2, es, [us EXCEPT ![h] = f2], fr2)
  BY <1>1, <1>2, <1>4, <1>9, <1>10, <1>11, WorldMore
<1>13. [us EXCEPT ![h] = f2] = [fs EXCEPT ![h] = f2]
  BY <1>4, <1>5 DEF World
<1> QED BY <1>12, <1>13

-----------------------------------------------------------------------------
(* A file, as it is about to be, among what is held.                       *)
Fits(fl0, es, fs, h, fl, f, fr, c) ==
    /\ FlashType(fl) /\ f \in OpenFiles /\ Writes(f) /\ SameFile(f, fs[h])
    /\ f.append => f.pos >= f.size
    /\ \A x \in Held(fl0, es, Unwritten(fs, h)) : fl[x] = fl0[x]
    /\ f.block \notin Held(fl0, es, Unwritten(fs, h))
    /\ \A x \in OfList(c, Index(f.pos)) :
            x \in Pieces(fl0, es[h], fs[h]) \/ x \notin Held(fl0, es, fs)
    /\ WindowType(fr) /\ Eager(fr)
    /\ Vacants(fr) \cap (Held(fl0, es, Unwritten(fs, h)) \cup OfList(c, Index(f.pos))) = {}

(* An acknowledgement offers no more blocks.                               *)
LEMMA AckedIs ==
    ASSUME NEW fr, WindowType(fr)
    PROVE  /\ WindowType(Acked(fr)) /\ Vacants(Acked(fr)) = Vacants(fr)
           /\ Eager(fr) => Eager(Acked(fr))
           /\ Acked(fr).ack = BlockCount
<1>1. PICK a : a = Acked(fr)
  OBVIOUS
<1>2. /\ a.off = fr.off /\ a.size = fr.size /\ a.i = fr.i /\ a.taken = fr.taken
      /\ a.ack = BlockCount /\ a \in Windows
  BY <1>1, BlockCountAssumption DEF Acked, WindowType, Windows
<1>3. fr.size \in Nat /\ fr.i \in Nat /\ fr.size - fr.i <= BlockCount
  BY BlockCountAssumption DEF WindowType, Windows
<1>4. WindowType(a)
  BY <1>2, <1>3, BlockCountAssumption DEF WindowType
<1>5. Vacants(a) = Vacants(fr)
  BY <1>2 DEF Vacants
<1> QED BY <1>1, <1>2, <1>4, <1>5 DEF Eager

(* A unit has been counted in.                                             *)
Counted(f, err) == [f EXCEPT !.pos = @ + 1, !.off = @ + 1, !.erred = err]


(* The file after a unit: position and offset move on.                     *)
LEMMA CountedIs ==
    ASSUME NEW f \in OpenFiles, NEW err \in BOOLEAN,
           NEW f2, f2 = Counted(f, err)
    PROVE  /\ f2 \in OpenFiles /\ f2.pos = f.pos + 1 /\ f2.off = f.off + 1 /\ f2.erred = err
           /\ SameFile(f2, f) /\ f2.writing = f.writing /\ f2.block = f.block /\ f2.open
<1>1. PICK pos \in Nat, off \in Nat : pos = f.pos + 1 /\ off = f.off + 1
  BY DEF OpenFiles
<1>2. f2 = [f EXCEPT !.pos = pos, !.off = off, !.erred = err]
  BY <1>1 DEF Counted
<1>3. f2 \in OpenFiles
  BY <1>2, ZenonT(40) DEF OpenFiles
<1>4. f2.pos = pos /\ f2.off = off /\ f2.erred = err /\ f2.writing = f.writing
  BY <1>2 DEF OpenFiles
<1>5. SameFile(f2, f) /\ f2.block = f.block /\ f2.open
  BY <1>2 DEF OpenFiles, SameFile
<1> QED BY <1>1, <1>3, <1>4, <1>5

(* Writing the unit for which there is room.                               *)
LEMMA RoomTaken ==
    ASSUME NEW fl0, NEW es, NEW fs, NEW fr0, World(fl0, es, fs, fr0), NEW h \in Handles,
           fs[h].open, ~fs[h].inl, NEW fl, NEW f, NEW fr, NEW c, NEW s,
           HasRoom(fl, f, c, s), Fits(fl0, es, fs, h, fl, f, fr, c),
           NEW val \in Int,
           NEW fl2, fl2 = Programmed(fl, f, val),
           NEW err \in BOOLEAN, NEW f2, f2 = Counted(f, err)
    PROVE  /\ World(fl2, es, [fs EXCEPT ![h] = f2], Acked(fr))
           /\ \A p \in 0..f.pos - 1 : Bytes(fl2, f2.block, f2.pos)[p + 1] = s[p + 1]
           /\ Bytes(fl2, f2.block, f2.pos)[f2.pos] = val
           /\ \A x \in Held(fl0, es, Unwritten(fs, h)) : fl2[x] = fl0[x]
<1>1. PICK pos \in Nat, b \in Blocks, off \in Nat : pos = f.pos /\ b = f.block /\ off = f.off
  BY DEF HasRoom, OpenFiles
<1>2. /\ FlashType(fl2) /\ Len(fl2[b].data) = off + 1
      /\ \A x \in Blocks : x # b => fl2[x] = fl[x]
      /\ ListOf(fl2, c, b, pos + 1)
      /\ \A p \in 0..pos - 1 : Bytes(fl2, b, pos + 1)[p + 1] = s[p + 1]
      /\ Bytes(fl2, b, pos + 1)[pos + 1] = val
  <2>1. FlashType(fl)
    BY DEF Fits
  <2>2. /\ FlashType(fl2) /\ Len(fl2[f.block].data) = f.off + 1
        /\ \A x \in Blocks : x # f.block => fl2[x] = fl[x]
        /\ ListOf(fl2, c, f.block, f.pos + 1)
        /\ \A p \in 0..f.pos - 1 : Bytes(fl2, f.block, f.pos + 1)[p + 1] = s[p + 1]
        /\ Bytes(fl2, f.block, f.pos + 1)[f.pos + 1] = val
    BY <2>1, UnitIsAppended
  <2> QED BY <1>1, <2>2
<1>3. f \in OpenFiles /\ Writes(f)
  BY DEF Fits
<1>4. /\ f2 \in OpenFiles /\ f2.pos = pos + 1 /\ f2.off = off + 1 /\ f2.block = b
      /\ f2.open /\ f2.writing /\ ~f2.inl /\ f2.head = f.head /\ f2.size = f.size
      /\ f2.dirty = f.dirty /\ f2.append = f.append /\ f2.cache = f.cache /\ f2.inl = f.inl
  <2>1. /\ f2 \in OpenFiles /\ f2.pos = f.pos + 1 /\ f2.off = f.off + 1
        /\ SameFile(f2, f) /\ f2.writing = f.writing /\ f2.block = f.block /\ f2.open
    BY <1>3, CountedIs
  <2> QED BY <1>1, <1>3, <2>1 DEF Writes, SameFile
<1>5. Writes(f2) /\ SameFile(f2, fs[h])
  BY <1>4 DEF Writes, Fits, SameFile
<1>6. TailKeeps(fl2, f2)
  <2>1. HasList(fl2, b, pos + 1)
    BY <1>2 DEF HasList
  <2>2. off + 1 = (((pos + 1) - 1) % BlockSize) + 1
    <3>1. (pos + 1) - 1 = pos
      OBVIOUS
    <3> QED BY <1>1, <3>1 DEF HasRoom
  <2>3. pos + 1 > 0 /\ pos + 1 # 0
    OBVIOUS
  <2> QED BY <1>2, <1>4, <2>1, <2>2, <2>3 DEF TailKeeps
<1>7. f2.append => f2.pos >= f2.size
  BY <1>1, <1>3, <1>4 DEF Fits, OpenFiles
<1>8. TailOf(fl2, f2) = OfList(c, Index(pos))
  <2>1. pos + 1 \in Nat \ {0} /\ (pos + 1) - 1 = pos
    OBVIOUS
  <2>2. Traverse(fl2, b, pos + 1) = {c[i] : i \in 0..Index((pos + 1) - 1)} /\ b \in Traverse(fl2, b, pos + 1)
    BY <1>2, <2>1, ListIs, SMTT(30)
  <2>3. Traverse(fl2, b, pos + 1) = OfList(c, Index(pos))
    BY <2>1, <2>2 DEF OfList
  <2> QED BY <1>4, <1>5, <2>2, <2>3 DEF TailOf
<1>9. \A x \in Held(fl0, es, Unwritten(fs, h)) : fl2[x] = fl0[x]
  <2> SUFFICES ASSUME NEW x \in Held(fl0, es, Unwritten(fs, h)) PROVE fl2[x] = fl0[x]
    OBVIOUS
  <2>1. x # b /\ fl[x] = fl0[x]
    BY <1>1 DEF Fits
  <2>2. x \in Blocks
    <3>1. WindowType(fr0) /\ Eager(fr0) /\ Vacants(fr0) \subseteq Vacants(fr0)
      BY DEF World
    <3>2. PICK us : us = Unwritten(fs, h) /\ World(fl0, es, us, fr0)
      BY <3>1, UnwrittenIs, ZenonT(40)
    <3>3. PICK k \in Handles : x \in EntryOf(fl0, es[k]) \cup HeadOf(fl0, us[k]) \cup TailOf(fl0, us[k])
      BY <3>2, HeldIs
    <3>4. FlashType(fl0) /\ Keeps(fl0, es[k], us[k])
      BY <3>2 DEF World
    <3> QED BY <3>3, <3>4, PiecesAreBlocks
  <2> QED BY <1>2, <2>1, <2>2
<1>10. /\ \A x \in OfList(c, Index(pos)) : x \in Pieces(fl0, es[h], fs[h]) \/ x \notin Held(fl0, es, fs)
       /\ WindowType(fr) /\ Eager(fr) /\ b \notin Held(fl0, es, Unwritten(fs, h))
       /\ Vacants(fr) \cap (Held(fl0, es, Unwritten(fs, h)) \cup OfList(c, Index(pos))) = {}
  BY <1>1 DEF Fits
<1>11. World(fl2, es, [fs EXCEPT ![h] = f2], Acked(fr))
  <2>1. PICK fr2 : fr2 = Acked(fr) /\ WindowType(fr2) /\ Eager(fr2) /\ Vacants(fr2) = Vacants(fr)
    BY <1>10, AckedIs
  <2>2. \A x \in TailOf(fl2, f2) : x \in Pieces(fl0, es[h], fs[h]) \/ x \notin Held(fl0, es, fs)
    BY <1>8, <1>10
  <2>3. Vacants(fr2) \cap (Held(fl0, es, Unwritten(fs, h)) \cup TailOf(fl2, f2)) = {}
    BY <1>8, <1>10, <2>1
  <2>4. f2.block \notin Held(fl0, es, Unwritten(fs, h))
    BY <1>4, <1>10
  <2>05. FlashType(fl2) /\ f2 \in OpenFiles /\ WindowType(fr2) /\ Eager(fr2)
    BY <1>2, <1>4, <2>1
  <2>5. World(fl2, es, [fs EXCEPT ![h] = f2], fr2)
    BY <1>5, <1>6, <1>7, <1>9, <2>05, <2>2, <2>3, <2>4, WorldWrites
  <2> QED BY <2>1, <2>5
<1> QED BY <1>1, <1>2, <1>4, <1>9, <1>11

(* The room without the unit, when there is a byte before it in the block. *)
LEMMA RoomHeld ==
    ASSUME NEW fl0, NEW es, NEW fs, NEW fr0, World(fl0, es, fs, fr0), NEW h \in Handles,
           fs[h].open, ~fs[h].inl, NEW fl, NEW f, NEW fr, NEW c, NEW s,
           HasRoom(fl, f, c, s), Fits(fl0, es, fs, h, fl, f, fr, c), f.off > 0 \/ f.pos = 0
    PROVE  /\ World(fl, es, [fs EXCEPT ![h] = f], fr)
           /\ Bytes(fl, f.block, f.pos) = s
<1>1. PICK pos \in Nat, b \in Blocks, off \in Nat : pos = f.pos /\ b = f.block /\ off = f.off
  BY DEF HasRoom, OpenFiles
<1>2. FlashType(fl) /\ f \in OpenFiles /\ Writes(f)
  BY DEF Fits
<1>3. TailKeeps(fl, f) /\ TailOf(fl, f) = OfList(c, Index(pos)) /\ Bytes(fl, b, pos) = s
  <2>1. CASE pos = 0
    <3>1. off = 0 /\ fl[b] = [heads |-> <<>>, data |-> <<>>] /\ OfList(c, Index(pos)) = {b}
      BY <1>1, <1>2, <2>1, RoomIsList, ZenonT(40)
    <3>2. Traverse(fl, b, pos) = {} /\ Bytes(fl, b, pos) = <<>>
      BY <2>1, NoList
    <3>3. s = <<>>
      <4>1. s \in Seq(Int) /\ Len(s) = 0
        BY <1>1, <2>1 DEF HasRoom
      <4> QED BY <4>1
    <3>4. TailKeeps(fl, f)
      BY <1>1, <2>1, <3>1 DEF TailKeeps
    <3>5. TailOf(fl, f) = {b}
      BY <1>1, <1>2, <3>2 DEF TailOf
    <3> QED BY <3>1, <3>2, <3>3, <3>4, <3>5
  <2>2. CASE pos # 0
    <3>1. /\ off = ((pos - 1) % BlockSize) + 1 /\ pos > 0 /\ ListOf(fl, c, b, pos)
          /\ Bytes(fl, b, pos) = s /\ OfList(c, Index(pos)) = Traverse(fl, b, pos)
      BY <1>1, <1>2, <2>2, RoomIsList
    <3>2. HasList(fl, b, pos) /\ b \in Traverse(fl, b, pos)
      BY <1>1, <1>2, <2>2, <3>1, ListIs DEF HasList
    <3>3. Len(fl[b].data) = off
      BY <1>1 DEF HasRoom
    <3>4. TailKeeps(fl, f)
      BY <1>1, <2>2, <3>1, <3>2, <3>3 DEF TailKeeps
    <3>5. TailOf(fl, f) = Traverse(fl, b, pos)
      BY <1>1, <1>2, <3>2 DEF TailOf
    <3> QED BY <3>1, <3>4, <3>5
  <2> QED BY <2>1, <2>2
<1>4. World(fl, es, [fs EXCEPT ![h] = f], fr)
  <2>1. \A x \in TailOf(fl, f) : x \in Pieces(fl0, es[h], fs[h]) \/ x \notin Held(fl0, es, fs)
    BY <1>1, <1>3 DEF Fits
  <2>2. /\ SameFile(f, fs[h]) /\ (f.append => f.pos >= f.size)
        /\ \A x \in Held(fl0, es, Unwritten(fs, h)) : fl[x] = fl0[x]
        /\ f.block \notin Held(fl0, es, Unwritten(fs, h)) /\ WindowType(fr) /\ Eager(fr)
        /\ Vacants(fr) \cap (Held(fl0, es, Unwritten(fs, h)) \cup TailOf(fl, f)) = {}
    BY <1>1, <1>3 DEF Fits
  <2> QED BY <1>2, <1>3, <2>1, <2>2, WorldWrites
<1> QED BY <1>1, <1>3, <1>4

(* A block that is not full is room for the next unit.                     *)
LEMMA RoomThere ==
    ASSUME NEW fl, NEW es, NEW fs, NEW fr, World(fl, es, fs, fr), NEW h \in Handles,
           Writes(fs[h]), fs[h].off < BlockSize
    PROVE  \E c : /\ HasRoom(fl, fs[h], c, Bytes(fl, fs[h].block, fs[h].pos))
                  /\ Fits(fl, es, fs, h, fl, fs[h], fr, c)
<1>1. PICK f \in OpenFiles : f = fs[h] /\ Keeps(fl, es[h], f) /\ FlashType(fl)
  BY DEF World, FileSet, Closed, Writes
<1>2. TailKeeps(fl, f) /\ RecordKeeps(f) /\ f.open /\ ~f.inl /\ f.writing
  BY <1>1 DEF Keeps, Writes
<1>3. PICK c : HasRoom(fl, f, c, Bytes(fl, f.block, f.pos)) /\ OfList(c, Index(f.pos)) = TailOf(fl, f)
  BY <1>1, <1>2, OwnRoom
<1>4. WindowType(fr) /\ Eager(fr) /\ Vacants(fr) \cap Held(fl, es, fs) = {}
  BY DEF World
<1>5. PICK us : /\ us = Unwritten(fs, h) /\ f.block \notin Held(fl, es, us)
                /\ Held(fl, es, fs) = Held(fl, es, us) \cup TailOf(fl, f)
  <2>1. Vacants(fr) \subseteq Vacants(fr) /\ fs[h].open /\ ~fs[h].inl
    BY <1>1, <1>2
  <2>2. /\ fs[h].block \notin Held(fl, es, Unwritten(fs, h))
        /\ Held(fl, es, fs) = Held(fl, es, Unwritten(fs, h)) \cup TailOf(fl, fs[h])
    BY <1>4, <2>1, UnwrittenIs
  <2> QED BY <1>1, <2>2
<1>6. \A x \in OfList(c, Index(f.pos)) : x \in Pieces(fl, es[h], fs[h])
  BY <1>1, <1>3 DEF Pieces
<1>7. Vacants(fr) \cap (Held(fl, es, us) \cup OfList(c, Index(f.pos))) = {}
  BY <1>3, <1>4, <1>5
<1>8. SameFile(f, fs[h]) /\ (f.append => f.pos >= f.size)
  BY <1>1, <1>2 DEF SameFile, RecordKeeps
<1>9. Fits(fl, es, fs, h, fl, f, fr, c)
  BY <1>1, <1>4, <1>5, <1>6, <1>7, <1>8 DEF Fits
<1> QED BY <1>1, <1>3, <1>9

-----------------------------------------------------------------------------
(* The other files that are written have something in their block.         *)
OthersWrote(fs, h) == \A k \in Handles : k # h /\ Writes(fs[k]) => fs[k].pos > 0

(* The block a file has just begun and not written to yet, which a         *)
(* traversal does not find.                                                *)
Blank(fs, h) == IF Writes(fs[h]) /\ fs[h].pos = 0 THEN {fs[h].block} ELSE {}

(* A change of the flash that leaves the lists of the entries alone.       *)
SameEntries(fl) == \A h \in Handles : EntryOf(flash, entry[h]) = EntryOf(fl, entry[h])

(* What an allocation on behalf of h returns and what the window offers    *)
(* afterwards is held by nobody, but for the block h has begun and not     *)
(* written to.                                                             *)
LEMMA AllocatedIs ==
    ASSUME NEW fl, NEW fs, NEW fr, World(fl, entry, fs, fr), SameEntries(fl),
           NEW fr2, WindowType(fr2), Vacants(fr2) = Vacants(fr),
           NEW a, a = Alloc(fr2, Used(fl, fs)), NEW h \in Handles, OthersWrote(fs, h),
           NEW own, own = Blank(fs, h)
    PROVE  /\ a.block \in Blocks \cup {None}
           /\ WindowType(a.free) /\ Eager(a.free)
           /\ Vacants(a.free) \cap Held(fl, entry, fs) \subseteq own
           /\ a.block # None => /\ a.block \in Held(fl, entry, fs) => a.block \in own
                                /\ a.block \notin Vacants(a.free)
           /\ a.block = None => Vacants(a.free) = {}
           /\ Eager(fr2) /\ fr2.ack = BlockCount /\ a.block = None => a.full
<1>1. PICK used : used = Used(fl, fs)
  OBVIOUS
<1>2. /\ used \subseteq Held(fl, entry, fs) \cup {Inline} /\ used \in SUBSET (Blocks \cup {Inline})
      /\ \A b \in Held(fl, entry, fs) :
            b \in used \/ \E k \in Handles : Writes(fs[k]) /\ fs[k].pos = 0 /\ b = fs[k].block
  BY <1>1, UsedIs DEF SameEntries
<1>3. ASSUME NEW b \in Held(fl, entry, fs) PROVE b \in used \/ b \in own
  <2>1. CASE b \in used
    BY <2>1
  <2>2. CASE b \notin used
    <3>1. PICK k \in Handles : Writes(fs[k]) /\ fs[k].pos = 0 /\ b = fs[k].block
      BY <1>2, <2>2
    <3>2. k = h
      BY <3>1 DEF OthersWrote
    <3> QED BY <3>1, <3>2 DEF Blank
  <2> QED BY <2>1, <2>2
<1>4. Vacants(fr2) \cap used = {}
  <2>1. Vacants(fr) \cap Held(fl, entry, fs) = {} /\ WindowType(fr)
    BY DEF World
  <2>2. Inline \notin Vacants(fr2)
    <3>1. PICK B \in Nat \ {0} : B = BlockCount
      BY BlockCountAssumption
    <3>2. ASSUME NEW v \in Vacants(fr2) PROVE v \in 0..B - 1
      <4>1. PICK n \in (fr2.i..fr2.size - 1) \ fr2.taken : v = (fr2.off + n) % B
        BY <3>1 DEF Vacants
      <4>2. fr2.off + n \in Nat
        BY <4>1 DEF WindowType, Windows
      <4> QED BY <4>1, <4>2, ModIs
    <3> QED BY <3>1, <3>2 DEF Inline
  <2> QED BY <1>2, <2>1, <2>2
<1>5. /\ a.block \in Blocks \cup {None}
      /\ WindowType(a.free) /\ Eager(a.free)
      /\ Vacants(a.free) \cap used = {}
      /\ a.block # None => a.block \notin used /\ a.block \notin Vacants(a.free)
      /\ a.block = None => Vacants(a.free) = {}
      /\ Eager(fr2) /\ fr2.ack = BlockCount /\ a.block = None => a.full
  BY <1>1, <1>2, <1>4, AllocIs
<1> QED BY <1>3, <1>5

(* The bytes of a truncation: cut off, or filled up with zeros.            *)
LEMMA ResizedIs ==
    ASSUME NEW s, NEW n
    PROVE  F(h0)!Resized(s, n) = [i \in 1..n |-> IF i <= Len(s) THEN s[i] ELSE 0]
BY DEF F!Resized

(* Truncating to the size there is changes nothing.                        *)
LEMMA ResizedToItself ==
    ASSUME NEW s \in Seq(Int)
    PROVE  F(h0)!Resized(s, Len(s)) = s
<1>1. PICK n \in Nat : n = Len(s) /\ s = [i \in 1..n |-> s[i]]
  OBVIOUS
<1>2. F(h0)!Resized(s, n) = [i \in 1..n |-> IF i <= n THEN s[i] ELSE 0]
  <2>1. F(h0)!Resized(s, n) = [i \in 1..n |-> IF i <= Len(s) THEN s[i] ELSE 0]
    BY ResizedIs
  <2> QED BY <1>1, <2>1
<1>3. \A i \in 1..n : i <= n
  OBVIOUS
<1> QED BY <1>1, <1>2, <1>3

(* A block that fails is replaced by another, or none is found.            *)
(* The files with another record for one of them.                          *)
With(fs, h, f) == [fs EXCEPT ![h] = f]

(* A relocation writes the file's last block elsewhere with the same       *)
(* bytes, or finds no block and changes nothing.                           *)
LEMMA RelocationIs ==
    ASSUME NEW fl, NEW fr, NEW f, NEW fs, fs = With(files, h0, f), h0 \in Handles,
           files \in [Handles -> FileSet],
           World(fl, entry, fs, fr), SameEntries(fl), OthersWrote(fs, h0), Writes(f),
           NEW r, r = Relocation(fl, fr, f)
    PROVE  /\ r.block \in Blocks \cup {None}
           /\ r.block = None => /\ r.flash = fl /\ r.file = f
                                /\ World(fl, entry, fs, r.free)
           /\ r.block # None =>
                /\ r.file \in OpenFiles /\ Writes(r.file) /\ SameFile(r.file, f)
                /\ r.file.block = r.block /\ r.file.pos = f.pos /\ r.file.off = f.off
                /\ r.file.erred = f.erred
                /\ World(r.flash, entry, With(files, h0, r.file), r.free)
                /\ Bytes(r.flash, r.block, f.pos) = Bytes(fl, f.block, f.pos)
                /\ \A x \in Held(fl, entry, Unwritten(fs, h0)) : r.flash[x] = fl[x]
<1>1. fs[h0] = f /\ f.open /\ ~f.inl /\ f.writing
  BY DEF Writes, With
<1>2. /\ f \in OpenFiles /\ Keeps(fl, entry[h0], f) /\ FlashType(fl)
      /\ WindowType(fr) /\ Eager(fr) /\ Vacants(fr) \cap Held(fl, entry, fs) = {}
  <2>1. PICK h \in Handles : h = h0
    OBVIOUS
  <2>2. /\ fs[h] \in FileSet /\ Keeps(fl, entry[h], fs[h]) /\ FlashType(fl)
        /\ WindowType(fr) /\ Eager(fr) /\ Vacants(fr) \cap Held(fl, entry, fs) = {}
    BY <2>1 DEF World
  <2>3. f \in FileSet /\ Keeps(fl, entry[h0], f)
    BY <1>1, <2>1, <2>2
  <2>4. f \in OpenFiles
    BY <1>1, <2>3 DEF FileSet, Closed
  <2> QED BY <2>2, <2>3, <2>4
<1>3. TailKeeps(fl, f) /\ RecordKeeps(f)
  BY <1>2 DEF Keeps
<1>4. PICK a : a = Alloc(fr, Used(fl, fs))
  OBVIOUS
<1>5. PICK own : /\ own = Blank(fs, h0) /\ own \subseteq {f.block}
                 /\ \A x \in own : f.pos = 0 /\ x = f.block
  <2>1. PICK x : x = Blank(fs, h0)
    OBVIOUS
  <2>2. x = IF Writes(f) /\ f.pos = 0 THEN {f.block} ELSE {}
    BY <1>1, <2>1 DEF Blank
  <2> QED BY <2>1, <2>2
<1>6. /\ a.block \in Blocks \cup {None}
      /\ WindowType(a.free) /\ Eager(a.free)
      /\ Vacants(a.free) \cap Held(fl, entry, fs) \subseteq own
      /\ a.block # None => /\ a.block \in Held(fl, entry, fs) => a.block \in own
                           /\ a.block \notin Vacants(a.free)
      /\ a.block = None => Vacants(a.free) = {}
  <2>1. PICK h \in Handles : h = h0 /\ OthersWrote(fs, h) /\ own = Blank(fs, h)
    BY <1>5
  <2> QED BY <1>2, <1>4, <2>1, AllocatedIs
<1>7. /\ r.free = a.free /\ r.block = a.block
      /\ r.flash = IF a.block = None THEN fl
                   ELSE [fl EXCEPT ![a.block] =
                            [heads |-> fl[f.block].heads,
                             data |-> F(h0)!Resized(fl[f.block].data, f.off)]]
      /\ r.file = IF a.block = None THEN f
                  ELSE [f EXCEPT !.block = a.block, !.writing = TRUE]
  <2>1. Alloc(fr, Used(fl, [files EXCEPT ![h0] = f])) = a
    BY <1>4 DEF With
  <2> QED BY <1>1, <2>1 DEF Relocation
<1>8. CASE a.block = None
  <2>1. Vacants(a.free) \cap Held(fl, entry, fs) = {}
    BY <1>6, <1>8
  <2>2. World(fl, entry, fs, a.free)
    BY <1>6, <2>1 DEF World
  <2> QED BY <1>6, <1>7, <1>8, <2>2
<1>9. CASE a.block # None
  <2>1. PICK b \in Blocks : b = a.block
    BY <1>6, <1>9
  <2>2. f.block \in Blocks /\ fl[f.block] \in [heads : Seq(Blocks), data : Seq(Int)]
        /\ Len(fl[f.block].data) = f.off
    <3>1. f.block \in Blocks
      BY <1>1, <1>3 DEF TailKeeps, Writes
    <3>2. f.pos = 0 \/ f.pos > 0
      BY <1>2 DEF OpenFiles
    <3>3. f.pos = 0 => f.off = 0 /\ fl[f.block] = [heads |-> <<>>, data |-> <<>>]
      BY <1>3 DEF TailKeeps
    <3>4. f.pos = 0 => Len(fl[f.block].data) = f.off
      <4>1. [heads |-> <<>>, data |-> <<>>].data = <<>> /\ Len(<<>>) = 0
        OBVIOUS
      <4> QED BY <3>3, <4>1
    <3>5. f.pos > 0 => Len(fl[f.block].data) = f.off
      BY <1>3 DEF TailKeeps
    <3> QED BY <1>2, <3>1, <3>2, <3>4, <3>5 DEF FlashType
  <2>3. PICK fl2 : fl2 = r.flash /\ fl2 = Copied(fl, f.block, b)
    <3>1. PICK w \in Seq(Blocks), d \in Seq(Int) : fl[f.block] = [heads |-> w, data |-> d]
      BY <2>2
    <3>2. fl[f.block].heads = w /\ fl[f.block].data = d
      BY <3>1
    <3>3. F(h0)!Resized(d, f.off) = d
      BY <2>2, <3>2, ResizedToItself
    <3>4. r.flash = [fl EXCEPT ![b] = [heads |-> w, data |-> d]]
      BY <1>7, <1>9, <2>1, <3>2, <3>3
    <3> QED BY <3>1, <3>4 DEF Copied
  <2>4. PICK f2 : f2 = r.file /\ f2 = [f EXCEPT !.block = b, !.writing = TRUE]
    BY <1>7, <1>9, <2>1
  <2>5. /\ f2 \in OpenFiles /\ f2.open /\ f2.writing /\ ~f2.inl /\ f2.block = b
        /\ f2.pos = f.pos /\ f2.off = f.off /\ f2.append = f.append /\ f2.size = f.size
        /\ SameFile(f2, f) /\ f2.erred = f.erred
    <3>1. f2 \in OpenFiles
      <4>1. b \in Blocks \cup {None, Inline} /\ f2 = [f EXCEPT !.block = b, !.writing = TRUE]
        BY <2>4
      <4> QED BY <1>2, <4>1 DEF OpenFiles
    <3>2. /\ f2.block = b /\ f2.writing /\ f2.open = f.open /\ f2.inl = f.inl /\ f2.pos = f.pos
          /\ f2.off = f.off /\ f2.append = f.append /\ f2.size = f.size /\ f2.head = f.head
          /\ f2.dirty = f.dirty /\ f2.cache = f.cache /\ f2.erred = f.erred
      BY <1>2, <2>4 DEF OpenFiles
    <3> QED BY <1>1, <3>1, <3>2 DEF SameFile
  <2>6. Writes(f2)
    BY <2>5 DEF Writes
  <2>7. b \notin Traverse(fl, f.block, f.pos)
    <3>1. CASE f.pos = 0
      BY <3>1, NoList
    <3>2. CASE f.pos # 0
      <4>1. b \notin Held(fl, entry, fs)
        BY <1>5, <1>6, <1>9, <2>1, <3>2
      <4>2. b \notin TailOf(fl, f)
        BY <1>1, <4>1, HeldIs
      <4> QED BY <4>2 DEF TailOf
    <3> QED BY <3>1, <3>2
  <2>8. /\ FlashType(fl2)
        /\ \A x \in Blocks : x # b => fl2[x] = fl[x]
        /\ TailKeeps(fl2, f2)
        /\ TailOf(fl2, f2) \subseteq TailOf(fl, f) \cup {b}
        /\ Bytes(fl2, b, f.pos) = Bytes(fl, f.block, f.pos)
    BY <1>2, <1>3, <2>3, <2>5, <2>6, <2>7, CopyIs
  <2>9. PICK us : /\ us = Unwritten(fs, h0) /\ f.block \notin Held(fl, entry, us)
                  /\ Held(fl, entry, us) \subseteq Held(fl, entry, fs)
                  /\ World(fl, entry, us, fr)
    <3>1. Vacants(fr) \subseteq Vacants(fr)
      OBVIOUS
    <3>2. PICK h \in Handles : h = h0 /\ fs[h] = f
      BY <1>1
    <3>3. /\ World(fl, entry, Unwritten(fs, h), fr)
          /\ Held(fl, entry, Unwritten(fs, h)) \subseteq Held(fl, entry, fs)
          /\ fs[h].block \notin Held(fl, entry, Unwritten(fs, h))
      <4>1. fs[h].open /\ ~fs[h].inl /\ Writes(fs[h]) /\ WindowType(fr) /\ Eager(fr)
        BY <1>1, <1>2, <3>2
      <4> QED BY <3>1, <4>1, UnwrittenIs
    <3> QED BY <3>2, <3>3
  <2>10. b \notin Held(fl, entry, us)
    BY <1>1, <1>5, <1>6, <1>9, <2>1, <2>9
  <2>11. Held(fl, entry, us) \subseteq Blocks
    <3> SUFFICES ASSUME NEW x \in Held(fl, entry, us) PROVE x \in Blocks
      OBVIOUS
    <3>1. PICK k \in Handles : x \in EntryOf(fl, entry[k]) \cup HeadOf(fl, us[k]) \cup TailOf(fl, us[k])
      BY HeldIs
    <3>2. Keeps(fl, entry[k], us[k])
      BY <2>9 DEF World
    <3> QED BY <1>2, <3>1, <3>2, PiecesAreBlocks
  <2>12. \A x \in Held(fl, entry, us) : fl2[x] = fl[x]
    BY <2>8, <2>10, <2>11
  <2>13. \A x \in TailOf(fl2, f2) : x \in Pieces(fl, entry[h0], fs[h0]) \/ x \notin Held(fl, entry, fs)
    <3>1. b \in Held(fl, entry, fs) => b = f.block
      BY <1>1, <1>5, <1>6, <1>9, <2>1
    <3>2. f.block \in TailOf(fl, f)
      BY DEF TailOf
    <3> QED BY <1>1, <2>8, <3>1, <3>2 DEF Pieces
  <2>14. Vacants(a.free) \cap (Held(fl, entry, us) \cup TailOf(fl2, f2)) = {}
    <3>1. own \subseteq {f.block} /\ b \notin Vacants(a.free)
      BY <1>5, <1>6, <1>9, <2>1
    <3>2. Vacants(a.free) \cap Held(fl, entry, us) = {}
      <4> SUFFICES ASSUME NEW x \in Held(fl, entry, us), x \in Vacants(a.free) PROVE FALSE
        OBVIOUS
      <4>1. x \in Held(fl, entry, fs)
        BY <2>9
      <4>2. x \in own
        BY <1>6, <4>1
      <4> QED BY <2>9, <3>1, <4>2
    <3>3. ASSUME NEW x \in TailOf(fl2, f2), x \in Vacants(a.free) PROVE FALSE
      <4>1. x # b /\ x \in TailOf(fl, f)
        BY <2>8, <3>1, <3>3
      <4>2. x \in Held(fl, entry, fs)
        BY <1>1, <4>1, HeldIs
      <4>3. x = f.block /\ f.pos = 0
        BY <1>1, <1>5, <1>6, <3>3, <4>2
      <4>4. TailOf(fl2, f2) = {b}
        BY <2>5, <2>6, <4>3, NoList DEF TailOf
      <4> QED BY <3>3, <4>1, <4>4
    <3> QED BY <3>2, <3>3
  <2>15. f2.append => f2.pos >= f2.size
    BY <1>1, <1>3, <2>5 DEF RecordKeeps
  <2>16. World(fl2, entry, [fs EXCEPT ![h0] = f2], a.free)
    BY <1>1, <1>6, <2>5, <2>6, <2>8, <2>9, <2>10, <2>12, <2>13, <2>14, <2>15, WorldWrites
  <2>17. [fs EXCEPT ![h0] = f2] = With(files, h0, f2)
    BY DEF With
  <2> QED BY <1>6, <1>7, <1>9, <2>1, <2>3, <2>4, <2>5, <2>6, <2>8, <2>9, <2>12, <2>16, <2>17
<1> QED BY <1>8, <1>9

-----------------------------------------------------------------------------
(* The units before the position.                                          *)
Precedes(f, s) ==
    /\ f.writing => s = Bytes(flash, f.block, f.pos)
    /\ ~f.writing => \A p \in 0..f.pos - 1 : s[p + 1] = Bytes(flash, f.head, f.size)[p + 1]

(* A file that a unit can be written to, behind the last one or in between.*)
CanWrite(f) ==
    /\ f.writing \/ f.pos <= f.size
    /\ f.append => f.pos >= f.size

(* An open file that left its entry has a block it writes, until it is     *)
(* flushed.                                                                *)
Outlined(f) == f.open /\ f.head = Inline /\ ~f.inl => f.writing

(* What is known when there is no block for the unit at the position, and  *)
(* when there is one, where s is what goes before it.                      *)
NoRoom(f, r) ==
    /\ r.full /\ r.flash = flash
    /\ WindowType(r.free) /\ Eager(r.free) /\ Vacants(r.free) = {}
    /\ \E last \in Blocks \cup {None, Inline} :
          /\ r.file = [f EXCEPT !.block = last]
          /\ f.writing => last = f.block

(* Room for a unit of f behind the bytes s.                                *)
RoomAfter(f, h, r, s) ==
    \E c : /\ HasRoom(r.flash, r.file, c, s) /\ Precedes(f, s)
           /\ Fits(flash, entry, files, h, r.flash, r.file, r.free, c)

(* Room for a unit of f.                                                   *)
NewRoom(f, h, r) == \E s : RoomAfter(f, h, r, s)

(* A file gets a block for the unit at the position, or none is free.      *)
LEMMA ExtensionIs ==
    ASSUME World(flash, entry, files, free), NEW h \in Handles, NEW f \in OpenFiles, f = files[h],
           ~f.inl, f.writing => f.off >= BlockSize, CanWrite(f), Outlined(f),
           OthersWrote(files, h), NEW r, r = Extension(f)
    PROVE  /\ r.block \in Blocks \cup {None}
           /\ r.block = None => NoRoom(f, r)
           /\ r.block # None =>
                /\ r.file = [f EXCEPT !.block = r.block, !.off = f.pos % BlockSize, !.writing = TRUE]
                /\ NewRoom(f, h, r)
<1>1. /\ Keeps(flash, entry[h], f) /\ FlashType(flash) /\ f.open
      /\ WindowType(free) /\ Eager(free) /\ Vacants(free) \cap Held(flash, entry, files) = {}
  BY DEF World, OpenFiles
<1>2. HeadKeeps(flash, f) /\ TailKeeps(flash, f) /\ f.pos \in Nat /\ f.size \in Nat
  BY <1>1 DEF Keeps, OpenFiles
<1>3. PICK fr : /\ fr = Acked(free) /\ WindowType(fr) /\ Eager(fr) /\ fr.ack = BlockCount
                /\ Vacants(fr) = Vacants(free)
  BY <1>1, AckedIs
<1>4. PICK a : a = Alloc(fr, Used(flash, files))
  OBVIOUS
<1>5. f.writing => f.pos > 0
  <2> SUFFICES ASSUME f.writing, f.pos = 0 PROVE FALSE
    BY <1>2
  <2>1. f.off = 0
    BY <1>1, <1>2 DEF TailKeeps, Writes
  <2> QED BY <2>1, BlockSizeAssumption
<1>6. /\ a.block \in Blocks \cup {None}
      /\ WindowType(a.free) /\ Eager(a.free)
      /\ Vacants(a.free) \cap Held(flash, entry, files) = {}
      /\ a.block # None => a.block \notin Held(flash, entry, files) /\ a.block \notin Vacants(a.free)
      /\ a.block = None => Vacants(a.free) = {} /\ a.full
  <2>1. PICK own : own = Blank(files, h)
    OBVIOUS
  <2>2. own = {}
    BY <1>2, <1>5, <2>1 DEF Blank, Writes
  <2>3. SameEntries(flash)
    BY DEF SameEntries
  <2>4. /\ a.block \in Blocks \cup {None}
        /\ WindowType(a.free) /\ Eager(a.free)
        /\ Vacants(a.free) \cap Held(flash, entry, files) \subseteq own
        /\ a.block # None => /\ a.block \in Held(flash, entry, files) => a.block \in own
                             /\ a.block \notin Vacants(a.free)
        /\ a.block = None => Vacants(a.free) = {}
        /\ Eager(fr) /\ fr.ack = BlockCount /\ a.block = None => a.full
    BY <1>3, <1>4, <2>1, <2>3, AllocatedIs
  <2> QED BY <1>3, <2>2, <2>4
<1>7. PICK last : last = IF ~f.writing /\ f.pos > 0 THEN Find(flash, f.head, f.size, f.pos - 1)
                         ELSE f.block
  OBVIOUS
<1>8. PICK new : new = NewBlock(flash, last, f.pos)
  OBVIOUS
<1>9. /\ r.free = a.free /\ r.block = a.block /\ r.full = a.full
      /\ r.flash = IF a.block = None THEN flash ELSE [flash EXCEPT ![a.block] = new]
      /\ r.file = IF a.block = None THEN [f EXCEPT !.block = last]
                  ELSE [f EXCEPT !.block = a.block, !.off = f.pos % BlockSize, !.writing = TRUE]
  BY <1>3, <1>4, <1>7, <1>8, Zenon DEF Extension, NewBlock
<1>10. /\ f.pos > 0 => HasList(flash, last, f.pos)
       /\ last \in Blocks \cup {None, Inline}
       /\ Traverse(flash, last, f.pos) \subseteq Pieces(flash, entry[h], f)
       /\ \E s : s = Bytes(flash, last, f.pos) /\ Precedes(f, s)
  <2>1. CASE f.writing
    <3>1. last = f.block /\ HasList(flash, f.block, f.pos) /\ f.block \in Blocks
      BY <1>1, <1>2, <1>5, <1>7, <2>1 DEF TailKeeps, Writes
    <3>2. Traverse(flash, last, f.pos) \subseteq TailOf(flash, f)
      BY <1>1, <2>1, <3>1 DEF TailOf, Writes
    <3> QED BY <2>1, <3>1, <3>2 DEF Pieces, Precedes
  <2>2. CASE ~f.writing /\ f.pos = 0
    <3>1. last = f.block /\ f.block \in Blocks \cup {None, Inline}
      <4>1. f.block \in Blocks \cup {None, Inline}
        BY DEF OpenFiles
      <4> QED BY <1>7, <2>2, <4>1
    <3>2. Traverse(flash, last, f.pos) = {}
      BY <2>2, NoList
    <3>3. \A p \in 0..f.pos - 1 : FALSE
      BY <2>2
    <3> QED BY <2>2, <3>1, <3>2, <3>3 DEF Precedes
  <2>3. CASE ~f.writing /\ f.pos > 0
    <3>1. f.head # Inline /\ f.pos \in 1..f.size /\ f.size > 0
      BY <1>1, <1>2, <2>3 DEF CanWrite, Outlined
    <3>2. PICK c : ListOf(flash, c, f.head, f.size)
      BY <1>1, <1>2, <3>1 DEF HeadKeeps, HasList
    <3>3. PICK x : x = c[Index(f.pos - 1)]
      OBVIOUS
    <3>4. /\ HasList(flash, x, f.pos)
          /\ Find(flash, f.head, f.size, f.pos - 1) = x
          /\ Traverse(flash, x, f.pos) \subseteq Traverse(flash, f.head, f.size)
          /\ \A p \in 0..f.pos - 1 : Bytes(flash, x, f.pos)[p + 1] = Bytes(flash, f.head, f.size)[p + 1]
      BY <1>1, <1>2, <3>1, <3>2, <3>3, FrontIs
    <3>5. last = x /\ x \in Blocks
      BY <1>7, <2>3, <3>4 DEF HasList
    <3>6. Traverse(flash, f.head, f.size) = HeadOf(flash, f)
      BY <1>1, <3>1 DEF HeadOf
    <3> QED BY <2>3, <3>4, <3>5, <3>6 DEF Pieces, Precedes
  <2> QED BY <1>2, <2>1, <2>2, <2>3
<1>11. CASE a.block = None
  <2>1. r.file = [f EXCEPT !.block = last] /\ (f.writing => last = f.block)
    BY <1>7, <1>9, <1>11
  <2>2. NoRoom(f, r)
    BY <1>6, <1>9, <1>10, <1>11, <2>1 DEF NoRoom
  <2> QED BY <1>6, <1>9, <1>11, <2>2
<1>12. CASE a.block # None
  <2>1. PICK b \in Blocks : b = a.block /\ b \notin Held(flash, entry, files) /\ b \notin Vacants(a.free)
    BY <1>6, <1>12
  <2>2. PICK fl2, f2 : /\ fl2 = r.flash /\ fl2 = Added(flash, b, new) /\ f2 = r.file
                       /\ f2 = [f EXCEPT !.block = b, !.off = f.pos % BlockSize, !.writing = TRUE]
    BY <1>9, <1>12, <2>1 DEF Added
  <2>3. PICK off \in 0..BlockSize - 1 : off = f.pos % BlockSize
    BY <1>2, IndexIs
  <2>4. f2 \in OpenFiles
    <3>1. off \in Nat /\ b \in Blocks \cup {None, Inline}
      BY <2>3
    <3>2. f2 = [f EXCEPT !.block = b, !.off = off, !.writing = TRUE]
      BY <2>2, <2>3
    <3> QED BY <3>1, <3>2 DEF OpenFiles
  <2>5. /\ f2.block = b /\ f2.writing /\ f2.open = f.open /\ f2.inl = f.inl /\ f2.pos = f.pos
        /\ f2.off = f.pos % BlockSize /\ f2.append = f.append /\ f2.size = f.size
        /\ f2.head = f.head /\ f2.dirty = f.dirty /\ f2.cache = f.cache
    BY <2>2 DEF OpenFiles
  <2>6. Writes(f2) /\ SameFile(f2, files[h]) /\ (f2.append => f2.pos >= f2.size)
    BY <1>1, <2>5 DEF Writes, SameFile, CanWrite
  <2>7. \A x \in Pieces(flash, entry[h], f) : x \in Held(flash, entry, files)
    BY PieceIsHeld
  <2>8. b \notin Traverse(flash, last, f.pos)
    BY <1>10, <2>1, <2>7
  <2>9. /\ FlashType(fl2)
        /\ \A x \in Blocks : x # b => fl2[x] = flash[x]
        /\ \E c : /\ HasRoom(fl2, f2, c, Bytes(flash, last, f.pos))
                  /\ OfList(c, Index(f.pos)) \subseteq Traverse(flash, last, f.pos) \cup {b}
    <3>1. fl2 = Added(flash, b, NewBlock(flash, last, f.pos)) /\ (f.pos > 0 => HasList(flash, last, f.pos))
      BY <1>8, <1>10, <2>2
    <3>2. PICK pos \in Nat : pos = f.pos
      BY <1>2
    <3>3. /\ FlashType(fl2)
          /\ \A x \in Blocks : x # b => fl2[x] = flash[x]
          /\ \E c : /\ HasRoom(fl2, f2, c, Bytes(flash, last, pos))
                    /\ OfList(c, Index(pos)) \subseteq Traverse(flash, last, pos) \cup {b}
      <4>1. /\ fl2 = Added(flash, b, NewBlock(flash, last, pos))
            /\ pos > 0 => HasList(flash, last, pos)
            /\ b \notin Traverse(flash, last, pos)
            /\ f2.pos = pos /\ f2.off = pos % BlockSize /\ f2.block = b
        BY <2>5, <2>8, <3>1, <3>2
      <4> QED BY <1>1, <2>4, <2>6, <3>2, <4>1, ExtendIs
    <3> QED BY <3>2, <3>3
  <2>10. PICK c : /\ HasRoom(fl2, f2, c, Bytes(flash, last, f.pos))
                  /\ OfList(c, Index(f.pos)) \subseteq Traverse(flash, last, f.pos) \cup {b}
    BY <2>9
  <2>11. PICK us : /\ us = Unwritten(files, h) /\ World(flash, entry, us, free)
                   /\ Held(flash, entry, us) \subseteq Held(flash, entry, files)
    <3>1. Vacants(free) \subseteq Vacants(free) /\ files[h].open /\ ~files[h].inl
      BY <1>1
    <3>2. /\ World(flash, entry, Unwritten(files, h), free)
          /\ Held(flash, entry, Unwritten(files, h)) \subseteq Held(flash, entry, files)
      BY <1>1, <3>1, UnwrittenIs
    <3> QED BY <3>2
  <2>12. \A x \in Held(flash, entry, us) : fl2[x] = flash[x]
    <3> SUFFICES ASSUME NEW x \in Held(flash, entry, us) PROVE fl2[x] = flash[x]
      OBVIOUS
    <3>1. PICK k \in Handles : x \in EntryOf(flash, entry[k]) \cup HeadOf(flash, us[k]) \cup TailOf(flash, us[k])
      BY HeldIs
    <3>2. Keeps(flash, entry[k], us[k])
      BY <2>11 DEF World
    <3>3. x \in Blocks
      BY <1>1, <3>1, <3>2, PiecesAreBlocks
    <3> QED BY <2>1, <2>9, <2>11, <3>3
  <2>13. \A x \in OfList(c, Index(f.pos)) :
            x \in Pieces(flash, entry[h], f) \/ x \notin Held(flash, entry, files)
    BY <1>10, <2>1, <2>10
  <2>14. Vacants(a.free) \cap (Held(flash, entry, us) \cup OfList(c, Index(f.pos))) = {}
    <3>1. \A x \in OfList(c, Index(f.pos)) : x = b \/ x \in Held(flash, entry, files)
      BY <1>10, <2>7, <2>10
    <3> QED BY <1>6, <2>1, <2>11, <3>1
  <2>15. Fits(flash, entry, files, h, fl2, f2, a.free, c)
    BY <1>6, <2>1, <2>4, <2>5, <2>6, <2>9, <2>11, <2>12, <2>13, <2>14 DEF Fits
  <2>16. PICK s : s = Bytes(flash, last, f.pos) /\ Precedes(f, s)
    BY <1>10
  <2>17. RoomAfter(f, h, r, s)
    BY <1>9, <2>2, <2>10, <2>15, <2>16 DEF RoomAfter
  <2> QED BY <1>6, <1>9, <1>12, <2>1, <2>2, <2>17 DEF NewRoom
<1> QED BY <1>11, <1>12

-----------------------------------------------------------------------------
(* Lists of phases, one behind the other.                                  *)
LEMMA HeadOfList ==
    /\ \A a : Head(<<a>>) = a /\ Tail(<<a>>) = <<>> /\ <<a>> # <<>>
    /\ \A a, b : Head(<<a, b>>) = a /\ Tail(<<a, b>>) = <<b>> /\ <<a, b>> # <<>>
    /\ \A a, b, c : Head(<<a, b, c>>) = a /\ Tail(<<a, b, c>>) = <<b, c>> /\ <<a, b, c>> # <<>>
    /\ \A a, b, c, d : /\ Head(<<a, b, c, d>>) = a /\ Tail(<<a, b, c, d>>) = <<b, c, d>>
                       /\ <<a, b, c, d>> # <<>>
    /\ \A a, b, c, d, e : /\ Head(<<a, b, c, d, e>>) = a /\ Tail(<<a, b, c, d, e>>) = <<b, c, d, e>>
                          /\ <<a, b, c, d, e>> # <<>>
OBVIOUS

(* Putting together short sequences, as the phases of a call are: none and *)
(* some,                                                                   *)
LEMMA JoinedToNone ==
    /\ \A a : <<>> \o <<a>> = <<a>> /\ <<a>> \o <<>> = <<a>>
    /\ \A a, b : <<>> \o <<a, b>> = <<a, b>>
<1>1. \A a : <<>> \o <<a>> = <<a>> /\ <<a>> \o <<>> = <<a>>
  OBVIOUS
<1>2. ASSUME NEW a, NEW b PROVE <<>> \o <<a, b>> = <<a, b>>
  <2>1. PICK S : S = {a, b}
    OBVIOUS
  <2>2. PICK t : t = <<a, b>>
    OBVIOUS
  <2>3. t \in Seq(S)
    BY <2>1, <2>2
  <2>4. <<>> \o t = t
    BY <2>3, EmptySeq, ConcatSimplifications
  <2> QED BY <2>2, <2>4
<1> QED BY <1>1, <1>2

(* in general,                                                             *)
LEMMA JoinedIs ==
    ASSUME NEW S, NEW s \in Seq(S), NEW t \in Seq(S), NEW u \in Seq(S),
           Len(u) = Len(s) + Len(t), \A i \in 1..Len(s) : u[i] = s[i],
           \A i \in 1..Len(t) : u[Len(s) + i] = t[i]
    PROVE  s \o t = u
<1>1. PICK m \in Nat, n \in Nat : m = Len(s) /\ n = Len(t)
  OBVIOUS
<1>2. /\ s \o t \in Seq(S) /\ Len(s \o t) = m + n
      /\ \A q \in 1..m + n : (s \o t)[q] = IF q <= m THEN s[q] ELSE t[q - m]
  BY <1>1, ConcatIs
<1>3. PICK v \in Seq(S) : v = s \o t
  BY <1>2
<1>4. ASSUME NEW p \in 0..m + n - 1 PROVE v[p + 1] = u[p + 1]
  <2>1. CASE p + 1 <= m
    BY <1>1, <1>2, <1>3, <2>1
  <2>2. CASE p + 1 > m
    <3>1. PICK i \in 1..n : i = (p + 1) - m /\ m + i = p + 1
      BY <2>2
    <3>2. v[p + 1] = t[i]
      BY <1>2, <1>3, <2>2, <3>1
    <3> QED BY <1>1, <3>1, <3>2
  <2> QED BY <2>1, <2>2
<1>5. Len(v) = m + n /\ Len(u) = m + n
  BY <1>1, <1>2, <1>3
<1>6. PICK k \in Nat : k = m + n
  OBVIOUS
<1>7. v = u
  <2>1. \A p \in 0..k - 1 : v[p + 1] = u[p + 1]
    BY <1>4, <1>6
  <2>2. Len(v) = k /\ Len(u) = k
    BY <1>5, <1>6
  <2> QED BY <2>1, <2>2, SameUnits
<1> QED BY <1>3, <1>7

(* one and one,                                                            *)
LEMMA TwoJoined == \A a, b : <<a>> \o <<b>> = <<a, b>>
<1> SUFFICES ASSUME NEW a, NEW b PROVE <<a>> \o <<b>> = <<a, b>>
  OBVIOUS
<1>1. PICK S : S = {a, b}
  OBVIOUS
<1>2. PICK s : s = <<a>>
  OBVIOUS
<1>3. PICK t : t = <<b>>
  OBVIOUS
<1>4. PICK u : u = <<a, b>>
  OBVIOUS
<1>5. s \in Seq(S) /\ t \in Seq(S) /\ u \in Seq(S) /\ Len(s) = 1 /\ Len(t) = 1 /\ Len(u) = 2
  BY <1>1, <1>2, <1>3, <1>4
<1>6. u[1] = s[1] /\ u[2] = t[1]
  BY <1>2, <1>3, <1>4
<1>7. s \o t = u
  <2>1. /\ \A i \in 1..Len(s) : u[i] = s[i]
        /\ \A i \in 1..Len(t) : u[Len(s) + i] = t[i]
    BY <1>5, <1>6
  <2>2. Len(u) = Len(s) + Len(t)
    BY <1>5
  <2> QED BY <1>5, <2>1, <2>2, JoinedIs
<1> QED BY <1>2, <1>3, <1>4, <1>7

(* three,                                                                  *)
LEMMA ThreeJoined == \A a, b, c : <<a>> \o <<b, c>> = <<a, b, c>> /\ <<a, b>> \o <<c>> = <<a, b, c>>
<1> SUFFICES ASSUME NEW a, NEW b, NEW c
             PROVE <<a>> \o <<b, c>> = <<a, b, c>> /\ <<a, b>> \o <<c>> = <<a, b, c>>
  OBVIOUS
<1>1. PICK S : S = {a, b, c}
  OBVIOUS
<1>2. PICK s : s = <<a>>
  OBVIOUS
<1>3. PICK t : t = <<b, c>>
  OBVIOUS
<1>4. PICK u : u = <<a, b, c>>
  OBVIOUS
<1>5. s \in Seq(S) /\ t \in Seq(S) /\ u \in Seq(S) /\ Len(s) = 1 /\ Len(t) = 2 /\ Len(u) = 3
  BY <1>1, <1>2, <1>3, <1>4
<1>6. u[1] = s[1] /\ u[2] = t[1] /\ u[3] = t[2]
  BY <1>2, <1>3, <1>4
<1>7. s \o t = u
  <2>1. /\ \A i \in 1..Len(s) : u[i] = s[i]
        /\ \A i \in 1..Len(t) : u[Len(s) + i] = t[i]
    BY <1>5, <1>6
  <2>2. Len(u) = Len(s) + Len(t)
    BY <1>5
  <2> QED BY <1>5, <2>1, <2>2, JoinedIs
<1>8. PICK v : v = <<a, b>>
  OBVIOUS
<1>9. PICK w : w = <<c>>
  OBVIOUS
<1>10. v \in Seq(S) /\ w \in Seq(S) /\ Len(v) = 2 /\ Len(w) = 1
  BY <1>1, <1>8, <1>9
<1>11. u[1] = v[1] /\ u[2] = v[2] /\ u[3] = w[1]
  BY <1>4, <1>8, <1>9
<1>12. v \o w = u
  <2>1. /\ \A i \in 1..Len(v) : u[i] = v[i]
        /\ \A i \in 1..Len(w) : u[Len(v) + i] = w[i]
    BY <1>10, <1>11
  <2>2. Len(u) = Len(v) + Len(w)
    BY <1>5, <1>10
  <2> QED BY <1>5, <1>10, <2>1, <2>2, JoinedIs
<1> QED BY <1>2, <1>3, <1>4, <1>7, <1>8, <1>9, <1>12

(* four,                                                                   *)
LEMMA FourJoined == \A a, b, c, d : <<a, b>> \o <<c, d>> = <<a, b, c, d>>
<1> SUFFICES ASSUME NEW a, NEW b, NEW c, NEW d PROVE <<a, b>> \o <<c, d>> = <<a, b, c, d>>
  OBVIOUS
<1>1. PICK S : S = {a, b, c, d}
  OBVIOUS
<1>2. PICK s : s = <<a, b>>
  OBVIOUS
<1>3. PICK t : t = <<c, d>>
  OBVIOUS
<1>4. PICK u : u = <<a, b, c, d>>
  OBVIOUS
<1>5. s \in Seq(S) /\ t \in Seq(S) /\ u \in Seq(S) /\ Len(s) = 2 /\ Len(t) = 2 /\ Len(u) = 4
  BY <1>1, <1>2, <1>3, <1>4
<1>6. u[1] = s[1] /\ u[2] = s[2] /\ u[3] = t[1] /\ u[4] = t[2]
  BY <1>2, <1>3, <1>4
<1>7. s \o t = u
  <2>1. /\ \A i \in 1..Len(s) : u[i] = s[i]
        /\ \A i \in 1..Len(t) : u[Len(s) + i] = t[i]
    BY <1>5, <1>6
  <2>2. Len(u) = Len(s) + Len(t)
    BY <1>5
  <2> QED BY <1>5, <2>1, <2>2, JoinedIs
<1> QED BY <1>2, <1>3, <1>4, <1>7

(* and five.                                                               *)
LEMMA FiveJoined == \A a, b, c, d, e : <<a, b, c>> \o <<d, e>> = <<a, b, c, d, e>>
<1> SUFFICES ASSUME NEW a, NEW b, NEW c, NEW d, NEW e
             PROVE <<a, b, c>> \o <<d, e>> = <<a, b, c, d, e>>
  OBVIOUS
<1>1. PICK S : S = {a, b, c, d, e}
  OBVIOUS
<1>2. PICK s : s = <<a, b, c>>
  OBVIOUS
<1>3. PICK t : t = <<d, e>>
  OBVIOUS
<1>4. PICK u : u = <<a, b, c, d, e>>
  OBVIOUS
<1>5. s \in Seq(S) /\ t \in Seq(S) /\ u \in Seq(S) /\ Len(s) = 3 /\ Len(t) = 2 /\ Len(u) = 5
  BY <1>1, <1>2, <1>3, <1>4
<1>6. u[1] = s[1] /\ u[2] = s[2] /\ u[3] = s[3] /\ u[4] = t[1] /\ u[5] = t[2]
  BY <1>2, <1>3, <1>4
<1>7. s \o t = u
  <2>1. /\ \A i \in 1..Len(s) : u[i] = s[i]
        /\ \A i \in 1..Len(t) : u[Len(s) + i] = t[i]
    BY <1>5, <1>6
  <2>2. Len(u) = Len(s) + Len(t)
    BY <1>5
  <2> QED BY <1>5, <2>1, <2>2, JoinedIs
<1> QED BY <1>2, <1>3, <1>4, <1>7

-----------------------------------------------------------------------------
(* The phases that calls are made of.                                      *)
Ends(ph) == Head(ph).do = "Move" /\ Head(ph).to \in Nat /\ Tail(ph) = <<>>

(* a flush of what was filled, and the seek back,                          *)
Returns(ph) ==
    /\ Head(ph).do = "Flush" /\ Head(ph).back \in Nat
    /\ Tail(ph) # <<>> /\ Ends(Tail(ph))

(* the units of a write,                                                   *)
Puts(ph) ==
    /\ Head(ph).do = "Put" /\ Head(ph).val \in Int /\ Head(ph).n \in Nat \ {0}
    /\ Tail(ph) = <<>>

(* zeros up to where the write begins or the file shall end,               *)
Fills(ph, pos) ==
    /\ Head(ph).do = "Fill" /\ Head(ph).to \in Nat /\ pos <= Head(ph).to
    /\ Tail(ph) # <<>> /\ (Puts(Tail(ph)) \/ Returns(Tail(ph)))

(* the cut of a truncation,                                                *)
Cuts(ph, size, inl) ==
    /\ Head(ph).do = "Cut" /\ Head(ph).to \in Nat /\ Head(ph).to < size
    /\ inl \/ Head(ph).to = 0 \/ (Head(ph).to % BlockSize) # 0
    /\ Tail(ph) # <<>> /\ Returns(Tail(ph))

(* a truncation to a larger size.                                          *)
Grows(ph, size) ==
    /\ Head(ph).do = "Move" /\ Head(ph).to = size
    /\ Tail(ph) # <<>> /\ Fills(Tail(ph), size)

(* What is left to do for a file that nothing is written to.               *)
Settled(ph, size, inl) ==
    \/ Head(ph).do \in {"Get", "Leave"} /\ Tail(ph) = <<>>
    \/ ph = <<Store>> \/ ph = <<Store, Leave>>
    \/ Ends(ph) \/ Cuts(ph, size, inl) \/ Grows(ph, size)

(* The size that a flush leaves.                                           *)
FinalSize(f) == IF f.writing THEN Longer(f.pos, f.size) ELSE f.size

(* The phases that are left fit the file.                                  *)
Shaped(f, ph) ==
    \/ ~f.writing /\ Settled(ph, f.size, f.inl)
    \/ /\ Head(ph).do = "Flush" /\ Head(ph).back \in Nat
       /\ Tail(ph) # <<>> /\ Settled(Tail(ph), FinalSize(f), f.inl)
    \/ CanWrite(f) /\ (Puts(ph) \/ Fills(ph, f.pos))

(* A block is empty only until the unit it was taken for is programmed.    *)
Starts(ph, f) ==
    \/ Head(ph).do = "Put"
    \/ Head(ph).do = "Fill" /\ Head(ph).to > 0
    \/ Head(ph).do = "Flush" /\ f.size = 0

(* A block without a byte belongs to the call under way, which writes the  *)
(* first one before anything else.                                         *)
BlankKeeps(fs, c) ==
    \A h \in Handles : Writes(fs[h]) /\ fs[h].pos = 0 =>
        c # NoCall /\ c.h = h /\ Starts(c.phases, fs[h])

(* The call under way is of an open file that its phases fit.              *)
CallKeeps(fs, c) ==
    c # NoCall =>
        /\ c.h \in Handles /\ c = [h |-> c.h, phases |-> c.phases] /\ c.phases # <<>>
        /\ fs[c.h].open /\ Shaped(fs[c.h], c.phases)

(* The inductive invariant, of any state.                                  *)
State(fl, es, fs, fr, c, m, n) ==
    /\ World(fl, es, fs, fr)
    /\ \A h \in Handles : Outlined(fs[h])
    /\ BlankKeeps(fs, c) /\ CallKeeps(fs, c)
    /\ ~m /\ n \in Nat

(* The inductive invariant of the careful caller.                          *)
Inv == Careful /\ State(flash, entry, files, free, call, missed, ops)

(* A step of the call that leaves the file so, and phases or none.         *)
GoneOn(phases) == IF phases # <<>> THEN [call EXCEPT !.phases = phases] ELSE NoCall

(* A step of a call keeps the invariant if the file it leaves fits the     *)
(* phases that are left.                                                   *)
LEMMA GoesOn ==
    ASSUME Inv, call # NoCall,
           NEW fl, NEW es, NEW fr, NEW f2 \in OpenFiles, Outlined(f2),
           NEW fs, fs = [files EXCEPT ![h0] = f2], World(fl, es, fs, fr),
           NEW phases, phases = <<>> => (Writes(f2) => f2.pos > 0),
           phases # <<>> => Shaped(f2, phases) /\ (Writes(f2) /\ f2.pos = 0 => Starts(phases, f2)),
           NEW c2, c2 = GoneOn(phases)
    PROVE  State(fl, es, fs, fr, c2, FALSE, ops)
<1>1. h0 \in Handles /\ call = [h |-> h0, phases |-> call.phases] /\ ops \in Nat /\ ~FALSE
  BY DEF Inv, State, CallKeeps, h0
<1>2. files \in [Handles -> FileSet] /\ \A h \in Handles : Outlined(files[h])
  BY DEF Inv, State, World
<1>3. fs[h0] = f2 /\ \A h \in Handles : h # h0 => fs[h] = files[h]
  BY <1>1, <1>2
<1>4. \A h \in Handles : Outlined(fs[h])
  BY <1>2, <1>3
<1>5. f2.open
  BY DEF OpenFiles
<1>6. ASSUME NEW h \in Handles, h # h0 PROVE ~(Writes(fs[h]) /\ fs[h].pos = 0)
  <2>1. ~(Writes(files[h]) /\ files[h].pos = 0)
    BY <1>6 DEF Inv, State, BlankKeeps, h0
  <2> QED BY <1>3, <1>6, <2>1
<1>7. CASE phases # <<>>
  <2>1. c2 = [h |-> h0, phases |-> phases]
    BY <1>1, <1>7 DEF GoneOn
  <2>2. c2 # NoCall /\ c2.h = h0 /\ c2.phases = phases
    <3>1. h0 # None
      BY <1>1, HandlesAssumption DEF None
    <3> QED BY <2>1, <3>1 DEF NoCall
  <2>3. BlankKeeps(fs, c2)
    BY <1>3, <1>6, <1>7, <2>2 DEF BlankKeeps
  <2>4. CallKeeps(fs, c2)
    BY <1>1, <1>3, <1>5, <1>7, <2>1, <2>2 DEF CallKeeps
  <2> QED BY <1>1, <1>4, <2>3, <2>4 DEF State
<1>8. CASE phases = <<>>
  <2>1. c2 = NoCall
    BY <1>8 DEF GoneOn
  <2>2. ~(Writes(f2) /\ f2.pos = 0)
    BY <1>8
  <2>3. BlankKeeps(fs, c2)
    BY <1>3, <1>6, <2>2 DEF BlankKeeps
  <2>4. CallKeeps(fs, c2)
    BY <2>1 DEF CallKeeps
  <2> QED BY <1>1, <1>4, <2>3, <2>4 DEF State
<1> QED BY <1>7, <1>8

(* A closed file keeps no more than an open one.                           *)
LEMMA WorldClosed ==
    ASSUME NEW fl, NEW es, NEW fs, NEW fr, World(fl, es, fs, fr), NEW h \in Handles
    PROVE  World(fl, es, [fs EXCEPT ![h] = Closed], fr)
<1>1. PICK e2 : e2 = es[h]
  OBVIOUS
<1>2. PICK f2 : f2 = Closed
  OBVIOUS
<1>3. Keeps(fl, es[h], fs[h]) /\ es \in [Handles -> Entries] /\ WindowType(fr) /\ Eager(fr)
  BY DEF World
<1>4. ~f2.open /\ ~Writes(f2) /\ f2 \in FileSet
  BY <1>2 DEF Closed, Writes, FileSet
<1>5. Keeps(fl, e2, f2)
  BY <1>1, <1>3, <1>4 DEF Keeps, HeadKeeps, TailKeeps, RecordKeeps, Clean
<1>6. Pieces(fl, e2, f2) \subseteq Pieces(fl, es[h], fs[h])
  BY <1>1, <1>4 DEF Pieces, HeadOf, TailOf
<1>7. World(fl, [es EXCEPT ![h] = e2], [fs EXCEPT ![h] = f2], fr)
  BY <1>3, <1>4, <1>5, <1>6, WorldLess
<1>8. [es EXCEPT ![h] = e2] = es
  BY <1>1, <1>3
<1> QED BY <1>2, <1>7, <1>8

(* A step of the call with which it fails.                                 *)
LEMMA GivesUp ==
    ASSUME Inv, call # NoCall,
           NEW fl, NEW es, NEW fr, NEW f2 \in OpenFiles, Outlined(f2), Writes(f2) => f2.pos > 0,
           NEW gs, gs = [files EXCEPT ![h0] = f2], World(fl, es, gs, fr),
           NEW fs, fs \in {gs, [files EXCEPT ![h0] = Closed]}
    PROVE  State(fl, es, fs, fr, NoCall, FALSE, ops)
<1>1. h0 \in Handles /\ ops \in Nat /\ ~FALSE
  BY DEF Inv, State, CallKeeps, h0
<1>2. files \in [Handles -> FileSet] /\ \A h \in Handles : Outlined(files[h])
  BY DEF Inv, State, World
<1>3. World(fl, es, fs, fr)
  <2>1. CASE fs = gs
    BY <2>1
  <2>2. CASE fs = [files EXCEPT ![h0] = Closed]
    <3>1. World(fl, es, [gs EXCEPT ![h0] = Closed], fr)
      BY <1>1, WorldClosed
    <3>2. [gs EXCEPT ![h0] = Closed] = fs
      BY <1>1, <1>2, <2>2
    <3> QED BY <3>1, <3>2
  <2> QED BY <2>1, <2>2
<1>4. fs[h0] \in {f2, Closed} /\ \A h \in Handles : h # h0 => fs[h] = files[h]
  BY <1>1, <1>2
<1>5. \A h \in Handles : Outlined(fs[h])
  BY <1>2, <1>4 DEF Outlined, Closed
<1>6. BlankKeeps(fs, NoCall)
  <2>1. ASSUME NEW h \in Handles, h # h0 PROVE ~(Writes(fs[h]) /\ fs[h].pos = 0)
    <3>1. ~(Writes(files[h]) /\ files[h].pos = 0)
      BY <2>1 DEF Inv, State, BlankKeeps, h0
    <3> QED BY <1>4, <2>1, <3>1
  <2>2. ~(Writes(fs[h0]) /\ fs[h0].pos = 0)
    BY <1>4 DEF Writes, Closed
  <2> QED BY <2>1, <2>2 DEF BlankKeeps
<1>7. CallKeeps(fs, NoCall)
  BY DEF CallKeeps
<1> QED BY <1>1, <1>3, <1>5, <1>6, <1>7 DEF State

-----------------------------------------------------------------------------
(* What is known of the file of the call under way.                        *)
LEMMA AtWork ==
    ASSUME Inv, call # NoCall
    PROVE  /\ Careful /\ ~missed /\ ops \in Nat
           /\ h0 \in Handles /\ file = files[h0] /\ file \in OpenFiles
           /\ call.phases # <<>> /\ First = Head(call.phases) /\ Others = Tail(call.phases)
           /\ call = [h |-> h0, phases |-> call.phases]
           /\ World(flash, entry, files, free) /\ files \in [Handles -> FileSet]
           /\ entry \in [Handles -> Entries]
           /\ Keeps(flash, entry[h0], file) /\ RecordKeeps(file) /\ TailKeeps(flash, file)
           /\ Outlined(file) /\ OthersWrote(files, h0)
           /\ Shaped(file, call.phases)
           /\ Writes(file) /\ file.pos = 0 => Starts(call.phases, file)
<1>1. /\ Careful /\ ~missed /\ ops \in Nat /\ h0 \in Handles /\ file = files[h0]
      /\ call.phases # <<>> /\ First = Head(call.phases) /\ Others = Tail(call.phases)
      /\ call = [h |-> h0, phases |-> call.phases] /\ file.open /\ Shaped(file, call.phases)
  BY DEF Inv, State, CallKeeps, h0, file, First, Others
<1>2. /\ World(flash, entry, files, free) /\ files \in [Handles -> FileSet]
      /\ entry \in [Handles -> Entries] /\ Keeps(flash, entry[h0], file)
      /\ Outlined(file)
  BY <1>1 DEF Inv, State, World
<1>3. RecordKeeps(file) /\ TailKeeps(flash, file)
  BY <1>2 DEF Keeps
<1>4. file \in OpenFiles
  <2>1. file \in FileSet
    BY <1>1, <1>2
  <2> QED BY <1>1, <2>1 DEF FileSet, Closed
<1>5. OthersWrote(files, h0)
  <2>1. SUFFICES ASSUME NEW k \in Handles, k # h0, Writes(files[k]) PROVE files[k].pos > 0
    BY DEF OthersWrote
  <2>2. files[k].pos \in Nat
    <3>1. PICK g \in FileSet : g = files[k]
      BY <1>2
    <3>2. g.open
      BY <2>1, <3>1 DEF Writes
    <3>3. g \in OpenFiles
      BY <3>2 DEF FileSet, Closed
    <3> QED BY <3>1, <3>3 DEF OpenFiles
  <2>3. files[k].pos # 0
    BY <2>1 DEF Inv, State, BlankKeeps, h0
  <2> QED BY <2>2, <2>3
<1>6. Writes(file) /\ file.pos = 0 => Starts(call.phases, file)
  BY <1>1 DEF Inv, State, BlankKeeps, h0
<1> QED BY <1>1, <1>2, <1>3, <1>4, <1>5, <1>6

(* A phase is one of a call under way.                                     *)
LEMMA NotNone == ASSUME NEW do, Busy(do) PROVE call # NoCall /\ Head(call.phases).do = do
BY DEF Busy, First

(* Steps of calls, by what they do to the world and to the file.           *)
LEMMA StepKeeps ==
    ASSUME Inv, call # NoCall, NEW f2 \in OpenFiles, Outlined(f2),
           World(flash', entry', [files EXCEPT ![h0] = f2], free'),
           NEW phases, phases = <<>> => (Writes(f2) => f2.pos > 0),
           phases # <<>> => Shaped(f2, phases) /\ (Writes(f2) /\ f2.pos = 0 => Starts(phases, f2)),
           files' = [files EXCEPT ![h0] = f2], call' = GoneOn(phases), ~missed', ops' = ops
    PROVE  Inv'
<1>1. PICK fl, es, fr, fs, c2 : fl = flash' /\ es = entry' /\ fr = free' /\ fs = files' /\ c2 = call'
  OBVIOUS
<1>2. State(fl, es, fs, fr, c2, FALSE, ops)
  BY <1>1, GoesOn
<1>3. State(flash', entry', files', free', call', missed', ops')
  BY <1>1, <1>2 DEF State
<1> QED BY <1>3 DEF Inv

(* What a step leaves of the handles and of the call.                      *)
LEMMA GoIs ==
    ASSUME NEW f2, NEW phases, Go(f2, phases)
    PROVE  files' = [files EXCEPT ![h0] = f2] /\ call' = GoneOn(phases)
BY DEF Go, GoneOn

(* A call that gives up keeps the invariant if the file it leaves keeps    *)
(* its bytes.                                                              *)
LEMMA GiveUpKeeps ==
    ASSUME Inv, call # NoCall, NEW f2 \in OpenFiles, Outlined(f2), Writes(f2) => f2.pos > 0,
           World(flash', entry', [files EXCEPT ![h0] = f2], free'),
           GiveUp(f2), ~missed', ops' = ops
    PROVE  Inv'
<1>1. files' \in {[files EXCEPT ![h0] = f2], [files EXCEPT ![h0] = Closed]} /\ call' = NoCall
  BY DEF GiveUp
<1>2. PICK fl, es, fr, fs, gs : /\ fl = flash' /\ es = entry' /\ fr = free' /\ fs = files'
                                /\ gs = [files EXCEPT ![h0] = f2]
  OBVIOUS
<1>3. World(fl, es, gs, fr) /\ fs \in {gs, [files EXCEPT ![h0] = Closed]}
  BY <1>1, <1>2
<1>5. State(fl, es, fs, fr, NoCall, FALSE, ops)
  BY <1>2, <1>3, GivesUp
<1>4. State(flash', entry', files', free', call', missed', ops')
  BY <1>1, <1>2, <1>5 DEF State
<1> QED BY <1>4 DEF Inv

-----------------------------------------------------------------------------
(* Only the file of a call changes, and holds no more than before.         *)
LEMMA FileLess ==
    ASSUME NEW es, NEW fs, NEW fr, NEW fl, World(fl, es, fs, fr), NEW h \in Handles,
           NEW f2, Keeps(fl, es[h], f2), Pieces(fl, es[h], f2) \subseteq Pieces(fl, es[h], fs[h]),
           Writes(f2) => /\ Writes(fs[h]) /\ f2.block = fs[h].block
                         /\ f2.block \notin HeadOf(fl, f2)
    PROVE  World(fl, es, [fs EXCEPT ![h] = f2], fr)
<1>1. PICK e2 : e2 = es[h]
  OBVIOUS
<1>2. es \in [Handles -> Entries] /\ WindowType(fr) /\ Eager(fr)
  BY DEF World
<1>3. Keeps(fl, e2, f2) /\ Pieces(fl, e2, f2) \subseteq Pieces(fl, es[h], fs[h])
  BY <1>1
<1>4. Writes(f2) => /\ Writes(fs[h]) /\ f2.block = fs[h].block
                    /\ f2.block \notin EntryOf(fl, e2) \cup HeadOf(fl, f2)
  <2>1. Writes(fs[h]) => fs[h].block \notin EntryOf(fl, es[h])
    BY DEF World, Alone
  <2> QED BY <1>1, <2>1
<1>5. World(fl, [es EXCEPT ![h] = e2], [fs EXCEPT ![h] = f2], fr)
  BY <1>2, <1>3, <1>4, WorldLess
<1>6. [es EXCEPT ![h] = e2] = es
  BY <1>1, <1>2
<1> QED BY <1>5, <1>6

(* A file that nothing is written to, with another position.               *)
LEMMA OtherPlace ==
    ASSUME NEW fl, NEW e, NEW f \in OpenFiles, Keeps(fl, e, f), ~f.writing,
           NEW f2 \in OpenFiles, SameFile(f2, f), ~f2.writing
    PROVE  Keeps(fl, e, f2) /\ Pieces(fl, e, f2) \subseteq Pieces(fl, e, f) /\ ~Writes(f2)
<1>1. f.open /\ f2.open /\ ~Writes(f2) /\ ~Writes(f)
  BY DEF OpenFiles, Writes
<1>2. Keeps(fl, e, f2)
  <2>1. e \in Entries /\ f2 \in FileSet /\ EntryKeeps(fl, e) /\ TailKeeps(fl, f2)
    BY <1>1 DEF Keeps, FileSet, TailKeeps
  <2>2. HeadKeeps(fl, f2)
    BY <1>1 DEF Keeps, HeadKeeps, SameFile
  <2>3. RecordKeeps(f2)
    BY <1>1 DEF Keeps, RecordKeeps, SameFile
  <2>4. Clean(e, f2)
    BY <1>1 DEF Keeps, Clean, SameFile
  <2> QED BY <2>1, <2>2, <2>3, <2>4 DEF Keeps
<1>3. Pieces(fl, e, f2) \subseteq Pieces(fl, e, f)
  BY <1>1 DEF Pieces, HeadOf, TailOf, SameFile
<1> QED BY <1>1, <1>2, <1>3

(* What a settled file may have to do next.                                *)
LEMMA SettledIs ==
    ASSUME NEW f, NEW ph, Shaped(f, ph), Head(ph).do \notin {"Flush", "Put", "Fill"}
    PROVE  ~f.writing /\ Settled(ph, f.size, f.inl)
BY DEF Shaped, Puts, Fills

(* The phases have the names they have.                                    *)
LEMMA StoreIs ==
    ASSUME NEW ph, ph = <<Store>> \/ ph = <<Store, Leave>>
    PROVE  /\ Head(ph).do = "Store" /\ Tail(ph) \in {<<>>, <<Leave>>}
           /\ Head(<<Leave>>).do = "Leave" /\ Tail(<<Leave>>) = <<>> /\ <<Leave>> # <<>>
<1>1. PICK a : a = Store
  OBVIOUS
<1>2. PICK b : b = Leave
  OBVIOUS
<1>3. a.do = "Store" /\ b.do = "Leave"
  BY <1>1, <1>2 DEF Store, Leave
<1>4. CASE ph = <<a>>
  BY <1>1, <1>2, <1>3, <1>4
<1>5. CASE ph = <<a, b>>
  BY <1>1, <1>2, <1>3, <1>5
<1> QED BY <1>1, <1>2, <1>4, <1>5

(* lfs_file_seek(): another position.                                      *)
LEMMA DoMoveKeeps == ASSUME Inv, DoMove PROVE Inv'
<1>1. /\ call # NoCall /\ Head(call.phases).do = "Move"
      /\ First = Head(call.phases) /\ Others = Tail(call.phases)
      /\ flash' = flash /\ entry' = entry /\ free' = free /\ missed' = missed /\ ops' = ops
      /\ Go([file EXCEPT !.pos = First.to], Others)
  BY DEF DoMove, Busy, First, Others
<1>2. /\ h0 \in Handles /\ file = files[h0] /\ file \in OpenFiles /\ ~missed
      /\ World(flash, entry, files, free) /\ Keeps(flash, entry[h0], file)
      /\ Shaped(file, call.phases) /\ Outlined(file)
  BY <1>1, AtWork
<1>3. ~file.writing /\ Settled(call.phases, file.size, file.inl)
  BY <1>1, <1>2, SettledIs
<1>4. Ends(call.phases) \/ Grows(call.phases, file.size)
  BY <1>1, <1>3, StoreIs DEF Settled, Cuts
<1>5. PICK to \in Nat : to = First.to /\ to = Head(call.phases).to
  BY <1>1, <1>2, <1>4 DEF Ends, Grows, OpenFiles
<1>6. PICK f2 : f2 = [file EXCEPT !.pos = to]
  OBVIOUS
<1>7. f2 \in OpenFiles /\ SameFile(f2, file) /\ ~f2.writing /\ f2.pos = to
  BY <1>2, <1>3, <1>6 DEF OpenFiles, SameFile
<1>8. /\ Keeps(flash, entry[h0], f2) /\ ~Writes(f2)
      /\ Pieces(flash, entry[h0], f2) \subseteq Pieces(flash, entry[h0], files[h0])
  BY <1>2, <1>3, <1>7, OtherPlace
<1>9. World(flash', entry', [files EXCEPT ![h0] = f2], free')
  BY <1>1, <1>2, <1>8, FileLess
<1>10. Outlined(f2)
  BY <1>2, <1>3, <1>7 DEF Outlined, SameFile, OpenFiles
<1>11. Others # <<>> => Shaped(f2, Others)
  <2>1. SUFFICES ASSUME Others # <<>> PROVE Shaped(f2, Others)
    OBVIOUS
  <2>2. Grows(call.phases, file.size)
    BY <1>1, <1>4, <2>1 DEF Ends
  <2>3. to = file.size /\ Fills(Others, to)
    BY <1>1, <1>5, <2>2 DEF Grows
  <2>4. CanWrite(f2)
    <3>1. f2.pos = f2.size /\ f2.size \in Nat
      BY <1>7, <2>3 DEF SameFile, OpenFiles
    <3> QED BY <3>1 DEF CanWrite
  <2> QED BY <1>7, <2>3, <2>4 DEF Shaped
<1>12. files' = [files EXCEPT ![h0] = f2] /\ call' = GoneOn(Others)
  BY <1>1, <1>5, <1>6, GoIs
<1> QED BY <1>1, <1>2, <1>7, <1>8, <1>9, <1>10, <1>11, <1>12, StepKeeps

(* lfs_file_flush(): the list that was written is that of the file.        *)
LEMMA FlushedKeeps ==
    ASSUME NEW fl, NEW e, NEW f \in OpenFiles, Keeps(fl, e, f), Outlined(f),
           ~(f.writing /\ ~f.inl /\ f.pos < f.size), First.back \in Nat,
           NEW f2, f2 = Flushed(f)
    PROVE  /\ f2 \in OpenFiles /\ Keeps(fl, e, f2) /\ ~f2.writing /\ ~Writes(f2)
           /\ Pieces(fl, e, f2) \subseteq Pieces(fl, e, f)
           /\ Outlined(f2) /\ f2.size = FinalSize(f) /\ f2.inl = f.inl
<1>1. PICK back \in Nat : back = First.back
  OBVIOUS
<1>2. f.open /\ f.pos \in Nat /\ f.size \in Nat /\ f.block \in Blocks \cup {None, Inline}
      /\ f.writing \in BOOLEAN /\ f.inl \in BOOLEAN /\ f.head \in Blocks \cup {Inline}
      /\ f.dirty \in BOOLEAN
  BY DEF OpenFiles
<1>21. PICK no \in BOOLEAN, yes \in BOOLEAN, none \in Blocks \cup {None, Inline}, zero \in Nat :
            no = FALSE /\ yes = TRUE /\ none = None /\ zero = 0
  OBVIOUS
<1>3. CASE ~f.writing
  <2>1. f2 = [f EXCEPT !.reading = no, !.writing = no, !.block = none, !.off = zero]
    BY <1>21, <1>3 DEF Flushed
  <2>2. f2 \in OpenFiles /\ SameFile(f2, f) /\ ~f2.writing
    <3>1. f2 \in OpenFiles
      BY <2>1, ZenonT(40) DEF OpenFiles
    <3>2. SameFile(f2, f) /\ f2.writing = no
      BY <2>1 DEF OpenFiles, SameFile
    <3> QED BY <1>21, <3>1, <3>2
  <2>3. Keeps(fl, e, f2) /\ ~Writes(f2) /\ Pieces(fl, e, f2) \subseteq Pieces(fl, e, f)
    BY <1>3, <2>2, OtherPlace
  <2>4. Outlined(f2)
    BY <1>2, <1>3, <2>2 DEF Outlined, SameFile
  <2>5. f2.size = FinalSize(f) /\ f2.inl = f.inl
    BY <1>3, <2>2 DEF FinalSize, SameFile
  <2> QED BY <2>2, <2>3, <2>4, <2>5
<1>4. CASE f.writing
  <2>1. PICK size \in Nat : size = IF f.inl THEN Longer(f.pos, f.size) ELSE f.pos
    BY <1>2 DEF Longer
  <2>2. f2 = [f EXCEPT !.reading = no, !.writing = no, !.block = none, !.off = zero,
                       !.dirty = yes, !.head = f.block, !.pos = back, !.size = size]
    BY <1>1, <1>21, <1>4, <2>1 DEF Flushed
  <2>3. f.inl => f.block = Inline /\ f.pos <= InlineMax /\ f.size <= InlineMax
                 /\ Len(f.cache) = Longer(f.pos, f.size) /\ f.head = Inline
    BY <1>2, <1>4 DEF Keeps, RecordKeeps
  <2>4. ~f.inl => /\ f.block \in Blocks /\ (f.pos > 0 => HasList(fl, f.block, f.pos))
                  /\ Writes(f)
    BY <1>2, <1>4 DEF Keeps, TailKeeps, Writes
  <2>5. f.block \in Blocks \cup {Inline}
    BY <1>2, <2>3, <2>4
  <2>6. f2 \in OpenFiles
    <3>1. PICK head \in Blocks \cup {Inline} : head = f.block
      BY <2>5
    <3>2. f2 = [f EXCEPT !.reading = no, !.writing = no, !.block = none, !.off = zero,
                         !.dirty = yes, !.head = head, !.pos = back, !.size = size]
      BY <2>2, <3>1
    <3>3. [f EXCEPT !.reading = no, !.writing = no, !.block = none, !.off = zero,
                    !.dirty = yes, !.head = head, !.pos = back, !.size = size] \in OpenFiles
      BY ZenonT(40) DEF OpenFiles
    <3> QED BY <3>2, <3>3
  <2>7. f2.open /\ ~f2.writing /\ f2.head = f.block /\ f2.size = size /\ f2.inl = f.inl /\ f2.dirty
        /\ f2.cache = f.cache
    BY <1>2, <1>21, <2>2 DEF OpenFiles
  <2>8. ~f.inl => HasList(fl, f.block, size)
    <3>1. CASE f.inl
      BY <3>1
    <3>2. CASE ~f.inl /\ f.pos = 0
      BY <2>1, <2>4, <3>2 DEF HasList
    <3>3. CASE ~f.inl /\ f.pos # 0
      BY <1>2, <2>1, <2>4, <3>3
    <3> QED BY <3>1, <3>2, <3>3
  <2>9. HeadKeeps(fl, f2)
    BY <2>3, <2>7, <2>8 DEF HeadKeeps
  <2>10. RecordKeeps(f2)
    <3>1. f.inl => size = Longer(f.pos, f.size) /\ size <= InlineMax /\ Len(f.cache) = size
      BY <1>2, <2>1, <2>3 DEF Longer
    <3>2. ~f.inl => f.block # Inline
      BY <2>4 DEF Inline, Blocks
    <3> QED BY <2>3, <2>7, <3>1, <3>2 DEF RecordKeeps
  <2>11. Keeps(fl, e, f2)
    BY <2>6, <2>7, <2>9, <2>10 DEF Keeps, FileSet, TailKeeps, Clean, Writes
  <2>12. ~Writes(f2)
    BY <2>7 DEF Writes
  <2>13. Pieces(fl, e, f2) \subseteq Pieces(fl, e, f)
    <3>1. HeadOf(fl, f2) \subseteq TailOf(fl, f)
      <4>1. CASE f.inl
        BY <2>3, <2>7, <4>1 DEF HeadOf
      <4>2. CASE ~f.inl
        BY <2>1, <2>4, <2>7, <4>2 DEF HeadOf, TailOf
      <4> QED BY <4>1, <4>2
    <3> QED BY <2>12, <3>1 DEF Pieces, TailOf
  <2>14. Outlined(f2)
    <3>1. \A b \in Blocks : b # Inline
      BY BlockCountAssumption DEF Blocks, Inline
    <3> QED BY <2>4, <2>7, <3>1 DEF Outlined
  <2>15. f2.size = FinalSize(f)
    BY <1>2, <1>4, <2>1, <2>7 DEF FinalSize, Longer
  <2> QED BY <2>6, <2>7, <2>11, <2>12, <2>13, <2>14, <2>15
<1> QED BY <1>2, <1>3, <1>4

(* What follows a flush.                                                   *)
LEMMA FlushIs ==
    ASSUME NEW f, NEW ph, Shaped(f, ph), Head(ph).do = "Flush"
    PROVE  Head(ph).back \in Nat /\ Tail(ph) # <<>> /\ Settled(Tail(ph), FinalSize(f), f.inl)
<1>1. ~Settled(ph, f.size, f.inl)
  BY StoreIs DEF Settled, Ends, Cuts, Grows
<1> QED BY <1>1 DEF Shaped, Puts, Fills

(* lfs_file_flush turns the list that was written into the file's list.    *)
LEMMA DoFlushKeeps == ASSUME Inv, DoFlush PROVE Inv'
<1>1. /\ call # NoCall /\ Head(call.phases).do = "Flush"
      /\ First = Head(call.phases) /\ Others = Tail(call.phases)
      /\ flash' = flash /\ entry' = entry /\ free' = free /\ missed' = missed /\ ops' = ops
      /\ ~(file.writing /\ ~file.inl /\ file.pos < file.size)
      /\ Go(Flushed(file), Others)
  BY DEF DoFlush, Busy, First, Others
<1>2. /\ h0 \in Handles /\ file = files[h0] /\ file \in OpenFiles /\ ~missed
      /\ World(flash, entry, files, free) /\ Keeps(flash, entry[h0], file)
      /\ Shaped(file, call.phases) /\ Outlined(file)
  BY <1>1, AtWork
<1>3. First.back \in Nat /\ Others # <<>> /\ Settled(Others, FinalSize(file), file.inl)
  BY <1>1, <1>2, FlushIs
<1>4. PICK f2 : f2 = Flushed(file)
  OBVIOUS
<1>41. PICK f \in OpenFiles : f = file
  BY <1>2
<1>42. PICK e : e = entry[h0]
  OBVIOUS
<1>5. /\ f2 \in OpenFiles /\ Keeps(flash, entry[h0], f2) /\ ~f2.writing /\ ~Writes(f2)
      /\ Pieces(flash, entry[h0], f2) \subseteq Pieces(flash, entry[h0], file)
      /\ Outlined(f2) /\ f2.size = FinalSize(file) /\ f2.inl = file.inl
  <2>1. /\ Keeps(flash, e, f) /\ Outlined(f) /\ ~(f.writing /\ ~f.inl /\ f.pos < f.size)
        /\ First.back \in Nat /\ f2 = Flushed(f)
    BY <1>1, <1>2, <1>3, <1>4, <1>41, <1>42
  <2>2. /\ f2 \in OpenFiles /\ Keeps(flash, e, f2) /\ ~f2.writing /\ ~Writes(f2)
        /\ Pieces(flash, e, f2) \subseteq Pieces(flash, e, f)
        /\ Outlined(f2) /\ f2.size = FinalSize(f) /\ f2.inl = f.inl
    BY <2>1, FlushedKeeps, ZenonT(40)
  <2> QED BY <1>41, <1>42, <2>2
<1>6. World(flash', entry', [files EXCEPT ![h0] = f2], free')
  BY <1>1, <1>2, <1>5, FileLess
<1>7. Shaped(f2, Others)
  BY <1>3, <1>5 DEF Shaped
<1>8. files' = [files EXCEPT ![h0] = f2] /\ call' = GoneOn(Others)
  BY <1>1, <1>4, GoIs
<1> QED BY <1>1, <1>2, <1>3, <1>5, <1>6, <1>7, <1>8, StepKeeps

(* lfs_file_read(): the block that is read is one of the list.             *)
LEMMA ReadBlock ==
    ASSUME NEW fl, FlashType(fl), NEW size \in Nat, NEW head, HasList(fl, head, size),
           NEW pos \in Nat, pos < size
    PROVE  /\ Find(fl, head, size, pos) \in Blocks
           /\ fl[Find(fl, head, size, pos)].data[(pos % BlockSize) + 1] = Bytes(fl, head, size)[pos + 1]
<1>1. PICK c : ListOf(fl, c, head, size)
  BY DEF HasList
<1>2. size \in Nat \ {0} /\ pos \in 0..size - 1
  OBVIOUS
<1>3. PICK n \in Nat : n = Index(size - 1) /\ c \in [0..n -> Blocks] /\ IsList(fl, c, n) /\ c[n] = head
  BY <1>1, <1>2, ListIs DEF ListOf
<1>4. /\ Index(pos) \in 0..n /\ Bytes(fl, head, size)[pos + 1] = Unit(fl, c, pos)
  BY <1>1, <1>2, <1>3, ListIs
<1>5. Index(pos) <= Index(size - 1)
  BY <1>3, <1>4
<1>6. Find(fl, c[Index(size - 1)], size, pos) = c[Index(pos)]
  <2>1. IsList(fl, c, Index(size - 1))
    BY <1>3
  <2> QED BY <1>2, <1>5, <2>1, FindIs
<1>7. Find(fl, head, size, pos) = c[Index(pos)] /\ c[Index(pos)] \in Blocks
  BY <1>3, <1>4, <1>6
<1> QED BY <1>4, <1>7 DEF Unit

(* Reading changes nothing but the cache of the file.                      *)
LEMMA DoGetKeeps == ASSUME Inv, DoGet PROVE Inv'
<1>1. /\ call # NoCall /\ Head(call.phases).do = "Get" /\ Others = Tail(call.phases)
      /\ flash' = flash /\ entry' = entry /\ free' = free /\ missed' = missed /\ ops' = ops
  BY DEF DoGet, Busy, First, Others
<1>2. /\ h0 \in Handles /\ file = files[h0] /\ file \in OpenFiles /\ ~missed
      /\ World(flash, entry, files, free) /\ Keeps(flash, entry[h0], file)
      /\ Shaped(file, call.phases) /\ Outlined(file) /\ files \in [Handles -> FileSet]
  BY <1>1, AtWork
<1>3. ~file.writing /\ Others = <<>>
  <2>1. ~file.writing /\ Settled(call.phases, file.size, file.inl)
    BY <1>1, <1>2, SettledIs
  <2> QED BY <1>1, <2>1, StoreIs DEF Settled, Ends, Cuts, Grows
<1>4. PICK f \in OpenFiles : f = file
  BY <1>2
<1>5. ASSUME NEW f2 \in OpenFiles, SameFile(f2, f), ~f2.writing,
             files' = [files EXCEPT ![h0] = f2], call' = NoCall
      PROVE  Inv'
  <2>1. /\ Keeps(flash, entry[h0], f2) /\ ~Writes(f2)
        /\ Pieces(flash, entry[h0], f2) \subseteq Pieces(flash, entry[h0], files[h0])
    BY <1>2, <1>3, <1>4, <1>5, OtherPlace
  <2>2. World(flash', entry', [files EXCEPT ![h0] = f2], free')
    BY <1>1, <1>2, <2>1, FileLess
  <2>3. Outlined(f2)
    BY <1>2, <1>3, <1>4, <1>5 DEF Outlined, SameFile, OpenFiles
  <2>4. call' = GoneOn(<<>>)
    BY <1>5 DEF GoneOn
  <2> QED BY <1>1, <1>2, <1>5, <2>1, <2>2, <2>3, <2>4, StepKeeps
<1>6. CASE file.pos >= file.size
  <2>1. Go(f, Others)
    BY <1>4, <1>6 DEF DoGet
  <2>2. files' = [files EXCEPT ![h0] = f] /\ call' = NoCall
    BY <1>3, <2>1, GoIs DEF GoneOn
  <2>3. SameFile(f, f)
    BY DEF SameFile
  <2> QED BY <1>3, <1>4, <1>5, <2>2, <2>3
<1>7. CASE ~(file.pos >= file.size)
  <2>1. PICK block, off :
           /\ off = IF ~(~f.reading \/ f.off = BlockSize) THEN f.off
                    ELSE IF f.inl THEN f.pos ELSE f.pos % BlockSize
           /\ block = IF f.inl THEN Inline
                      ELSE IF ~f.reading \/ f.off = BlockSize THEN Find(flash, f.head, f.size, f.pos)
                      ELSE f.block
           /\ files' = [files EXCEPT ![h0] = [f EXCEPT !.block = block, !.off = off + 1,
                                                       !.pos = @ + 1, !.reading = TRUE]]
           /\ call' = NoCall
    BY <1>4, <1>7, ZenonT(40) DEF DoGet
  <2>02. f.pos \in Nat /\ f.size \in Nat /\ f.off \in Nat
         /\ f.block \in Blocks \cup {None, Inline} /\ f.open /\ f.inl \in BOOLEAN
    BY DEF OpenFiles
  <2>2. f.pos \in Nat /\ f.size \in Nat /\ f.pos < f.size /\ f.off \in Nat
        /\ f.block \in Blocks \cup {None, Inline} /\ f.open /\ f.inl \in BOOLEAN
    BY <1>4, <1>7, <2>02
  <2>3. ~f.inl => Find(flash, f.head, f.size, f.pos) \in Blocks
    <3>1. SUFFICES ASSUME ~f.inl PROVE Find(flash, f.head, f.size, f.pos) \in Blocks
      OBVIOUS
    <3>2. f.head # Inline
      BY <1>2, <1>3, <1>4, <2>2, <3>1 DEF Outlined
    <3>3. HasList(flash, f.head, f.size) /\ FlashType(flash)
      BY <1>2, <1>4, <2>2, <3>2 DEF Keeps, HeadKeeps, World
    <3> QED BY <2>2, <3>3, ReadBlock
  <2>4. block \in Blocks \cup {None, Inline}
    BY <2>1, <2>2, <2>3
  <2>05. off \in Nat
    <3>1. f.pos % BlockSize \in Nat
      BY <2>2, IndexIs
    <3> QED BY <2>1, <2>2, <3>1
  <2>5. PICK o \in Nat, p \in Nat : o = off + 1 /\ p = f.pos + 1
    <3>1. off + 1 \in Nat
      BY <2>05
    <3>2. f.pos + 1 \in Nat
      BY <2>02
    <3> QED BY <3>1, <3>2
  <2>25. PICK yes \in BOOLEAN : yes = TRUE
    OBVIOUS
  <2>15. PICK b \in Blocks \cup {None, Inline} : b = block
    BY <2>4
  <2>6. PICK f2 : f2 = [f EXCEPT !.block = b, !.off = o, !.pos = p, !.reading = yes]
    OBVIOUS
  <2>7. f2 \in OpenFiles
    BY <2>6 DEF OpenFiles
  <2>8. SameFile(f2, f) /\ f2.writing = f.writing
    BY <2>6 DEF OpenFiles, SameFile
  <2>9. files' = [files EXCEPT ![h0] = f2]
    BY <2>1, <2>5, <2>15, <2>25, <2>6
  <2> QED BY <1>3, <1>4, <1>5, <2>1, <2>7, <2>8, <2>9
<1> QED BY <1>6, <1>7

(* lfs_file_truncate(): the file keeps the front of its list.              *)
LEMMA CutList ==
    ASSUME NEW fl, FlashType(fl), NEW size \in Nat, NEW head, HasList(fl, head, size),
           NEW to \in Nat, to < size, to = 0 \/ (to % BlockSize) # 0,
           NEW b, b = Find(fl, head, size, to)
    PROVE  /\ HasList(fl, b, to) /\ b \in Blocks
           /\ Traverse(fl, b, to) \subseteq Traverse(fl, head, size)
           /\ \A p \in 0..to - 1 : Bytes(fl, b, to)[p + 1] = Bytes(fl, head, size)[p + 1]
<1>1. b \in Blocks
  BY ReadBlock
<1>2. CASE to = 0
  <2>1. Traverse(fl, b, to) = {} /\ \A p \in 0..to - 1 : FALSE
    BY <1>2, NoList
  <2> QED BY <1>1, <1>2, <2>1 DEF HasList
<1>3. CASE to # 0
  <2>1. PICK c : ListOf(fl, c, head, size)
    BY DEF HasList
  <2>2. to \in 1..size /\ to \in Nat \ {0} /\ size \in Nat \ {0}
    BY <1>3
  <2>3. Index(to) = Index(to - 1)
    BY <1>3, <2>2, IndexOfNext
  <2>4. Index(to) \in 0..Index(size - 1) /\ IsList(fl, c, Index(size - 1)) /\ c[Index(size - 1)] = head
    <3>1. to \in 0..size - 1
      OBVIOUS
    <3> QED BY <2>1, <2>2, <3>1, ListIs DEF ListOf
  <2>5. Find(fl, c[Index(size - 1)], size, to) = c[Index(to)]
    <3>1. Index(to) <= Index(size - 1)
      BY <2>4
    <3>2. IsList(fl, c, Index(size - 1))
      BY <2>4
    <3> QED BY <2>2, <3>1, <3>2, FindIs
  <2>6. b = c[Index(to - 1)]
    BY <2>3, <2>4, <2>5
  <2>7. /\ HasList(fl, c[Index(to - 1)], to)
        /\ Traverse(fl, c[Index(to - 1)], to) \subseteq Traverse(fl, head, size)
        /\ \A p \in 0..to - 1 : Bytes(fl, c[Index(to - 1)], to)[p + 1] = Bytes(fl, head, size)[p + 1]
    BY <2>1, <2>2, FrontIs
  <2> QED BY <1>1, <2>6, <2>7
<1> QED BY <1>2, <1>3

(* The file as lfs_file_truncate cuts it.                                  *)
CutFile(f, to) ==
    [f EXCEPT !.head = IF f.inl \/ f.size = 0 THEN f.head ELSE Find(flash, f.head, f.size, to),
              !.block = IF f.inl \/ f.size = 0 THEN f.head ELSE Find(flash, f.head, f.size, to),
              !.size = to, !.off = IF f.inl THEN to ELSE to % BlockSize,
              !.cache = IF f.inl THEN SubSeq(@, 1, to) ELSE @,
              !.dirty = TRUE, !.reading = TRUE]

(* A cut file is a list of the blocks up to the one lfs_ctz_find returns.  *)
LEMMA CutKeeps ==
    ASSUME FlashType(flash), NEW e, NEW f \in OpenFiles, Keeps(flash, e, f), Outlined(f), ~f.writing,
           NEW to \in Nat, to < f.size, f.inl \/ to = 0 \/ (to % BlockSize) # 0,
           NEW f2, f2 = CutFile(f, to)
    PROVE  /\ f2 \in OpenFiles /\ Keeps(flash, e, f2) /\ ~f2.writing /\ ~Writes(f2)
           /\ Pieces(flash, e, f2) \subseteq Pieces(flash, e, f) /\ Outlined(f2)
           /\ f2.size = to
<1>1. f.open /\ f.size \in Nat /\ f.head \in Blocks \cup {Inline} /\ f.cache \in Seq(Int)
      /\ f.inl \in BOOLEAN /\ f.size # 0
  <2>1. f.open /\ f.size \in Nat /\ f.head \in Blocks \cup {Inline} /\ f.cache \in Seq(Int)
        /\ f.inl \in BOOLEAN
    BY DEF OpenFiles
  <2>2. f.size # 0
    BY <2>1
  <2> QED BY <2>1, <2>2
<1>2. f.inl => f.head = Inline /\ f.size <= InlineMax /\ Len(f.cache) = f.size
  BY <1>1 DEF Keeps, RecordKeeps
<1>3. ~f.inl => f.head # Inline /\ HasList(flash, f.head, f.size)
  BY <1>1 DEF Outlined, Keeps, HeadKeeps
<1>4. PICK head : head = IF f.inl \/ f.size = 0 THEN f.head ELSE Find(flash, f.head, f.size, to)
  OBVIOUS
<1>5. ~f.inl => /\ HasList(flash, head, to) /\ head \in Blocks
                /\ Traverse(flash, head, to) \subseteq Traverse(flash, f.head, f.size)
  BY <1>1, <1>3, <1>4, CutList
<1>6. PICK h \in Blocks \cup {Inline}, b \in Blocks \cup {None, Inline} : h = head /\ b = head
  <2>1. head \in Blocks \cup {Inline}
    BY <1>1, <1>4, <1>5
  <2> QED BY <2>1
<1>7. PICK off \in Nat : off = IF f.inl THEN to ELSE to % BlockSize
  <2>1. to % BlockSize \in Nat
    BY IndexIs
  <2> QED BY <2>1
<1>8. PICK cache \in Seq(Int) : /\ cache = IF f.inl THEN SubSeq(f.cache, 1, to) ELSE f.cache
                                /\ f.inl => Len(cache) = to
  <2>1. f.inl => SubSeq(f.cache, 1, to) \in Seq(Int) /\ Len(SubSeq(f.cache, 1, to)) = to
    BY <1>1, <1>2
  <2>2. CASE f.inl
    BY <2>1, <2>2
  <2>3. CASE ~f.inl
    BY <1>1, <2>3
  <2> QED BY <2>2, <2>3
<1>9. PICK yes \in BOOLEAN : yes = TRUE
  OBVIOUS
<1>10. f2 = [f EXCEPT !.head = h, !.block = b, !.size = to, !.off = off, !.cache = cache,
                      !.dirty = yes, !.reading = yes]
  BY <1>4, <1>6, <1>7, <1>8, <1>9 DEF CutFile
<1>11. f2 \in OpenFiles
  BY <1>10, ZenonT(40) DEF OpenFiles
<1>12. /\ f2.open = f.open /\ f2.head = h /\ f2.size = to /\ f2.cache = cache /\ f2.dirty = yes
       /\ f2.inl = f.inl /\ f2.writing = f.writing
  BY <1>10 DEF OpenFiles
<1>13. f2.open /\ f2.dirty /\ ~f2.writing /\ ~Writes(f2) /\ ~Writes(f)
  BY <1>1, <1>9, <1>12 DEF Writes
<1>14. HeadKeeps(flash, f2)
  BY <1>1, <1>2, <1>4, <1>5, <1>6, <1>12 DEF HeadKeeps
<1>15. RecordKeeps(f2)
  <2>1. f.inl => h = Inline /\ to <= InlineMax /\ Len(cache) = to
    <3>1. f.inl => h = Inline /\ Len(cache) = to
      BY <1>2, <1>4, <1>6, <1>8
    <3>2. f.inl => to <= InlineMax
      BY <1>1, <1>2, InlineAssumption, BlockSizeAssumption
    <3> QED BY <3>1, <3>2
  <2>2. ~f.inl => h # Inline
    BY <1>5, <1>6 DEF Inline, Blocks
  <2> QED BY <1>12, <1>13, <2>1, <2>2 DEF RecordKeeps
<1>16. Keeps(flash, e, f2)
  BY <1>11, <1>13, <1>14, <1>15 DEF Keeps, FileSet, TailKeeps, Clean
<1>17. Pieces(flash, e, f2) \subseteq Pieces(flash, e, f)
  <2>1. HeadOf(flash, f2) \subseteq HeadOf(flash, f)
    <3>1. CASE f.inl
      BY <1>2, <1>4, <1>6, <1>12, <3>1 DEF HeadOf
    <3>2. CASE ~f.inl
      BY <1>1, <1>3, <1>5, <1>6, <1>12, <3>2 DEF HeadOf
    <3> QED BY <3>1, <3>2
  <2> QED BY <1>13, <2>1 DEF Pieces, TailOf
<1>18. Outlined(f2)
  <2>1. \A x \in Blocks : x # Inline
    BY BlockCountAssumption DEF Blocks, Inline
  <2> QED BY <1>5, <1>6, <1>12, <2>1 DEF Outlined
<1> QED BY <1>11, <1>12, <1>13, <1>16, <1>17, <1>18

(* The cut of lfs_file_truncate keeps the invariant.                       *)
LEMMA DoCutKeeps == ASSUME Inv, DoCut PROVE Inv'
<1>1. /\ call # NoCall /\ Head(call.phases).do = "Cut" /\ Others = Tail(call.phases)
      /\ First = Head(call.phases)
      /\ flash' = flash /\ entry' = entry /\ free' = free /\ missed' = missed /\ ops' = ops
  BY DEF DoCut, Busy, First, Others
<1>2. /\ h0 \in Handles /\ file = files[h0] /\ file \in OpenFiles /\ ~missed
      /\ World(flash, entry, files, free) /\ Keeps(flash, entry[h0], file) /\ FlashType(flash)
      /\ Shaped(file, call.phases) /\ Outlined(file)
  BY <1>1, AtWork DEF World
<1>3. ~file.writing /\ Cuts(call.phases, file.size, file.inl)
  <2>1. ~file.writing /\ Settled(call.phases, file.size, file.inl)
    BY <1>1, <1>2, SettledIs
  <2> QED BY <1>1, <2>1, StoreIs DEF Settled, Ends, Grows
<1>4. PICK f \in OpenFiles : f = file
  BY <1>2
<1>5. PICK to \in Nat : to = First.to /\ to < f.size /\ (f.inl \/ to = 0 \/ (to % BlockSize) # 0)
  BY <1>1, <1>3, <1>4 DEF Cuts
<1>6. PICK f2 : f2 = CutFile(f, to)
  OBVIOUS
<1>7. PICK e : e = entry[h0]
  OBVIOUS
<1>8. /\ f2 \in OpenFiles /\ Keeps(flash, e, f2) /\ ~f2.writing /\ ~Writes(f2)
      /\ Pieces(flash, e, f2) \subseteq Pieces(flash, e, f) /\ Outlined(f2)
      /\ f2.size = to
  BY <1>2, <1>3, <1>4, <1>5, <1>6, <1>7, CutKeeps
<1>9. World(flash', entry', [files EXCEPT ![h0] = f2], free')
  BY <1>1, <1>2, <1>4, <1>7, <1>8, FileLess
<1>10. Others # <<>> /\ Shaped(f2, Others)
  <2>1. Others # <<>> /\ Head(Others).do = "Flush" /\ Head(Others).back \in Nat
        /\ Tail(Others) # <<>> /\ Ends(Tail(Others))
    BY <1>1, <1>3 DEF Cuts, Returns
  <2> QED BY <2>1 DEF Shaped, Settled
<1>11. Go(f2, Others)
  BY <1>4, <1>5, <1>6 DEF DoCut, CutFile
<1>12. files' = [files EXCEPT ![h0] = f2] /\ call' = GoneOn(Others)
  BY <1>11, GoIs
<1> QED BY <1>1, <1>2, <1>8, <1>9, <1>10, <1>12, StepKeeps

(* lfs_file_sync(): the entry gets what the file has.                      *)
LEMMA StoredKeeps ==
    ASSUME NEW fl, NEW e, NEW f \in OpenFiles, Keeps(fl, e, f), Outlined(f), ~f.writing,
           NEW e2, e2 = Struct(f), NEW f2, f2 = [f EXCEPT !.dirty = FALSE]
    PROVE  /\ f2 \in OpenFiles /\ Keeps(fl, e2, f2) /\ ~f2.writing /\ ~Writes(f2)
           /\ Pieces(fl, e2, f2) \subseteq Pieces(fl, e, f) /\ Outlined(f2)
<1>1. f.open /\ f.size \in Nat /\ f.head \in Blocks \cup {Inline} /\ f.cache \in Seq(Int)
      /\ f.inl \in BOOLEAN
  BY DEF OpenFiles
<1>2. f.inl => f.head = Inline /\ f.size <= InlineMax /\ Len(f.cache) = f.size
  BY <1>1 DEF Keeps, RecordKeeps
<1>3. ~f.inl => f.head # Inline /\ HasList(fl, f.head, f.size)
  BY <1>1 DEF Outlined, Keeps, HeadKeeps
<1>4. PICK bytes \in Seq(Int) : bytes = IF f.inl THEN f.cache ELSE <<>>
  <2>1. <<>> \in Seq(Int)
    OBVIOUS
  <2>2. PICK s \in Seq(Int) : s = <<>>
    BY <2>1, Zenon
  <2>3. CASE f.inl
    BY <1>1, <2>3
  <2>4. CASE ~f.inl
    BY <2>2, <2>4
  <2> QED BY <2>3, <2>4
<1>5. e2 = [inl |-> f.inl, head |-> f.head, size |-> f.size, bytes |-> bytes]
  BY <1>4 DEF Struct
<1>6. e2 \in Entries
  BY <1>1, <1>5 DEF Entries
<1>7. PICK no \in BOOLEAN : no = FALSE
  OBVIOUS
<1>8. f2 = [f EXCEPT !.dirty = no]
  BY <1>7
<1>9. f2 \in OpenFiles
  BY <1>8 DEF OpenFiles
<1>10. /\ f2.open = f.open /\ f2.head = f.head /\ f2.size = f.size /\ f2.cache = f.cache
       /\ f2.inl = f.inl /\ f2.writing = f.writing /\ f2.dirty = no
  BY <1>8 DEF OpenFiles
<1>11. ~f2.writing /\ ~Writes(f2) /\ ~Writes(f)
  BY <1>10 DEF Writes
<1>12. EntryKeeps(fl, e2)
  BY <1>2, <1>3, <1>4, <1>5 DEF EntryKeeps
<1>13. HeadKeeps(fl, f2) /\ RecordKeeps(f2)
  BY <1>1, <1>2, <1>3, <1>10, <1>11 DEF HeadKeeps, RecordKeeps
<1>14. Clean(e2, f2)
  BY <1>1, <1>2, <1>3, <1>4, <1>5, <1>10, <1>11 DEF Clean
<1>15. Keeps(fl, e2, f2)
  BY <1>6, <1>9, <1>11, <1>12, <1>13, <1>14 DEF Keeps, FileSet, TailKeeps
<1>16. Pieces(fl, e2, f2) \subseteq Pieces(fl, e, f)
  <2>1. EntryOf(fl, e2) \subseteq HeadOf(fl, f)
    BY <1>1, <1>3, <1>5 DEF EntryOf, HeadOf
  <2>2. HeadOf(fl, f2) \subseteq HeadOf(fl, f)
    BY <1>10 DEF HeadOf
  <2> QED BY <1>11, <2>1, <2>2 DEF Pieces, TailOf
<1>17. Outlined(f2)
  BY <1>3, <1>10 DEF Outlined
<1> QED BY <1>9, <1>11, <1>15, <1>16, <1>17

(* After the entry is stored a file may be closed.                         *)
LEMMA LeaveNext ==
    ASSUME NEW f, ~f.writing
    PROVE  <<Leave>> # <<>> /\ Shaped(f, <<Leave>>)
<1>1. Head(<<Leave>>).do = "Leave" /\ Tail(<<Leave>>) = <<>> /\ <<Leave>> # <<>>
  <2>1. PICK ph : ph = <<Store, Leave>>
    OBVIOUS
  <2> QED BY <2>1, StoreIs
<1>2. Settled(<<Leave>>, f.size, f.inl)
  BY <1>1 DEF Settled
<1> QED BY <1>1, <1>2 DEF Shaped

(* What follows a store.                                                   *)
LEMMA StoreNext ==
    ASSUME NEW f, Shaped(f, call.phases), Head(call.phases).do = "Store"
    PROVE  /\ ~f.writing /\ Tail(call.phases) \in {<<>>, <<Leave>>}
           /\ call.phases = <<Store>> \/ call.phases = <<Store, Leave>>
<1>1. ~f.writing /\ Settled(call.phases, f.size, f.inl)
  BY SettledIs
<1>2. call.phases = <<Store>> \/ call.phases = <<Store, Leave>>
  BY <1>1 DEF Settled, Ends, Cuts, Grows
<1> QED BY <1>1, <1>2, StoreIs

(* lfs_file_sync stores the entry the file's list is in.                   *)
LEMMA DoStoreKeeps == ASSUME Inv, DoStore PROVE Inv'
<1>1. /\ call # NoCall /\ Head(call.phases).do = "Store" /\ Others = Tail(call.phases)
      /\ flash' = flash /\ free' = free /\ missed' = missed /\ ops' = ops
  BY DEF DoStore, Busy, First, Others
<1>2. /\ h0 \in Handles /\ file = files[h0] /\ file \in OpenFiles /\ ~missed
      /\ World(flash, entry, files, free) /\ Keeps(flash, entry[h0], file)
      /\ Shaped(file, call.phases) /\ Outlined(file) /\ files \in [Handles -> FileSet]
      /\ entry \in [Handles -> Entries]
  BY <1>1, AtWork
<1>3. ~file.writing /\ Others \in {<<>>, <<Leave>>}
  BY <1>1, <1>2, StoreNext
<1>4. PICK f \in OpenFiles : f = file
  BY <1>2
<1>5. CASE file.dirty /\ ~file.erred
  <2>1. PICK e2 : e2 = Struct(f)
    OBVIOUS
  <2>2. PICK f2 : f2 = [f EXCEPT !.dirty = FALSE]
    OBVIOUS
  <2>3. PICK e : e = entry[h0]
    OBVIOUS
  <2>4. /\ f2 \in OpenFiles /\ Keeps(flash, e2, f2) /\ ~f2.writing /\ ~Writes(f2)
        /\ Pieces(flash, e2, f2) \subseteq Pieces(flash, e, f) /\ Outlined(f2)
    BY <1>2, <1>3, <1>4, <2>1, <2>2, <2>3, StoredKeeps
  <2>5. Go(f2, Others) /\ entry' = [entry EXCEPT ![h0] = e2]
    BY <1>4, <1>5, <2>1, <2>2 DEF DoStore
  <2>6. files' = [files EXCEPT ![h0] = f2] /\ call' = GoneOn(Others)
    BY <2>5, GoIs
  <2>7. World(flash, [entry EXCEPT ![h0] = e2], [files EXCEPT ![h0] = f2], free)
    <3>1. WindowType(free) /\ Eager(free)
      BY <1>2 DEF World
    <3> QED BY <1>2, <1>4, <2>3, <2>4, <3>1, WorldLess
  <2>8. World(flash', entry', [files EXCEPT ![h0] = f2], free')
    BY <1>1, <2>5, <2>7
  <2>9. Others # <<>> => Shaped(f2, Others)
    BY <1>3, <2>4, LeaveNext
  <2> QED BY <1>1, <1>2, <2>4, <2>6, <2>8, <2>9, StepKeeps
<1>6. CASE ~(file.dirty /\ ~file.erred)
  <2>1. Go(f, Others) /\ entry' = entry
    BY <1>4, <1>6 DEF DoStore
  <2>2. files' = [files EXCEPT ![h0] = f] /\ call' = GoneOn(Others)
    BY <2>1, GoIs
  <2>3. [files EXCEPT ![h0] = f] = files
    BY <1>2, <1>4
  <2>4. World(flash', entry', [files EXCEPT ![h0] = f], free')
    BY <1>1, <1>2, <2>1, <2>3
  <2>5. Others # <<>> => Shaped(f, Others)
    BY <1>3, <1>4, LeaveNext
  <2>6. ~Writes(f) /\ Outlined(f)
    BY <1>2, <1>3, <1>4 DEF Writes
  <2> QED BY <1>1, <1>2, <2>2, <2>4, <2>5, <2>6, StepKeeps
<1> QED BY <1>5, <1>6

(* A store that fails leaves the entry and marks the file.                 *)
LEMMA StoreFailsKeeps == ASSUME Inv, StoreFails PROVE Inv'
<1>1. /\ call # NoCall /\ Head(call.phases).do = "Store"
      /\ flash' = flash /\ free' = free /\ entry' = entry /\ missed' = missed /\ ops' = ops
      /\ GiveUp([file EXCEPT !.erred = TRUE])
  BY DEF StoreFails, Busy, First
<1>2. /\ h0 \in Handles /\ file = files[h0] /\ file \in OpenFiles /\ ~missed
      /\ World(flash, entry, files, free) /\ Keeps(flash, entry[h0], file)
      /\ Shaped(file, call.phases) /\ Outlined(file)
  BY <1>1, AtWork
<1>3. ~file.writing
  BY <1>1, <1>2, StoreNext
<1>4. PICK f \in OpenFiles : f = file
  BY <1>2
<1>5. PICK yes \in BOOLEAN : yes = TRUE
  OBVIOUS
<1>6. PICK f2 : f2 = [f EXCEPT !.erred = yes]
  OBVIOUS
<1>7. f2 \in OpenFiles
  BY <1>6 DEF OpenFiles
<1>8. SameFile(f2, f) /\ f2.writing = f.writing
  BY <1>6 DEF OpenFiles, SameFile
<1>9. GiveUp(f2)
  BY <1>1, <1>4, <1>5, <1>6
<1>10. /\ Keeps(flash, entry[h0], f2) /\ ~Writes(f2)
       /\ Pieces(flash, entry[h0], f2) \subseteq Pieces(flash, entry[h0], files[h0])
  BY <1>2, <1>3, <1>4, <1>7, <1>8, OtherPlace
<1>11. World(flash', entry', [files EXCEPT ![h0] = f2], free')
  BY <1>1, <1>2, <1>10, FileLess
<1>12. Outlined(f2)
  BY <1>2, <1>3, <1>4, <1>8 DEF Outlined, SameFile, OpenFiles
<1> QED BY <1>1, <1>2, <1>7, <1>9, <1>10, <1>11, <1>12, GiveUpKeeps

(* A closed file leaves its entry's list.                                  *)
LEMMA DoLeaveKeeps == ASSUME Inv, DoLeave PROVE Inv'
<1>1. /\ call # NoCall /\ Head(call.phases).do = "Leave"
      /\ flash' = flash /\ free' = free /\ entry' = entry /\ missed' = missed /\ ops' = ops
      /\ files' = [files EXCEPT ![h0] = Closed] /\ call' = NoCall
  BY DEF DoLeave, Busy, First
<1>2. /\ h0 \in Handles /\ file = files[h0] /\ file \in OpenFiles /\ ~missed
      /\ World(flash, entry, files, free) /\ Shaped(file, call.phases) /\ Outlined(file)
      /\ files \in [Handles -> FileSet]
  BY <1>1, AtWork
<1>3. ~file.writing
  BY <1>1, <1>2, SettledIs
<1>4. PICK f2 \in OpenFiles : f2 = file
  BY <1>2
<1>5. PICK fl, es, fr, fs, gs : /\ fl = flash' /\ es = entry' /\ fr = free' /\ fs = files'
                                /\ gs = [files EXCEPT ![h0] = f2]
  OBVIOUS
<1>6. World(fl, es, gs, fr) /\ fs \in {gs, [files EXCEPT ![h0] = Closed]}
  <2>1. gs = files
    BY <1>2, <1>4, <1>5
  <2> QED BY <1>1, <1>2, <1>5, <2>1
<1>7. Outlined(f2) /\ ~Writes(f2)
  BY <1>2, <1>3, <1>4 DEF Writes
<1>8. State(fl, es, fs, fr, NoCall, FALSE, ops)
  BY <1>1, <1>5, <1>6, <1>7, GivesUp
<1>9. State(flash', entry', files', free', call', missed', ops')
  BY <1>1, <1>2, <1>5, <1>8 DEF State
<1> QED BY <1>9 DEF Inv

(* After a loss of power there are only the entries.                       *)
LEMMA PowerLossKeeps == ASSUME Inv, PowerLoss PROVE Inv'
<1>1. PICK off \in Seeds : /\ free' = Fresh(off) /\ files' = [h \in Handles |-> Closed]
                           /\ call' = NoCall /\ flash' = flash /\ entry' = entry
                           /\ missed' = missed /\ ops' = ops
  BY DEF PowerLoss
<1>2. World(flash, entry, files, free) /\ ~missed /\ ops \in Nat
  BY DEF Inv, State
<1>3. WindowType(Fresh(off)) /\ Eager(Fresh(off)) /\ Vacants(Fresh(off)) = {}
  <2>1. off \in Nat /\ BlockCount \in Nat
    BY SeedsAssumption, BlockCountAssumption
  <2>2. Fresh(off) \in Windows
    BY <2>1 DEF Fresh, Windows
  <2> QED BY <2>1, <2>2 DEF Fresh, WindowType, Eager, Vacants
<1>4. PICK fs : fs = files' /\ fs = [h \in Handles |-> Closed]
  BY <1>1
<1>5. \A h \in Handles : fs[h] = Closed /\ ~fs[h].open
  BY <1>4 DEF Closed
<1>6. World(flash, entry, fs, Fresh(off))
  <2>1. fs \in [Handles -> FileSet]
    BY <1>4 DEF FileSet
  <2>2. ASSUME NEW h \in Handles PROVE Keeps(flash, entry[h], fs[h])
    <3>1. entry[h] \in Entries /\ EntryKeeps(flash, entry[h]) /\ fs[h] \in FileSet /\ ~fs[h].open
      BY <1>2, <1>5, <2>1 DEF World, Keeps
    <3> QED BY <3>1 DEF Keeps, HeadKeeps, TailKeeps, RecordKeeps, Clean, Writes
  <2>3. Alone(flash, entry, fs)
    BY <1>5 DEF Alone, Writes
  <2> QED BY <1>2, <1>3, <2>1, <2>2, <2>3 DEF World
<1>7. /\ \A h \in Handles : Outlined(fs[h])
      /\ BlankKeeps(fs, NoCall) /\ CallKeeps(fs, NoCall)
  BY <1>5 DEF Outlined, BlankKeeps, CallKeeps, Writes
<1>8. State(flash', entry', files', free', call', missed', ops')
  BY <1>1, <1>2, <1>4, <1>6, <1>7 DEF State
<1> QED BY <1>8 DEF Inv

-----------------------------------------------------------------------------
(* Calls that begin.                                                       *)
LEMMA AtRest ==
    ASSUME Inv, NEW h \in Handles, Ready(h)
    PROVE  /\ call = NoCall /\ ~missed /\ ops \in Nat
           /\ files[h] \in OpenFiles /\ Outlined(files[h]) /\ Keeps(flash, entry[h], files[h])
           /\ World(flash, entry, files, free) /\ files \in [Handles -> FileSet]
           /\ RecordKeeps(files[h]) /\ FlashType(flash)
           /\ \A k \in Handles : ~(Writes(files[k]) /\ files[k].pos = 0)
<1>1. call = NoCall /\ files[h].open
  BY DEF Ready
<1>2. /\ World(flash, entry, files, free) /\ files \in [Handles -> FileSet] /\ FlashType(flash)
      /\ Keeps(flash, entry[h], files[h]) /\ Outlined(files[h]) /\ ~missed /\ ops \in Nat
  BY DEF Inv, State, World
<1>3. files[h] \in OpenFiles
  BY <1>1, <1>2 DEF FileSet, Closed
<1>4. \A k \in Handles : ~(Writes(files[k]) /\ files[k].pos = 0)
  BY <1>1 DEF Inv, State, BlankKeeps
<1> QED BY <1>1, <1>2, <1>3, <1>4 DEF Keeps

(* The beginning of a call, which prepares the phases.                     *)
LEMMA BeginKeeps ==
    ASSUME Inv, NEW h \in Handles, Ready(h), NEW f2 \in OpenFiles, Outlined(f2),
           World(flash, entry, [files EXCEPT ![h] = f2], free), ~(Writes(f2) /\ f2.pos = 0),
           NEW phases, phases # <<>>, Shaped(f2, phases), NEW what, Begin(h, what, phases),
           files' = [files EXCEPT ![h] = f2]
    PROVE  Inv'
<1>1. /\ call = NoCall /\ ~missed /\ ops \in Nat /\ files \in [Handles -> FileSet]
      /\ \A k \in Handles : ~(Writes(files[k]) /\ files[k].pos = 0)
      /\ \A k \in Handles : Outlined(files[k])
  BY AtRest DEF Inv, State
<1>2. /\ flash' = flash /\ entry' = entry /\ free' = free /\ missed' = missed
      /\ ops' = ops + 1 /\ call' = [h |-> h, phases |-> phases]
  BY DEF Begin
<1>3. PICK fs, c2, n : fs = files' /\ c2 = call' /\ n = ops'
  OBVIOUS
<1>4. fs[h] = f2 /\ \A k \in Handles : k # h => fs[k] = files[k]
  BY <1>1, <1>3
<1>5. \A k \in Handles : Outlined(fs[k])
  BY <1>1, <1>4
<1>6. BlankKeeps(fs, c2)
  BY <1>1, <1>4 DEF BlankKeeps
<1>7. CallKeeps(fs, c2)
  <2>1. c2 = [h |-> h, phases |-> phases] /\ c2.h = h /\ c2.phases = phases
    BY <1>2, <1>3
  <2>2. f2.open
    BY DEF OpenFiles
  <2> QED BY <1>4, <2>1, <2>2 DEF CallKeeps
<1>8. n \in Nat
  BY <1>1, <1>2, <1>3
<1>9. World(flash, entry, fs, free)
  BY <1>3
<1>10. State(flash', entry', files', free', call', missed', ops')
  BY <1>1, <1>2, <1>3, <1>5, <1>6, <1>7, <1>8, <1>9 DEF State
<1> QED BY <1>10 DEF Inv

(* The same when the file stays as it is.                                  *)
LEMMA BeginAsItIs ==
    ASSUME Inv, NEW h \in Handles, Ready(h),
           NEW phases, phases # <<>>, Shaped(files[h], phases), NEW what, Begin(h, what, phases),
           files' = files
    PROVE  Inv'
<1>1. /\ files[h] \in OpenFiles /\ Outlined(files[h]) /\ files \in [Handles -> FileSet]
      /\ World(flash, entry, files, free) /\ ~(Writes(files[h]) /\ files[h].pos = 0)
  BY AtRest
<1>2. PICK f2 \in OpenFiles : f2 = files[h]
  BY <1>1
<1>3. [files EXCEPT ![h] = f2] = files
  BY <1>1, <1>2
<1> QED BY <1>1, <1>2, <1>3, BeginKeeps

(* Phases that begin with a flush fit a file that writes, too.             *)
LEMMA FlushFirst ==
    ASSUME NEW f, NEW back \in Nat, NEW all, Head(all) = Flush(back), Tail(all) # <<>>,
           Settled(Tail(all), FinalSize(f), f.inl)
    PROVE  Shaped(f, all)
BY DEF Shaped, Flush

(* What truncating and seeking end with.                                   *)
LEMMA EndingIs ==
    ASSUME NEW back \in Nat, NEW to \in Nat, NEW ph, ph = <<Flush(back), Move(to)>>
    PROVE  /\ ph # <<>> /\ Head(ph) = Flush(back) /\ Tail(ph) # <<>> /\ Ends(Tail(ph))
           /\ Returns(ph) /\ \A f : Shaped(f, ph)
<1>1. PICK a : a = Flush(back)
  OBVIOUS
<1>2. PICK b : b = Move(to)
  OBVIOUS
<1>3. a.do = "Flush" /\ a.back = back /\ b.do = "Move" /\ b.to = to
  BY <1>1, <1>2 DEF Flush, Move
<1>4. ph = <<a, b>>
  BY <1>1, <1>2
<1>5. ph # <<>> /\ Head(ph) = a /\ Tail(ph) = <<b>> /\ <<b>> # <<>> /\ Head(<<b>>) = b /\ Tail(<<b>>) = <<>>
  BY <1>4, HeadOfList
<1>6. Ends(Tail(ph)) /\ Returns(ph)
  BY <1>3, <1>5 DEF Ends, Returns
<1>7. ASSUME NEW f PROVE Shaped(f, ph)
  <2>1. Settled(Tail(ph), FinalSize(f), f.inl)
    BY <1>6 DEF Settled
  <2> QED BY <1>1, <1>5, <2>1, FlushFirst
<1> QED BY <1>1, <1>5, <1>6, <1>7

(* lfs_file_seek keeps the invariant.                                      *)
LEMMA SeekKeeps == ASSUME Inv, NEW h \in Handles, NEW to \in Nat, Seek(h, to) PROVE Inv'
<1>1. Ready(h) /\ files' = files
  BY DEF Seek
<1>2. PICK phases : phases = <<Flush(files[h].pos), Move(to)>>
  OBVIOUS
<1>3. PICK what : Begin(h, what, phases)
  BY <1>2 DEF Seek
<1>4. files[h].pos \in Nat
  BY <1>1, AtRest DEF OpenFiles
<1>5. phases # <<>> /\ Shaped(files[h], phases)
  BY <1>2, <1>4, EndingIs
<1> QED BY <1>1, <1>3, <1>5, BeginAsItIs

(* lfs_file_sync keeps the invariant.                                      *)
LEMMA SyncKeeps == ASSUME Inv, NEW h \in Handles, Sync(h) PROVE Inv'
<1>1. Ready(h) /\ files' = files
  BY DEF Sync
<1>2. PICK phases : phases = <<Flush(files[h].pos), Store>>
  OBVIOUS
<1>3. PICK what : Begin(h, what, phases)
  BY <1>2 DEF Sync
<1>4. files[h].pos \in Nat
  BY <1>1, AtRest DEF OpenFiles
<1>5. phases # <<>> /\ Head(phases) = Flush(files[h].pos) /\ Tail(phases) = <<Store>> /\ <<Store>> # <<>>
  BY <1>2, HeadOfList
<1>6. Shaped(files[h], phases)
  BY <1>4, <1>5, FlushFirst DEF Settled
<1> QED BY <1>1, <1>3, <1>5, <1>6, BeginAsItIs

(* lfs_file_close keeps the invariant.                                     *)
LEMMA CloseKeeps == ASSUME Inv, NEW h \in Handles, Close(h) PROVE Inv'
<1>1. Ready(h) /\ files' = files
  BY DEF Close
<1>2. PICK phases : phases = <<Flush(files[h].pos), Store, Leave>>
  OBVIOUS
<1>3. PICK what : Begin(h, what, phases)
  BY <1>2 DEF Close
<1>4. files[h].pos \in Nat
  BY <1>1, AtRest DEF OpenFiles
<1>5. /\ phases # <<>> /\ Head(phases) = Flush(files[h].pos) /\ Tail(phases) = <<Store, Leave>>
      /\ <<Store, Leave>> # <<>>
  BY <1>2, HeadOfList
<1>6. Shaped(files[h], phases)
  BY <1>4, <1>5, FlushFirst DEF Settled
<1> QED BY <1>1, <1>3, <1>5, <1>6, BeginAsItIs

(* lfs_file_read keeps the invariant.                                      *)
LEMMA ReadKeeps == ASSUME Inv, NEW h \in Handles, Read(h) PROVE Inv'
<1>1. Ready(h) /\ files' = files
  BY DEF Read
<1>2. PICK phases : phases = (IF files[h].writing THEN <<Flush(files[h].pos)>> ELSE <<>>) \o <<Get>>
  OBVIOUS
<1>3. PICK what : Begin(h, what, phases)
  BY <1>2 DEF Read
<1>4. files[h].pos \in Nat
  BY <1>1, AtRest DEF OpenFiles
<1>05. PICK b : b = Get
  OBVIOUS
<1>5. b = Get /\ b.do = "Get"
  BY <1>05 DEF Get
<1>6. Head(<<b>>) = b /\ Tail(<<b>>) = <<>> /\ <<b>> # <<>>
  BY HeadOfList
<1>7. CASE files[h].writing
  <2>1. PICK a : a = Flush(files[h].pos)
    OBVIOUS
  <2>2. phases = <<a>> \o <<b>>
    BY <1>2, <1>5, <1>7, <2>1
  <2>3. phases = <<a, b>>
    BY <2>2, TwoJoined
  <2>4. phases # <<>> /\ Head(phases) = a /\ Tail(phases) = <<b>>
    BY <2>3, HeadOfList
  <2>5. Settled(Tail(phases), FinalSize(files[h]), files[h].inl)
    BY <1>5, <1>6, <2>4 DEF Settled
  <2>6. Shaped(files[h], phases)
    BY <1>4, <1>6, <2>1, <2>4, <2>5, FlushFirst
  <2> QED BY <1>1, <1>3, <2>4, <2>6, BeginAsItIs
<1>8. CASE ~files[h].writing
  <2>1. phases = <<>> \o <<b>>
    BY <1>2, <1>5, <1>8
  <2>2. phases = <<b>>
    BY <2>1, JoinedToNone
  <2>3. Settled(phases, files[h].size, files[h].inl)
    BY <1>5, <1>6, <2>2 DEF Settled
  <2>4. Shaped(files[h], phases)
    BY <1>8, <2>3 DEF Shaped
  <2> QED BY <1>1, <1>3, <1>6, <2>2, <2>4, BeginAsItIs
<1> QED BY <1>7, <1>8

(* lfs_file_truncate keeps the invariant.                                  *)
LEMMA TruncateKeeps == ASSUME Inv, NEW h \in Handles, NEW size \in Nat, Truncate(h, size) PROVE Inv'
<1>1. Ready(h) /\ files' = files
  BY DEF Truncate
<1>2. PICK f \in OpenFiles : f = files[h] /\ RecordKeeps(f)
  BY <1>1, AtRest
<1>3. f.pos \in Nat /\ f.size \in Nat /\ f.open
  BY DEF OpenFiles
<1>4. PICK old \in Nat : old = FinalSize(f) /\ old = IF f.writing THEN Longer(f.pos, f.size) ELSE f.size
  BY <1>3 DEF FinalSize, Longer
<1>5. PICK p, a, b, c, d, m :
          /\ p \in Nat /\ p = f.pos /\ a = Flush(p) /\ b = Move(p) /\ m = Move(old)
          /\ c = Cut(size) /\ d = Fill(size)
  BY <1>3
<1>6. /\ c.do = "Cut" /\ c.to = size /\ d.do = "Fill" /\ d.to = size /\ m.do = "Move" /\ m.to = old
  BY <1>5 DEF Cut, Fill, Move
<1>7. PICK phases : phases = (IF size < old THEN <<a, c>>
                              ELSE IF size = old THEN <<>>
                              ELSE (IF p = old THEN <<>> ELSE <<a, m>>) \o <<d>>)
                             \o <<a, b>>
  OBVIOUS
<1>8. Careful => f.inl \/ size >= old \/ size = 0 \/ (size % BlockSize) # 0
  BY <1>2, <1>4 DEF Truncate
<1>9. PICK what : Begin(h, what, phases)
  <2>1. Begin(h, F(h)!Truncate(Bytes0(h), f.pos, size), phases)
    BY <1>2, <1>4, <1>5, <1>7, Zenon DEF Truncate
  <2> QED BY <2>1, SMTT(30)
<1>10. PICK last : last = <<a, b>>
  OBVIOUS
<1>11. last # <<>> /\ Returns(last) /\ \A g : Shaped(g, last)
  BY <1>5, <1>10, EndingIs
<1>12. CASE size < old
  <2>1. phases = <<a, c>> \o <<a, b>>
    BY <1>7, <1>12
  <2>2. phases = <<a, c, a, b>>
    BY <2>1, FourJoined
  <2>3. /\ phases # <<>> /\ Head(phases) = a /\ Tail(phases) = <<c, a, b>>
        /\ <<c, a, b>> # <<>> /\ Head(<<c, a, b>>) = c /\ Tail(<<c, a, b>>) = <<a, b>>
    BY <2>2, HeadOfList
  <2>4. f.inl \/ size = 0 \/ (size % BlockSize) # 0
    <3>1. Careful
      BY DEF Inv
    <3>2. ~(size >= old)
      BY <1>12
    <3> QED BY <1>8, <3>1, <3>2
  <2>5. Cuts(Tail(phases), old, f.inl)
    BY <1>6, <1>10, <1>11, <1>12, <2>3, <2>4 DEF Cuts
  <2>6. Settled(Tail(phases), FinalSize(f), f.inl)
    BY <1>4, <2>5 DEF Settled
  <2>7. Shaped(f, phases)
    BY <1>5, <2>3, <2>6, FlushFirst
  <2> QED BY <1>1, <1>2, <1>9, <2>3, <2>7, BeginAsItIs
<1>13. CASE size = old
  <2>1. phases = <<>> \o <<a, b>>
    <3>1. ~(size < old)
      BY <1>13
    <3> QED BY <1>7, <1>13, <3>1
  <2>2. phases = last
    BY <1>10, <2>1, JoinedToNone
  <2> QED BY <1>1, <1>2, <1>9, <1>11, <2>2, BeginAsItIs
<1>14. CASE size > old /\ p = old
  <2>1. phases = (<<>> \o <<d>>) \o <<a, b>>
    <3>1. ~(size < old) /\ size # old
      BY <1>14
    <3> QED BY <1>7, <1>14, <3>1
  <2>2. phases = <<d, a, b>>
    BY <2>1, JoinedToNone, ThreeJoined
  <2>3. phases # <<>> /\ Head(phases) = d /\ Tail(phases) = <<a, b>>
    BY <2>2, HeadOfList
  <2>4. p <= size
    BY <1>14
  <2>5. Fills(phases, p)
    BY <1>6, <1>10, <1>11, <2>3, <2>4 DEF Fills
  <2>6. CanWrite(f)
    BY <1>3, <1>4, <1>5, <1>14 DEF CanWrite, Longer
  <2>7. Shaped(f, phases)
    BY <1>5, <2>5, <2>6 DEF Shaped
  <2> QED BY <1>1, <1>2, <1>9, <2>3, <2>7, BeginAsItIs
<1>15. CASE size > old /\ p # old
  <2>1. phases = (<<a, m>> \o <<d>>) \o <<a, b>>
    <3>1. ~(size < old) /\ size # old
      BY <1>15
    <3> QED BY <1>7, <1>15, <3>1
  <2>2. phases = <<a, m, d, a, b>>
    <3>1. <<a, m>> \o <<d>> = <<a, m, d>>
      BY ThreeJoined
    <3>2. <<a, m, d>> \o <<a, b>> = <<a, m, d, a, b>>
      BY FiveJoined
    <3> QED BY <2>1, <3>1, <3>2
  <2>3. /\ phases # <<>> /\ Head(phases) = a /\ Tail(phases) = <<m, d, a, b>>
        /\ <<m, d, a, b>> # <<>> /\ Head(<<m, d, a, b>>) = m /\ Tail(<<m, d, a, b>>) = <<d, a, b>>
        /\ <<d, a, b>> # <<>> /\ Head(<<d, a, b>>) = d /\ Tail(<<d, a, b>>) = <<a, b>>
    BY <2>2, HeadOfList
  <2>4. old <= size
    BY <1>15
  <2>5. Fills(<<d, a, b>>, old)
    BY <1>6, <1>10, <1>11, <2>3, <2>4 DEF Fills
  <2>6. Grows(Tail(phases), old)
    BY <1>6, <2>3, <2>5 DEF Grows
  <2>7. Settled(Tail(phases), FinalSize(f), f.inl)
    BY <1>4, <2>6 DEF Settled
  <2>8. Shaped(f, phases)
    BY <1>5, <2>3, <2>7, FlushFirst
  <2> QED BY <1>1, <1>2, <1>9, <2>3, <2>8, BeginAsItIs
<1> QED BY <1>12, <1>13, <1>14, <1>15

(* A file that is read no more.                                            *)
LEMMA SamePlace ==
    ASSUME NEW fl, NEW e, NEW f \in OpenFiles, Keeps(fl, e, f),
           NEW f2 \in OpenFiles, SameFile(f2, f), f2.writing = f.writing, f2.block = f.block,
           f2.off = f.off, f2.pos = f.pos
    PROVE  Keeps(fl, e, f2) /\ Pieces(fl, e, f2) = Pieces(fl, e, f)
<1>1. f.open /\ f2.open /\ f2.inl = f.inl
  BY DEF OpenFiles, SameFile
<1>2. Writes(f2) = Writes(f)
  BY <1>1 DEF Writes
<1>3. HeadKeeps(fl, f2)
  BY <1>1 DEF Keeps, HeadKeeps, SameFile
<1>4. TailKeeps(fl, f2)
  BY <1>2 DEF Keeps, TailKeeps
<1>5. RecordKeeps(f2)
  BY <1>1 DEF Keeps, RecordKeeps, SameFile
<1>6. Clean(e, f2)
  BY <1>1 DEF Keeps, Clean, SameFile
<1>7. Keeps(fl, e, f2)
  BY <1>3, <1>4, <1>5, <1>6 DEF Keeps, FileSet
<1>8. Pieces(fl, e, f2) = Pieces(fl, e, f)
  BY <1>1, <1>2 DEF Pieces, HeadOf, TailOf, SameFile
<1> QED BY <1>7, <1>8

(* lfs_file_write(): zeros go before what is written behind the end.       *)
LEMMA WriteKeeps ==
    ASSUME Inv, NEW h \in Handles, NEW n \in Nat \ {0}, Write(h, n)
    PROVE  Inv'
<1>1. Ready(h)
  BY DEF Write
<1>2. PICK f \in OpenFiles : f = files[h] /\ RecordKeeps(f) /\ Outlined(f) /\ Keeps(flash, entry[h], f)
  BY <1>1, AtRest
<1>3. f.pos \in Nat /\ f.size \in Nat /\ f.open
  BY DEF OpenFiles
<1>4. PICK pos \in Nat : pos = IF f.append /\ f.pos < f.size THEN f.size ELSE f.pos
  BY <1>3
<1>5. PICK gap \in BOOLEAN : gap <=> (~f.writing /\ pos > f.size)
  <2>1. CASE ~f.writing /\ pos > f.size
    BY <2>1
  <2>2. CASE ~(~f.writing /\ pos > f.size)
    BY <2>2
  <2> QED BY <2>1, <2>2
<1>6. PICK p \in Nat : p = IF gap THEN f.size ELSE pos
  BY <1>3, <1>4
<1>7. PICK no \in BOOLEAN : no = FALSE
  OBVIOUS
<1>8. PICK f2 : f2 = [f EXCEPT !.reading = no, !.pos = p]
  OBVIOUS
<1>9. f2 \in OpenFiles
  BY <1>8 DEF OpenFiles
<1>10. /\ SameFile(f2, f) /\ f2.writing = f.writing /\ f2.block = f.block /\ f2.off = f.off
       /\ f2.pos = p /\ f2.append = f.append /\ f2.size = f.size /\ f2.inl = f.inl /\ f2.head = f.head
  BY <1>8 DEF OpenFiles, SameFile
<1>11. files' = [files EXCEPT ![h] = f2]
  BY <1>2, <1>4, <1>5, <1>6, <1>7, <1>8 DEF Write
<1>12. PICK v \in Int : v = ops + 1
  BY AtRest, <1>1
<1>13. PICK phases : phases = (IF gap THEN <<Fill(pos)>> ELSE <<>>) \o <<Put(v, n)>>
  OBVIOUS
<1>14. PICK what : Begin(h, what, phases)
  <2>1. Begin(h, F(h)!Write(Bytes0(h), pos, ops + 1, n), phases)
    BY <1>2, <1>4, <1>5, <1>12, <1>13 DEF Write
  <2> QED BY <2>1
<1>15. f.writing => p = f.pos
  <2>1. SUFFICES ASSUME f.writing PROVE p = f.pos
    OBVIOUS
  <2>2. ~gap
    BY <1>5, <2>1
  <2>3. f.append => f.pos >= f.size
    BY <1>2, <1>3, <2>1 DEF RecordKeeps
  <2>4. ~(f.append /\ f.pos < f.size)
    BY <1>3, <2>3
  <2> QED BY <1>4, <1>6, <2>2, <2>4
<1>16. CanWrite(f2)
  <2>1. f.writing \/ p <= f.size
    <3>1. CASE gap
      <4>1. p = f.size
        BY <1>6, <3>1
      <4> QED BY <1>3, <4>1
    <3>2. CASE ~gap
      <4>1. f.writing \/ ~(pos > f.size)
        BY <1>5, <3>2
      <4>2. p = pos
        BY <1>6, <3>2
      <4> QED BY <1>3, <4>1, <4>2
    <3> QED BY <3>1, <3>2
  <2>2. f.append => p >= f.size
    BY <1>3, <1>4, <1>6
  <2> QED BY <1>10, <2>1, <2>2 DEF CanWrite
<1>17. /\ Keeps(flash, entry[h], f2) /\ Pieces(flash, entry[h], f2) \subseteq Pieces(flash, entry[h], f)
       /\ Writes(f2) => Writes(f) /\ p = f.pos
  <2>1. CASE f.writing
    <3>1. Keeps(flash, entry[h], f2) /\ Pieces(flash, entry[h], f2) = Pieces(flash, entry[h], f)
      BY <1>2, <1>9, <1>10, <1>15, <2>1, SamePlace
    <3>2. Writes(f2) => Writes(f)
      BY <1>3, <1>10 DEF Writes
    <3> QED BY <1>15, <2>1, <3>1, <3>2
  <2>2. CASE ~f.writing
    BY <1>2, <1>9, <1>10, <2>2, OtherPlace
  <2> QED BY <2>1, <2>2
<1>18. World(flash, entry, files, free) /\ ~(Writes(f) /\ f.pos = 0)
  BY <1>1, <1>2, AtRest
<1>19. World(flash, entry, [files EXCEPT ![h] = f2], free)
  <2>1. Writes(f2) => Writes(files[h]) /\ f2.block = files[h].block /\ f2.block \notin HeadOf(flash, f2)
    <3>1. Writes(f) => f.block \notin HeadOf(flash, f)
      BY <1>2, <1>18 DEF World, Alone
    <3>2. HeadOf(flash, f2) = HeadOf(flash, f)
      <4>1. f2.open = f.open
        BY <1>3, <1>9 DEF OpenFiles
      <4> QED BY <1>10, <4>1 DEF HeadOf
    <3> QED BY <1>2, <1>10, <1>17, <3>1, <3>2
  <2> QED BY <1>2, <1>17, <1>18, <2>1, FileLess
<1>20. ~(Writes(f2) /\ f2.pos = 0)
  BY <1>10, <1>17, <1>18
<1>21. Outlined(f2)
  BY <1>2, <1>3, <1>10 DEF Outlined
<1>22. phases # <<>> /\ Shaped(f2, phases)
  <2>1. PICK b : b = Put(v, n)
    OBVIOUS
  <2>2. b.do = "Put" /\ b.val = v /\ b.n = n
    BY <2>1 DEF Put
  <2>3. Head(<<b>>) = b /\ Tail(<<b>>) = <<>> /\ <<b>> # <<>>
    BY HeadOfList
  <2>4. Puts(<<b>>)
    BY <2>2, <2>3 DEF Puts
  <2>5. CASE gap
    <3>1. PICK a : a = Fill(pos)
      OBVIOUS
    <3>2. a.do = "Fill" /\ a.to = pos
      BY <3>1 DEF Fill
    <3>3. phases = <<a>> \o <<b>>
      BY <1>13, <2>1, <2>5, <3>1
    <3>4. phases = <<a, b>>
      BY <3>3, TwoJoined
    <3>5. phases # <<>> /\ Head(phases) = a /\ Tail(phases) = <<b>>
      BY <3>4, HeadOfList
    <3>6. p <= pos
      <4>1. p = f.size /\ pos > f.size
        BY <1>5, <1>6, <2>5
      <4> QED BY <1>3, <4>1
    <3>7. Fills(phases, p)
      BY <2>3, <2>4, <3>2, <3>5, <3>6 DEF Fills
    <3> QED BY <1>10, <1>16, <3>5, <3>7 DEF Shaped
  <2>6. CASE ~gap
    <3>1. phases = <<>> \o <<b>>
      BY <1>13, <2>1, <2>6
    <3>2. phases = <<b>>
      BY <3>1, JoinedToNone
    <3> QED BY <1>16, <2>3, <2>4, <3>2 DEF Shaped
  <2> QED BY <2>5, <2>6
<1> QED BY <1>1, <1>9, <1>11, <1>14, <1>19, <1>20, <1>21, <1>22, BeginKeeps

(* lfs_file_open(): the file is what its entry says, or it is emptied.     *)
Opened(e, append, trunc) ==
    [open |-> TRUE, append |-> append, inl |-> e.inl, head |-> e.head,
     size |-> e.size, cache |-> e.bytes, pos |-> 0, block |-> None, off |-> 0,
     dirty |-> trunc, writing |-> FALSE, reading |-> FALSE, erred |-> FALSE]

(* The entry of a file opened to be truncated.                             *)
Emptied == [inl |-> TRUE, head |-> Inline, bytes |-> <<>>, size |-> 0]

(* What a handle is opened with.                                           *)
LEMMA RecordIs ==
    ASSUME NEW e \in Entries, NEW append \in BOOLEAN, NEW trunc \in BOOLEAN,
           NEW f, f = Opened(e, append, trunc)
    PROVE  /\ f \in OpenFiles /\ f.open /\ f.inl = e.inl /\ f.head = e.head /\ f.size = e.size
           /\ f.cache = e.bytes /\ f.dirty = trunc /\ ~f.writing
<1>1. PICK inl \in BOOLEAN, head \in Blocks \cup {Inline}, size \in Nat, bytes \in Seq(Int) :
          inl = e.inl /\ head = e.head /\ size = e.size /\ bytes = e.bytes
  BY DEF Entries
<1>2. PICK none \in Blocks \cup {None, Inline} : none = None
  OBVIOUS
<1>3. PICK no \in BOOLEAN : no = FALSE
  OBVIOUS
<1>4. PICK zero \in Nat : zero = 0
  OBVIOUS
<1>5. PICK g : g = [open |-> TRUE, append |-> append, inl |-> inl, head |-> head,
                    size |-> size, cache |-> bytes, pos |-> zero, block |-> none, off |-> zero,
                    dirty |-> trunc, writing |-> no, reading |-> no, erred |-> no]
  OBVIOUS
<1>6. f = g
  BY <1>1, <1>2, <1>3, <1>4, <1>5 DEF Opened
<1>7. g \in OpenFiles
  BY <1>5 DEF OpenFiles
<1>8. /\ g.open /\ g.inl = inl /\ g.head = head /\ g.size = size
      /\ g.cache = bytes /\ g.dirty = trunc /\ g.writing = no
  BY <1>5
<1> QED BY <1>1, <1>3, <1>6, <1>7, <1>8

(* A file just opened has the list of its entry, or none if it is          *)
(* truncated.                                                              *)
LEMMA OpenedKeeps ==
    ASSUME NEW fl, NEW e \in Entries, EntryKeeps(fl, e), NEW append \in BOOLEAN, NEW trunc \in BOOLEAN,
           NEW f2, f2 = Opened(IF trunc THEN Emptied ELSE e, append, trunc)
    PROVE  /\ f2 \in OpenFiles /\ Keeps(fl, e, f2) /\ ~Writes(f2) /\ Outlined(f2)
           /\ HeadOf(fl, f2) \subseteq EntryOf(fl, e)
<1>1. PICK e2 : e2 = IF trunc THEN Emptied ELSE e
  OBVIOUS
<1>2. e2 \in Entries /\ EntryKeeps(fl, e2)
  <2>1. CASE trunc
    <3>1. PICK bytes \in Seq(Int) : bytes = <<>> /\ Len(bytes) = 0
      <4>1. <<>> \in Seq(Int) /\ Len(<<>>) = 0
        OBVIOUS
      <4> QED BY <4>1, Zenon
    <3>2. e2 = [inl |-> TRUE, head |-> Inline, bytes |-> bytes, size |-> 0]
      BY <1>1, <2>1, <3>1 DEF Emptied
    <3>3. e2 \in Entries
      BY <3>2 DEF Entries
    <3>4. 0 <= InlineMax
      BY InlineAssumption, BlockSizeAssumption
    <3> QED BY <3>1, <3>2, <3>3, <3>4 DEF EntryKeeps
  <2>2. CASE ~trunc
    BY <1>1, <2>2
  <2> QED BY <2>1, <2>2
<1>3. e2.inl \in BOOLEAN /\ e2.head \in Blocks \cup {Inline} /\ e2.size \in Nat /\ e2.bytes \in Seq(Int)
  BY <1>2 DEF Entries
<1>7. /\ f2 \in OpenFiles /\ f2.open /\ f2.inl = e2.inl /\ f2.head = e2.head
      /\ f2.size = e2.size /\ f2.cache = e2.bytes /\ f2.dirty = trunc /\ ~f2.writing
  BY <1>1, <1>2, RecordIs
<1>8. f2.open /\ ~f2.writing /\ ~Writes(f2)
  BY <1>7 DEF Writes
<1>9. e2.inl => e2.head = Inline /\ e2.size = Len(e2.bytes) /\ e2.size <= InlineMax
  BY <1>2 DEF EntryKeeps
<1>10. ~e2.inl => HasList(fl, e2.head, e2.size) /\ e2.head # Inline
  <2>1. \A x \in Blocks : x # Inline
    BY BlockCountAssumption DEF Blocks, Inline
  <2> QED BY <1>2, <2>1 DEF EntryKeeps, HasList
<1>11. HeadKeeps(fl, f2) /\ RecordKeeps(f2)
  BY <1>7, <1>8, <1>9, <1>10 DEF HeadKeeps, RecordKeeps
<1>12. Clean(e, f2)
  <2>1. CASE trunc
    BY <1>7, <2>1 DEF Clean
  <2>2. CASE ~trunc
    <3>1. e2 = e
      BY <1>1, <2>2
    <3>2. e.inl = (e.head = Inline)
      <4>1. CASE e.inl
        BY <1>9, <3>1, <4>1
      <4>2. CASE ~e.inl
        BY <1>3, <1>10, <3>1, <4>2
      <4> QED BY <4>1, <4>2
    <3> QED BY <1>7, <3>1, <3>2 DEF Clean
  <2> QED BY <2>1, <2>2
<1>13. Keeps(fl, e, f2)
  BY <1>7, <1>8, <1>11, <1>12 DEF Keeps, FileSet, TailKeeps
<1>14. Outlined(f2)
  BY <1>7, <1>10 DEF Outlined
<1>15. HeadOf(fl, f2) \subseteq EntryOf(fl, e)
  <2>1. CASE trunc
    <3>1. e2.head = Inline
      BY <1>1, <2>1 DEF Emptied
    <3> QED BY <1>7, <3>1 DEF HeadOf
  <2>2. CASE ~trunc
    <3>1. e2 = e
      BY <1>1, <2>2
    <3>2. e.inl => HeadOf(fl, f2) = {}
      BY <1>7, <1>9, <3>1 DEF HeadOf
    <3>3. ~e.inl => HeadOf(fl, f2) = EntryOf(fl, e)
      BY <1>7, <1>8, <1>10, <3>1 DEF HeadOf, EntryOf
    <3> QED BY <3>2, <3>3
  <2> QED BY <2>1, <2>2
<1> QED BY <1>7, <1>8, <1>13, <1>14, <1>15

(* lfs_file_opencfg keeps the invariant.                                   *)
LEMMA OpenKeeps == ASSUME Inv, NEW h \in Handles, NEW trunc \in BOOLEAN, Open(h, trunc) PROVE Inv'
<1>1. /\ call = NoCall /\ call' = call /\ flash' = flash /\ entry' = entry /\ free' = free
      /\ missed' = missed
  BY DEF Open
<1>01. ops' = ops
  BY DEF Open
<1>2. /\ World(flash, entry, files, free) /\ files \in [Handles -> FileSet]
      /\ entry \in [Handles -> Entries] /\ ~missed /\ ops \in Nat
      /\ \A k \in Handles : Outlined(files[k])
      /\ Keeps(flash, entry[h], files[h])
  BY DEF Inv, State, World
<1>3. PICK e \in Entries : e = entry[h] /\ EntryKeeps(flash, e)
  BY <1>2 DEF Keeps
<1>4. PICK append \in BOOLEAN : append = (h \in Appenders)
  <2>1. (h \in Appenders) \in BOOLEAN
    OBVIOUS
  <2> QED BY <2>1, Zenon
<1>5. PICK f2 : f2 = Opened(IF trunc THEN Emptied ELSE e, append, trunc)
  OBVIOUS
<1>6. files' = [files EXCEPT ![h] = f2]
  BY <1>3, <1>4, <1>5 DEF Open, Opened, Emptied
<1>7. /\ f2 \in OpenFiles /\ Keeps(flash, e, f2) /\ ~Writes(f2) /\ Outlined(f2)
      /\ HeadOf(flash, f2) \subseteq EntryOf(flash, e)
  BY <1>3, <1>5, OpenedKeeps
<1>8. Pieces(flash, e, f2) \subseteq Pieces(flash, e, files[h])
  BY <1>7 DEF Pieces, TailOf
<1>9. World(flash, entry, [files EXCEPT ![h] = f2], free)
  BY <1>2, <1>3, <1>7, <1>8, FileLess
<1>10. PICK fs : fs = files'
  OBVIOUS
<1>11. fs[h] = f2 /\ \A k \in Handles : k # h => fs[k] = files[k]
  BY <1>2, <1>6, <1>10
<1>12. \A k \in Handles : Outlined(fs[k])
  BY <1>2, <1>7, <1>11
<1>13. BlankKeeps(fs, call)
  <2>1. \A k \in Handles : ~(Writes(files[k]) /\ files[k].pos = 0)
    BY <1>1 DEF Inv, State, BlankKeeps
  <2> QED BY <1>7, <1>11, <2>1 DEF BlankKeeps
<1>14. CallKeeps(fs, call)
  BY <1>1 DEF CallKeeps
<1>15. State(flash', entry', files', free', call', missed', ops')
  BY <1>1, <1>01, <1>2, <1>6, <1>9, <1>10, <1>12, <1>13, <1>14 DEF State
<1> QED BY <1>15 DEF Inv

-----------------------------------------------------------------------------
(* One unit of a write.                                                    *)
LEMMA RoomIs ==
    ASSUME Inv, call # NoCall, ~file.inl, CanWrite(file), NEW h \in Handles, h = h0,
           NEW f \in OpenFiles, f = file, NEW r, r = Room(f)
    PROVE  /\ r.block \in Blocks \cup {None}
           /\ r.block = None => NoRoom(f, r) /\ ~(f.writing /\ f.pos = 0)
           /\ r.block # None =>
                /\ r.block = r.file.block /\ r.file.pos = f.pos /\ r.file.erred = f.erred
                /\ NewRoom(f, h, r)
<1>1. /\ World(flash, entry, files, free) /\ f = files[h] /\ TailKeeps(flash, f) /\ Outlined(f)
      /\ OthersWrote(files, h) /\ ~f.inl /\ CanWrite(f)
  BY AtWork
<1>2. f.open /\ f.off \in Nat /\ BlockSize \in Nat
  BY BlockSizeAssumption DEF OpenFiles
<1>3. CASE f.writing /\ f.off < BlockSize
  <2>1. r = [free |-> free, block |-> f.block, full |-> FALSE, flash |-> flash, file |-> f]
    BY <1>3 DEF Room
  <2>2. r.free = free /\ r.block = f.block /\ r.flash = flash /\ r.file = f
    BY <2>1
  <2>3. Writes(f)
    BY <1>1, <1>2, <1>3 DEF Writes
  <2>4. f.block \in Blocks /\ f.block # None
    <3>1. f.block \in Blocks
      BY <1>1, <2>3 DEF TailKeeps
    <3> QED BY <3>1, BlockCountAssumption DEF Blocks, None
  <2>5. PICK c : /\ HasRoom(flash, f, c, Bytes(flash, f.block, f.pos))
                 /\ Fits(flash, entry, files, h, flash, f, free, c)
    BY <1>1, <1>3, <2>3, RoomThere
  <2>6. Precedes(f, Bytes(flash, f.block, f.pos))
    BY <1>3 DEF Precedes
  <2>7. RoomAfter(f, h, r, Bytes(flash, f.block, f.pos))
    BY <2>2, <2>5, <2>6 DEF RoomAfter
  <2> QED BY <2>2, <2>4, <2>7 DEF NewRoom
<1>4. CASE ~(f.writing /\ f.off < BlockSize)
  <2>1. r = Extension(f)
    BY <1>4 DEF Room
  <2>2. f.writing => f.off >= BlockSize
    BY <1>2, <1>4
  <2>3. /\ r.block \in Blocks \cup {None}
        /\ r.block = None => NoRoom(f, r)
        /\ r.block # None =>
             /\ r.file = [f EXCEPT !.block = r.block, !.off = f.pos % BlockSize, !.writing = TRUE]
             /\ NewRoom(f, h, r)
    BY <1>1, <2>1, <2>2, ExtensionIs, ZenonT(40)
  <2>4. r.block # None => r.block = r.file.block /\ r.file.pos = f.pos /\ r.file.erred = f.erred
    <3>1. SUFFICES ASSUME r.block # None
                   PROVE  r.block = r.file.block /\ r.file.pos = f.pos /\ r.file.erred = f.erred
      OBVIOUS
    <3>2. PICK b, off, g : b = r.block /\ off = f.pos % BlockSize /\ g = r.file
      OBVIOUS
    <3>3. g = [f EXCEPT !.block = b, !.off = off, !.writing = TRUE]
      BY <2>3, <3>1, <3>2
    <3>4. g.block = b /\ g.pos = f.pos /\ g.erred = f.erred
      BY <3>3 DEF OpenFiles
    <3> QED BY <3>2, <3>4
  <2>5. ~(f.writing /\ f.pos = 0)
    <3> SUFFICES ASSUME f.writing, f.pos = 0 PROVE FALSE
      OBVIOUS
    <3>1. f.off = 0
      BY <1>1, <1>2 DEF TailKeeps, Writes
    <3> QED BY <2>2, <3>1, BlockSizeAssumption
  <2> QED BY <2>3, <2>4, <2>5
<1> QED BY <1>3, <1>4

(* The world does not depend on a window with nothing in it.               *)
LEMMA WindowGone ==
    ASSUME NEW fl, NEW es, NEW fs, NEW fr, World(fl, es, fs, fr),
           NEW fr2, WindowType(fr2), Eager(fr2), Vacants(fr2) = {}
    PROVE  World(fl, es, fs, fr2)
BY DEF World

(* What other files and the entries hold does not depend on what is        *)
(* written to a file.                                                      *)
LEMMA OthersHeld ==
    ASSUME NEW fl, NEW es, NEW fs, NEW fr, World(fl, es, fs, fr), NEW h \in Handles,
           fs[h].open, ~fs[h].inl,
           NEW fl2, FlashType(fl2), \A x \in Held(fl, es, Unwritten(fs, h)) : fl2[x] = fl[x],
           NEW g \in OpenFiles, SameFile(g, fs[h])
    PROVE  /\ Held(fl2, es, Unwritten(With(fs, h, g), h)) = Held(fl, es, Unwritten(fs, h))
           /\ \A k \in Handles : EntryOf(fl2, es[k]) = EntryOf(fl, es[k])
           /\ \A k \in Handles : k # h => With(fs, h, g)[k] = fs[k]
<1>0. PICK gs, us : gs = With(fs, h, g) /\ us = Unwritten(gs, h)
  OBVIOUS
<1>1. PICK vs : vs = Unwritten(fs, h)
  OBVIOUS
<1>2. fs \in [Handles -> FileSet] /\ FlashType(fl) /\ WindowType(fr) /\ Eager(fr)
  BY DEF World
<1>3. /\ World(fl, es, vs, fr)
      /\ vs[h] = [fs[h] EXCEPT !.writing = FALSE] /\ ~Writes(vs[h])
      /\ \A k \in Handles : k # h => vs[k] = fs[k]
      /\ HeadOf(fl, vs[h]) = HeadOf(fl, fs[h])
  BY <1>1, <1>2, UnwrittenIs
<1>4. ASSUME NEW k \in Handles
      PROVE  /\ Keeps(fl, es[k], vs[k])
             /\ EntryOf(fl2, es[k]) = EntryOf(fl, es[k])
             /\ HeadOf(fl2, vs[k]) = HeadOf(fl, vs[k])
             /\ TailOf(fl2, vs[k]) = TailOf(fl, vs[k])
  <2>1. Keeps(fl, es[k], vs[k])
    BY <1>3 DEF World
  <2>2. \A b \in EntryOf(fl, es[k]) \cup HeadOf(fl, vs[k]) \cup TailOf(fl, vs[k]) : fl2[b] = fl[b]
    BY <1>1 DEF Held
  <2> QED BY <1>2, <2>1, <2>2, PiecesStay
<1>5. gs[h] = g /\ \A k \in Handles : k # h => gs[k] = fs[k]
  BY <1>0, <1>2 DEF With
<1>6. us[h] = [g EXCEPT !.writing = FALSE] /\ \A k \in Handles : k # h => us[k] = fs[k]
  BY <1>0, <1>2, <1>5 DEF Unwritten, With
<1>7. PICK f \in OpenFiles : f = fs[h]
  <2>1. PICK f \in FileSet : f = fs[h]
    BY <1>2
  <2>2. f.open
    BY <2>1
  <2> QED BY <2>1, <2>2 DEF FileSet, Closed
<1>8. vs[h].open = f.open /\ vs[h].head = f.head /\ vs[h].size = f.size
  <2>1. vs[h] = [f EXCEPT !.writing = FALSE]
    BY <1>3, <1>7
  <2> QED BY <2>1 DEF OpenFiles
<1>9. ~Writes(us[h]) /\ us[h].open = g.open /\ us[h].head = g.head /\ us[h].size = g.size
  <2>1. PICK no, u : no = FALSE /\ u = us[h]
    OBVIOUS
  <2>2. u = [g EXCEPT !.writing = no]
    BY <1>6, <2>1
  <2>3. u.writing = no /\ u.open = g.open /\ u.head = g.head /\ u.size = g.size
    BY <2>2 DEF OpenFiles
  <2> QED BY <2>1, <2>3 DEF Writes
<1>10. HeadOf(fl2, us[h]) = HeadOf(fl2, vs[h])
  <2>1. g.open /\ f.open
    BY DEF OpenFiles
  <2> QED BY <1>7, <1>8, <1>9, <2>1 DEF HeadOf, SameFile
<1>11. TailOf(fl2, us[h]) = TailOf(fl2, vs[h])
  BY <1>3, <1>9 DEF TailOf
<1>12. \A k \in Handles : /\ HeadOf(fl2, us[k]) = HeadOf(fl, vs[k])
                          /\ TailOf(fl2, us[k]) = TailOf(fl, vs[k])
                          /\ EntryOf(fl2, es[k]) = EntryOf(fl, es[k])
  BY <1>3, <1>4, <1>6, <1>10, <1>11
<1>13. Held(fl2, es, us) = Held(fl, es, vs)
  BY <1>12 DEF Held
<1> QED BY <1>0, <1>1, <1>4, <1>5, <1>13

-----------------------------------------------------------------------------
(* What a unit that was programmed leaves: the bytes there were up to the  *)
(* position and the new one, and nothing else has changed.                 *)
Advanced(f, fl, f2, val) ==
    /\ f2 \in OpenFiles /\ Writes(f2) /\ SameFile(f2, f) /\ f2.pos = f.pos + 1
    /\ \A x \in Held(flash, entry, Unwritten(files, h0)) : fl[x] = flash[x]
    /\ \E s : /\ Precedes(f, s)
              /\ \A p \in 0..f.pos - 1 : Bytes(fl, f2.block, f2.pos)[p + 1] = s[p + 1]
              /\ Bytes(fl, f2.block, f2.pos)[f2.pos] = val

(* The unit goes to the block there is for it.                             *)
LEMMA UnitGoesIn ==
    ASSUME Inv, call # NoCall, ~file.inl, CanWrite(file), NEW h \in Handles, h = h0,
           NEW f \in OpenFiles, f = file, NEW room, room = Room(f), room.block # None,
           NEW g, g = room.file, NEW val \in Int, NEW fl, fl = Programmed(room.flash, g, val),
           NEW err \in BOOLEAN, NEW f2, f2 = Counted(g, err)
    PROVE  /\ World(fl, entry, [files EXCEPT ![h] = f2], Acked(room.free))
           /\ Advanced(f, fl, f2, val) /\ f2.erred = err /\ g.erred = f.erred /\ g.block = room.block
<1>1. /\ World(flash, entry, files, free) /\ f = files[h] /\ f.open
  BY AtWork DEF OpenFiles
<1>2. NewRoom(f, h, room) /\ g.pos = f.pos /\ g.erred = f.erred /\ g.block = room.block
  BY RoomIs
<1>3. PICK s : RoomAfter(f, h, room, s)
  BY <1>2 DEF NewRoom
<1>4. PICK rf : rf = room.flash
  OBVIOUS
<1>5. PICK fr : fr = room.free
  OBVIOUS
<1>6. PICK c : HasRoom(rf, g, c, s) /\ Precedes(f, s) /\ Fits(flash, entry, files, h, rf, g, fr, c)
  BY <1>3, <1>4, <1>5 DEF RoomAfter
<1>7. g \in OpenFiles /\ Writes(g) /\ SameFile(g, f) /\ g.open /\ ~g.inl
  BY <1>1, <1>6 DEF Fits, Writes
<1>8. fl = Programmed(rf, g, val) /\ files[h].open /\ ~files[h].inl
  BY <1>1, <1>4
<1>9. /\ World(fl, entry, [files EXCEPT ![h] = f2], Acked(fr))
      /\ \A p \in 0..g.pos - 1 : Bytes(fl, f2.block, f2.pos)[p + 1] = s[p + 1]
      /\ Bytes(fl, f2.block, f2.pos)[f2.pos] = val
      /\ \A x \in Held(flash, entry, Unwritten(files, h)) : fl[x] = flash[x]
  BY <1>1, <1>6, <1>8, RoomTaken
<1>10. /\ f2 \in OpenFiles /\ f2.pos = f.pos + 1 /\ SameFile(f2, g) /\ f2.writing = g.writing
       /\ f2.open /\ f2.erred = err
  BY <1>2, <1>7, CountedIs
<1>11. Writes(f2) /\ SameFile(f2, f)
  BY <1>7, <1>10 DEF Writes, SameFile
<1>12. Advanced(f, fl, f2, val)
  BY <1>2, <1>6, <1>9, <1>10, <1>11 DEF Advanced
<1> QED BY <1>2, <1>5, <1>9, <1>10, <1>12

(* What a file has in its block is in a block.                             *)
Rewritten(f, fl, f2) ==
    /\ f2 \in OpenFiles /\ Writes(f2) /\ SameFile(f2, f) /\ f2.pos = f.pos
    /\ \A x \in Held(flash, entry, Unwritten(files, h0)) : fl[x] = flash[x]
    /\ \E s : Precedes(f, s) /\ Bytes(fl, f2.block, f2.pos) = s

(* The block that there is for a unit fails before the unit is in it.      *)
LEMMA RoomFails ==
    ASSUME Inv, call # NoCall, ~file.inl, CanWrite(file), NEW h \in Handles, h = h0,
           NEW f \in OpenFiles, f = file, NEW room, room = Room(f), room.block # None,
           NEW g, g = room.file, g.off > 0 \/ g.pos = 0, NEW rf, rf = room.flash,
           NEW fr, fr = room.free, NEW fs, fs = With(files, h0, g)
    PROVE  /\ World(rf, entry, fs, fr) /\ SameEntries(rf) /\ OthersWrote(fs, h0)
           /\ Rewritten(f, rf, g) /\ g.erred = f.erred /\ g.block \in Blocks /\ g.off < BlockSize
           /\ Held(rf, entry, Unwritten(fs, h0)) = Held(flash, entry, Unwritten(files, h0))
           /\ g.off > 0 => g.pos > 0
<1>1. /\ World(flash, entry, files, free) /\ f = files[h] /\ f.open /\ OthersWrote(files, h0)
      /\ files[h].open /\ ~files[h].inl
  BY AtWork DEF OpenFiles
<1>2. NewRoom(f, h, room) /\ g.pos = f.pos /\ g.erred = f.erred
  BY RoomIs
<1>3. PICK s : RoomAfter(f, h, room, s)
  BY <1>2 DEF NewRoom
<1>4. PICK c : HasRoom(rf, g, c, s) /\ Precedes(f, s) /\ Fits(flash, entry, files, h, rf, g, fr, c)
  BY <1>3 DEF RoomAfter
<1>5. World(rf, entry, fs, fr) /\ Bytes(rf, g.block, g.pos) = s
  <2>1. World(rf, entry, [files EXCEPT ![h] = g], fr) /\ Bytes(rf, g.block, g.pos) = s
    BY <1>1, <1>4, RoomHeld
  <2> QED BY <2>1 DEF With
<1>6. /\ g \in OpenFiles /\ Writes(g) /\ SameFile(g, f) /\ FlashType(rf)
      /\ \A x \in Held(flash, entry, Unwritten(files, h)) : rf[x] = flash[x]
  BY <1>1, <1>4 DEF Fits
<1>7. PICK us : us = Unwritten(fs, h)
  OBVIOUS
<1>8. /\ Held(rf, entry, us) = Held(flash, entry, Unwritten(files, h))
      /\ \A k \in Handles : EntryOf(rf, entry[k]) = EntryOf(flash, entry[k])
      /\ \A k \in Handles : k # h => fs[k] = files[k]
  <2>1. SameFile(g, files[h]) /\ fs = With(files, h, g)
    BY <1>1, <1>6
  <2>2. /\ Held(rf, entry, Unwritten(With(files, h, g), h)) = Held(flash, entry, Unwritten(files, h))
        /\ \A k \in Handles : EntryOf(rf, entry[k]) = EntryOf(flash, entry[k])
        /\ \A k \in Handles : k # h => With(files, h, g)[k] = files[k]
    <3>1. g \in OpenFiles /\ FlashType(rf) /\ \A x \in Held(flash, entry, Unwritten(files, h)) : rf[x] = flash[x]
      BY <1>6
    <3>2. World(flash, entry, files, free) /\ files[h].open /\ ~files[h].inl
      BY <1>1
    <3> HIDE <1>1, <1>6
    <3> QED BY <2>1, <3>1, <3>2, OthersHeld
  <2> QED BY <1>7, <2>1, <2>2
<1>9. SameEntries(rf) /\ OthersWrote(fs, h0)
  BY <1>1, <1>8 DEF SameEntries, OthersWrote
<1>10. Rewritten(f, rf, g)
  BY <1>2, <1>4, <1>5, <1>6 DEF Rewritten
<1>11. g.block \in Blocks /\ g.off < BlockSize
  <2>1. g.off = g.pos % BlockSize /\ g.block \in Blocks
    BY <1>4 DEF HasRoom
  <2>2. g.pos \in Nat /\ BlockSize \in Nat
    BY <1>6, BlockSizeAssumption DEF OpenFiles
  <2>3. g.pos % BlockSize \in 0..BlockSize - 1
    BY <2>2, IndexIs
  <2> QED BY <2>1, <2>2, <2>3
<1>12. g.off > 0 => g.pos > 0
  BY <1>4, <1>6, RoomIsList
<1> QED BY <1>2, <1>5, <1>7, <1>8, <1>9, <1>10, <1>11, <1>12

(* There is no other block for what is in it.                              *)
LEMMA NothingMoves ==
    ASSUME Inv, call # NoCall, ~file.inl, CanWrite(file), NEW h \in Handles, h = h0,
           NEW f \in OpenFiles, f = file, NEW room, room = Room(f), room.block # None,
           NEW g1, g1 = room.file, g1.off > 0 \/ g1.pos = 0, NEW rf, rf = room.flash,
           NEW fr, fr = room.free, NEW r, r = Relocation(rf, fr, g1), r.block = None,
           NEW g, g = r.file
    PROVE  /\ World(r.flash, entry, [files EXCEPT ![h] = g], r.free)
           /\ Rewritten(f, r.flash, g) /\ (g1.off > 0 => g.pos > 0)
<1>1. PICK fs : fs = With(files, h0, g1)
  OBVIOUS
<1>2. /\ World(rf, entry, fs, fr) /\ SameEntries(rf) /\ OthersWrote(fs, h0)
      /\ Rewritten(f, rf, g1) /\ g1.erred = f.erred /\ g1.block \in Blocks /\ g1.off < BlockSize
      /\ Held(rf, entry, Unwritten(fs, h0)) = Held(flash, entry, Unwritten(files, h0))
      /\ g1.off > 0 => g1.pos > 0
  BY <1>1, RoomFails
<1>3. /\ h0 \in Handles /\ files \in [Handles -> FileSet]
      /\ g1 \in OpenFiles /\ Writes(g1) /\ SameFile(g1, f) /\ g1.pos = f.pos
      /\ \A x \in Held(flash, entry, Unwritten(files, h0)) : rf[x] = flash[x]
  BY <1>2, AtWork DEF Rewritten
<1>5. /\ r.block \in Blocks \cup {None}
      /\ r.block = None => r.flash = rf /\ r.file = g1 /\ World(rf, entry, fs, r.free)
  BY <1>1, <1>2, <1>3, RelocationIs
<1>6. r.flash = rf /\ g = g1 /\ World(rf, entry, fs, r.free)
  BY <1>5
<1>7. fs = [files EXCEPT ![h] = g]
  BY <1>1, <1>6 DEF With
<1> QED BY <1>1, <1>2, <1>6, <1>7

(* What is in it goes to another block, and the unit too.                  *)
LEMMA UnitMoves ==
    ASSUME Inv, call # NoCall, ~file.inl, CanWrite(file), NEW h \in Handles, h = h0,
           NEW f \in OpenFiles, f = file, NEW room, room = Room(f), room.block # None,
           NEW g1, g1 = room.file, g1.off > 0 \/ g1.pos = 0, NEW rf, rf = room.flash,
           NEW fr, fr = room.free, NEW r, r = Relocation(rf, fr, g1), r.block # None,
           NEW g, g = r.file, NEW val \in Int, NEW fl, fl = Programmed(r.flash, g, val),
           NEW err \in BOOLEAN, NEW f2, f2 = Counted(g, err)
    PROVE  /\ World(fl, entry, [files EXCEPT ![h] = f2], Acked(r.free))
           /\ Advanced(f, fl, f2, val) /\ f2.erred = err
           /\ g.erred = f.erred /\ g.block = r.block
<1>1. PICK fs : fs = With(files, h0, g1)
  OBVIOUS
<1>2. /\ World(rf, entry, fs, fr) /\ SameEntries(rf) /\ OthersWrote(fs, h0)
      /\ Rewritten(f, rf, g1) /\ g1.erred = f.erred /\ g1.block \in Blocks /\ g1.off < BlockSize
      /\ Held(rf, entry, Unwritten(fs, h0)) = Held(flash, entry, Unwritten(files, h0))
      /\ g1.off > 0 => g1.pos > 0
  BY <1>1, RoomFails
<1>3. /\ h0 \in Handles /\ files \in [Handles -> FileSet]
      /\ g1 \in OpenFiles /\ Writes(g1) /\ SameFile(g1, f) /\ g1.pos = f.pos
      /\ \A x \in Held(flash, entry, Unwritten(files, h0)) : rf[x] = flash[x]
  BY <1>2, AtWork DEF Rewritten
<1>5. /\ r.block \in Blocks \cup {None}
      /\ r.block = None => r.flash = rf /\ r.file = g1 /\ World(rf, entry, fs, r.free)
      /\ r.block # None =>
           /\ r.file \in OpenFiles /\ Writes(r.file) /\ SameFile(r.file, g1)
           /\ r.file.block = r.block /\ r.file.pos = g1.pos /\ r.file.off = g1.off
           /\ r.file.erred = g1.erred
           /\ World(r.flash, entry, With(files, h0, r.file), r.free)
           /\ Bytes(r.flash, r.block, g1.pos) = Bytes(rf, g1.block, g1.pos)
           /\ \A x \in Held(rf, entry, Unwritten(fs, h0)) : r.flash[x] = rf[x]
  BY <1>1, <1>2, <1>3, RelocationIs
<1>7. r.block # None
  OBVIOUS
<1>8. PICK b, nf, gs, nr : b = r.block /\ nf = r.flash /\ gs = With(files, h, g) /\ nr = r.free
  OBVIOUS
<1>9. /\ g \in OpenFiles /\ Writes(g) /\ SameFile(g, g1) /\ g.block = b
      /\ g.pos = g1.pos /\ g.off = g1.off /\ g.erred = g1.erred
  BY <1>5, <1>7, <1>8
<1>10. g.open /\ g.writing /\ ~g.inl
  BY <1>9 DEF Writes
<1>12. SameFile(g, f)
  BY <1>3, <1>9 DEF SameFile
<1>13. World(nf, entry, gs, nr) /\ gs[h] = g /\ g.off < BlockSize
  BY <1>2, <1>3, <1>5, <1>7, <1>8, <1>9 DEF With
<1>14. PICK c : HasRoom(nf, g, c, Bytes(nf, b, g.pos)) /\ Fits(nf, entry, gs, h, nf, g, nr, c)
  <2>1. Writes(gs[h]) /\ gs[h].off < BlockSize
    BY <1>9, <1>13
  <2>2. \E c : /\ HasRoom(nf, gs[h], c, Bytes(nf, gs[h].block, gs[h].pos))
               /\ Fits(nf, entry, gs, h, nf, gs[h], nr, c)
    BY <1>13, <2>1, RoomThere
  <2> QED BY <1>9, <1>13, <2>2
<1>15. PICK s : s = Bytes(nf, b, g.pos)
  OBVIOUS
<1>16. fl = Programmed(nf, g, val)
  BY <1>8, SMTT(30)
<1>17. /\ World(fl, entry, [gs EXCEPT ![h] = f2], Acked(nr))
       /\ \A p \in 0..g.pos - 1 : Bytes(fl, f2.block, f2.pos)[p + 1] = s[p + 1]
       /\ Bytes(fl, f2.block, f2.pos)[f2.pos] = val
       /\ \A x \in Held(nf, entry, Unwritten(gs, h)) : fl[x] = nf[x]
  <2>1. gs[h].open /\ ~gs[h].inl
    BY <1>10, <1>13
  <2>2. HasRoom(nf, g, c, s) /\ Fits(nf, entry, gs, h, nf, g, nr, c) /\ World(nf, entry, gs, nr)
    BY <1>13, <1>14, <1>15
  <2> QED BY <1>16, <2>1, <2>2, RoomTaken
<1>18. [gs EXCEPT ![h] = f2] = [files EXCEPT ![h] = f2]
  BY <1>3, <1>8 DEF With
<1>19. /\ f2 \in OpenFiles /\ f2.pos = g.pos + 1 /\ SameFile(f2, g) /\ f2.writing = g.writing
       /\ f2.open /\ f2.erred = err
  BY <1>9, CountedIs
<1>20. Writes(f2) /\ SameFile(f2, f)
  BY <1>10, <1>12, <1>19 DEF Writes, SameFile
<1>21. Held(nf, entry, Unwritten(gs, h)) = Held(rf, entry, Unwritten(fs, h))
  <2>1. fs = With(files, h, g1) /\ gs = With(fs, h, g) /\ fs[h] = g1
    BY <1>1, <1>3, <1>8 DEF With
  <2>2. PICK us : us = Unwritten(gs, h)
    OBVIOUS
  <2>3. \A x \in Held(rf, entry, Unwritten(fs, h)) : nf[x] = rf[x]
    BY <1>5, <1>7, <1>8
  <2>4. FlashType(nf) /\ fs[h].open /\ ~fs[h].inl /\ SameFile(g, fs[h])
    BY <1>3, <1>9, <1>13, <2>1 DEF World, Writes
  <2> QED BY <1>2, <1>9, <2>1, <2>2, <2>3, <2>4, OthersHeld
<1>22. \A x \in Held(flash, entry, Unwritten(files, h0)) : fl[x] = flash[x]
  <2> SUFFICES ASSUME NEW x \in Held(flash, entry, Unwritten(files, h0)) PROVE fl[x] = flash[x]
    OBVIOUS
  <2>1. rf[x] = flash[x] /\ x \in Held(rf, entry, Unwritten(fs, h0))
    BY <1>2, <1>3
  <2>2. nf[x] = rf[x]
    BY <1>5, <1>7, <1>8, <2>1
  <2>3. x \in Held(nf, entry, Unwritten(gs, h))
    BY <1>21, <2>1, SMTT(30)
  <2>4. fl[x] = nf[x]
    BY <1>17, <2>3, SMTT(30)
  <2> QED BY <2>1, <2>2, <2>4
<1>23. \E t : /\ Precedes(f, t)
              /\ \A p \in 0..f.pos - 1 : Bytes(fl, f2.block, f2.pos)[p + 1] = t[p + 1]
              /\ Bytes(fl, f2.block, f2.pos)[f2.pos] = val
  <2>1. PICK t : Precedes(f, t) /\ Bytes(rf, g1.block, g1.pos) = t
    BY <1>2 DEF Rewritten
  <2>2. s = t
    BY <1>5, <1>7, <1>8, <1>9, <1>15, <2>1
  <2>3. f.pos = g.pos
    BY <1>3, <1>9, SMTT(30)
  <2>4. \A p \in 0..f.pos - 1 : Bytes(fl, f2.block, f2.pos)[p + 1] = t[p + 1]
    <3>1. \A p \in 0..g.pos - 1 : Bytes(fl, f2.block, f2.pos)[p + 1] = s[p + 1]
      BY <1>17, Zenon
    <3>2. PICK bs, n : bs = Bytes(fl, f2.block, f2.pos) /\ n = g.pos
      BY SMTT(30)
    <3>3. \A p \in 0..n - 1 : bs[p + 1] = t[p + 1]
      BY <2>2, <3>1, <3>2
    <3> QED BY <2>3, <3>2, <3>3
  <2>5. Bytes(fl, f2.block, f2.pos)[f2.pos] = val
    BY <1>17, ZenonT(40)
  <2> WITNESS t
  <2>6. /\ Precedes(f, t)
        /\ \A p \in 0..f.pos - 1 : Bytes(fl, f2.block, f2.pos)[p + 1] = t[p + 1]
    BY <2>1, <2>4, Zenon
  <2> QED BY <2>5, <2>6, Zenon
<1>24. Advanced(f, fl, f2, val)
  <2>1. f2.pos = f.pos + 1
    BY <1>3, <1>9, <1>19, SMTT(30)
  <2> QED BY <1>19, <1>20, <1>22, <1>23, <2>1, Zenon DEF Advanced
<1>25. World(fl, entry, [files EXCEPT ![h] = f2], Acked(r.free))
  BY <1>8, <1>17, <1>18, ZenonT(40)
<1>26. g.erred = f.erred /\ g.block = r.block
  BY <1>2, <1>8, <1>9
<1> QED BY <1>7, <1>19, <1>24, <1>25, <1>26

-----------------------------------------------------------------------------
(* What a file still has when a call gives it up.                          *)
Kept(f, fl, f2) ==
    /\ f2 \in OpenFiles /\ SameFile(f2, f) /\ f2.writing = f.writing /\ f2.pos = f.pos /\ f2.erred
    /\ \A x \in Held(flash, entry, Unwritten(files, h0)) : fl[x] = flash[x]
    /\ f.writing => Bytes(fl, f2.block, f2.pos) = Bytes(flash, f.block, f.pos)

(* The file after a failed write.                                          *)
Spoiled(f) == [f EXCEPT !.erred = TRUE]

(* A failed write marks the file and leaves it.                            *)
LEMMA SpoiledIs ==
    ASSUME NEW f \in OpenFiles, NEW f2, f2 = Spoiled(f)
    PROVE  /\ f2 \in OpenFiles /\ SameFile(f2, f) /\ f2.writing = f.writing /\ f2.pos = f.pos
           /\ f2.block = f.block /\ f2.off = f.off /\ f2.erred /\ f2.open
<1>1. PICK yes \in BOOLEAN : yes = TRUE
  OBVIOUS
<1>2. f2 = [f EXCEPT !.erred = yes]
  BY <1>1 DEF Spoiled
<1>3. f2 \in OpenFiles
  BY <1>2 DEF OpenFiles
<1>4. SameFile(f2, f) /\ f2.writing = f.writing
  BY <1>2 DEF OpenFiles, SameFile
<1>5. f2.pos = f.pos /\ f2.block = f.block /\ f2.off = f.off /\ f2.open
  BY <1>2 DEF OpenFiles
<1>6. f2.erred = yes
  BY <1>2 DEF OpenFiles
<1> QED BY <1>1, <1>3, <1>4, <1>5, <1>6

(* A record of the same file that differs in what no block depends on.     *)
LEMMA SameRecord ==
    ASSUME NEW fl, NEW es, NEW fs, NEW fr, World(fl, es, fs, fr), NEW h \in Handles,
           NEW f \in OpenFiles, f = fs[h], NEW f2 \in OpenFiles, SameFile(f2, f),
           f2.writing = f.writing, f2.pos = f.pos, f2.off = f.off,
           f2.writing => f2.block = f.block
    PROVE  World(fl, es, [fs EXCEPT ![h] = f2], fr)
<1>1. Keeps(fl, es[h], f)
  BY DEF World
<1>2. CASE f.writing
  <2>1. Keeps(fl, es[h], f2) /\ Pieces(fl, es[h], f2) = Pieces(fl, es[h], f)
    BY <1>1, <1>2, SamePlace
  <2>2. Writes(f2) => Writes(f) /\ f2.block = f.block
    BY <1>2 DEF Writes, OpenFiles, SameFile
  <2>3. Writes(f) => f.block \notin HeadOf(fl, f)
    BY DEF World, Alone
  <2>4. HeadOf(fl, f2) = HeadOf(fl, f)
    <3>1. f.open /\ f2.open
      BY DEF OpenFiles
    <3> QED BY <3>1 DEF HeadOf, SameFile
  <2> QED BY <2>1, <2>2, <2>3, <2>4, FileLess
<1>3. CASE ~f.writing
  <2>1. Keeps(fl, es[h], f2) /\ Pieces(fl, es[h], f2) \subseteq Pieces(fl, es[h], f) /\ ~Writes(f2)
    BY <1>1, <1>3, OtherPlace
  <2> QED BY <2>1, FileLess
<1> QED BY <1>2, <1>3

(* There is no block for the unit.                                         *)
LEMMA NoUnit ==
    ASSUME Inv, call # NoCall, ~file.inl, CanWrite(file), NEW h \in Handles, h = h0,
           NEW f \in OpenFiles, f = file, NEW room, room = Room(f), room.block = None,
           NEW f2, f2 = Spoiled(room.file)
    PROVE  /\ room.full /\ room.flash = flash
           /\ World(flash, entry, [files EXCEPT ![h] = f2], room.free)
           /\ Kept(f, flash, f2) /\ Outlined(f2) /\ (Writes(f2) => f2.pos > 0)
<1>1. /\ World(flash, entry, files, free) /\ f = files[h] /\ Outlined(f)
  BY AtWork
<1>2. NoRoom(f, room) /\ ~(f.writing /\ f.pos = 0)
  BY RoomIs
<1>3. PICK last \in Blocks \cup {None, Inline} :
          room.file = [f EXCEPT !.block = last] /\ (f.writing => last = f.block)
  BY <1>2 DEF NoRoom
<1>4. PICK g : g = room.file
  OBVIOUS
<1>5. /\ g \in OpenFiles /\ SameFile(g, f) /\ g.writing = f.writing /\ g.pos = f.pos
      /\ g.off = f.off /\ g.block = last
  <2>1. g = [f EXCEPT !.block = last]
    BY <1>3, <1>4
  <2>2. g \in OpenFiles
    BY <2>1 DEF OpenFiles
  <2>3. SameFile(g, f) /\ g.writing = f.writing
    BY <2>1 DEF OpenFiles, SameFile
  <2>4. g.pos = f.pos /\ g.off = f.off /\ g.block = last
    BY <2>1 DEF OpenFiles
  <2> QED BY <2>2, <2>3, <2>4
<1>6. /\ f2 \in OpenFiles /\ SameFile(f2, g) /\ f2.writing = g.writing /\ f2.pos = g.pos
      /\ f2.block = g.block /\ f2.off = g.off /\ f2.erred /\ f2.open
  BY <1>4, <1>5, SpoiledIs
<1>7. /\ SameFile(f2, f) /\ f2.writing = f.writing /\ f2.pos = f.pos /\ f2.off = f.off
      /\ (f2.writing => f2.block = f.block) /\ f2.pos \in Nat
  <2>1. SameFile(f2, f)
    BY <1>5, <1>6 DEF SameFile
  <2>2. f2.pos \in Nat
    BY <1>6 DEF OpenFiles
  <2> QED BY <1>3, <1>5, <1>6, <2>1, <2>2
<1>8. World(flash, entry, [files EXCEPT ![h] = f2], free)
  BY <1>1, <1>6, <1>7, SameRecord
<1>9. /\ room.full /\ room.flash = flash
      /\ WindowType(room.free) /\ Eager(room.free) /\ Vacants(room.free) = {}
  BY <1>2 DEF NoRoom
<1>10. World(flash, entry, [files EXCEPT ![h] = f2], room.free)
  BY <1>8, <1>9, WindowGone
<1>11. Kept(f, flash, f2)
  BY <1>6, <1>7 DEF Kept
<1>12. Outlined(f2)
  BY <1>1, <1>7 DEF Outlined, SameFile, OpenFiles
<1>13. Writes(f2) => f2.pos > 0
  <2>1. f.writing => f2.pos # 0
    BY <1>2, <1>7
  <2>2. Writes(f2) => f2.writing
    BY SMTT(30) DEF Writes
  <2> QED BY <1>7, <2>1, <2>2
<1> QED BY <1>9, <1>10, <1>11, <1>12, <1>13

(* The block failed and there is no other one.                             *)
LEMMA NoOther ==
    ASSUME Inv, call # NoCall, ~file.inl, CanWrite(file), NEW h \in Handles, h = h0,
           NEW f \in OpenFiles, f = file, NEW room, room = Room(f), room.block # None,
           NEW g1, g1 = room.file, g1.off > 0, NEW rf, rf = room.flash,
           NEW fr1, fr1 = room.free, NEW r, r = Relocation(rf, fr1, g1),
           r.block = None, NEW f2, f2 = Spoiled(r.file)
    PROVE  /\ World(r.flash, entry, [files EXCEPT ![h] = f2], r.free)
           /\ Rewritten(f, r.flash, f2) /\ f2.erred /\ Outlined(f2) /\ f2.pos > 0
<1>1. PICK g, fl, fr, fs : g = r.file /\ fl = r.flash /\ fr = r.free /\ fs = [files EXCEPT ![h] = g]
  OBVIOUS
<1>2. World(fl, entry, fs, fr) /\ Rewritten(f, fl, g) /\ g.pos > 0
  <2>3. g1.off > 0 \/ g1.pos = 0
    OBVIOUS
  <2>4. /\ World(r.flash, entry, [files EXCEPT ![h] = g], r.free)
        /\ Rewritten(f, r.flash, g) /\ (g1.off > 0 => g.pos > 0)
    BY <1>1, <2>3, NothingMoves, ZenonT(40)
  <2> QED BY <1>1, <2>4
<1>3. files \in [Handles -> FileSet] /\ g \in OpenFiles /\ Writes(g) /\ SameFile(g, f) /\ g.pos = f.pos
  BY <1>2, AtWork DEF Rewritten
<1>4. /\ f2 \in OpenFiles /\ SameFile(f2, g) /\ f2.writing = g.writing /\ f2.pos = g.pos
      /\ f2.block = g.block /\ f2.off = g.off /\ f2.erred /\ f2.open
  BY <1>1, <1>3, SpoiledIs
<1>5. World(fl, entry, [fs EXCEPT ![h] = f2], fr)
  <2>1. g = fs[h]
    BY <1>1, <1>3
  <2> QED BY <1>2, <1>3, <1>4, <2>1, SameRecord
<1>6. [fs EXCEPT ![h] = f2] = [files EXCEPT ![h] = f2]
  BY <1>1, <1>3
<1>7. Writes(f2) /\ SameFile(f2, f)
  BY <1>3, <1>4 DEF Writes, SameFile
<1>8. Rewritten(f, fl, f2)
  BY <1>2, <1>3, <1>4, <1>7 DEF Rewritten
<1>9. Outlined(f2)
  BY <1>7 DEF Outlined, Writes
<1> QED BY <1>1, <1>2, <1>4, <1>5, <1>6, <1>8, <1>9

(* A unit of a file that is in its entry.                                  *)
UnitSet(bytes, pos, val) ==
    [i \in 1..Longer(Len(bytes), pos + 1) |-> IF i = pos + 1 THEN val ELSE bytes[i]]

(* An inline file with a unit written to its cache.                        *)
WithUnit(f, val, err) ==
    [f EXCEPT !.cache = UnitSet(f.cache, f.pos, val),
              !.writing = TRUE, !.block = Inline, !.pos = @ + 1, !.off = f.pos + 1,
              !.erred = err]

(* What a unit makes of an inline file.                                    *)
LEMMA WithUnitIs ==
    ASSUME NEW f \in OpenFiles, NEW val \in Int, NEW err \in BOOLEAN, f.inl, CanWrite(f),
           RecordKeeps(f), NEW f2, f2 = WithUnit(f, val, err)
    PROVE  /\ f2 \in OpenFiles /\ f2.pos = f.pos + 1 /\ f2.writing /\ f2.block = Inline
           /\ f2.inl /\ f2.open /\ f2.erred = err
           /\ f2.head = f.head /\ f2.size = f.size /\ f2.dirty = f.dirty /\ f2.append = f.append
           /\ f2.cache = UnitSet(f.cache, f.pos, val)
           /\ Len(f2.cache) = Longer(f2.pos, f2.size)
<1>1. PICK len \in Nat, pos \in Nat, size \in Nat, n \in Nat :
          len = Len(f.cache) /\ pos = f.pos /\ size = f.size /\ n = Longer(len, pos + 1)
  BY DEF OpenFiles, Longer
<1>0. len = (IF f.writing THEN Longer(pos, size) ELSE size) /\ (f.writing \/ pos <= size)
  BY <1>1 DEF RecordKeeps, OpenFiles, CanWrite
<1>2. PICK bytes : bytes = [i \in 1..n |-> IF i = pos + 1 THEN val ELSE f.cache[i]]
  OBVIOUS
<1>3. bytes \in Seq(Int) /\ Len(bytes) = n
  <2>1. \A i \in 1..n : i # pos + 1 => i \in 1..len
    <3>1. pos <= len
      BY <1>0, <1>1 DEF Longer
    <3> QED BY <1>1, <3>1 DEF Longer
  <2>2. f.cache \in Seq(Int)
    BY DEF OpenFiles
  <2>3. \A i \in 1..len : f.cache[i] \in Int
    BY <1>1, <2>2
  <2>4. \A i \in 1..n : bytes[i] \in Int
    BY <1>2, <2>1, <2>3
  <2>5. bytes \in [1..n -> Int]
    BY <1>2, <2>4
  <2> QED BY <1>1, <2>5
<1>4. PICK yes \in BOOLEAN : yes = TRUE
  OBVIOUS
<1>41. PICK line \in Blocks \cup {None, Inline} : line = Inline
  OBVIOUS
<1>42. PICK at \in Nat : at = pos + 1
  BY <1>1
<1>5. f2 = [f EXCEPT !.cache = bytes, !.writing = yes, !.block = line, !.pos = at, !.off = at,
                     !.erred = err]
  BY <1>1, <1>2, <1>4, <1>41, <1>42 DEF WithUnit, UnitSet
<1>6. f2 \in OpenFiles
  BY <1>3, <1>5, ZenonT(40) DEF OpenFiles
<1>7. f2.pos = at /\ f2.cache = bytes /\ f2.block = line
  BY <1>5 DEF OpenFiles
<1>8. f2.writing = yes /\ f2.erred = err /\ f2.inl /\ f2.open
  BY <1>5 DEF OpenFiles
<1>9. f2.head = f.head /\ f2.size = f.size /\ f2.dirty = f.dirty /\ f2.append = f.append
  BY <1>5 DEF OpenFiles
<1>10. Longer(len, pos + 1) = Longer(pos + 1, size)
  BY <1>0, <1>1 DEF Longer
<1>11. Len(f2.cache) = Longer(f2.pos, f2.size)
  BY <1>1, <1>3, <1>42, <1>7, <1>9, <1>10
<1>12. f2.cache = UnitSet(f.cache, f.pos, val)
  BY <1>1, <1>2, <1>7 DEF UnitSet
<1> QED BY <1>1, <1>4, <1>41, <1>42, <1>6, <1>7, <1>8, <1>9, <1>11, <1>12

(* An inline file stays within its entry's room.                           *)
LEMMA WithUnitKeeps ==
    ASSUME NEW fl, NEW e, NEW f \in OpenFiles, Keeps(fl, e, f), NEW val \in Int,
           NEW err \in BOOLEAN, f.inl, CanWrite(f), f.pos + 1 <= InlineMax,
           NEW f2, f2 = WithUnit(f, val, err)
    PROVE  /\ Keeps(fl, e, f2) /\ Pieces(fl, e, f2) = Pieces(fl, e, f) /\ ~Writes(f2)
           /\ Outlined(f2)
<1>1. RecordKeeps(f) /\ f.open
  BY DEF Keeps, OpenFiles
<1>2. /\ f2 \in OpenFiles /\ f2.pos = f.pos + 1 /\ f2.writing /\ f2.block = Inline
      /\ f2.inl /\ f2.open
      /\ f2.head = f.head /\ f2.size = f.size /\ f2.dirty = f.dirty /\ f2.append = f.append
      /\ Len(f2.cache) = Longer(f2.pos, f2.size)
  BY <1>1, WithUnitIs
<1>3. ~Writes(f2) /\ ~Writes(f)
  BY <1>2 DEF Writes
<1>4. RecordKeeps(f2)
  <2>1. f2.head = Inline /\ f2.size <= InlineMax
    BY <1>1, <1>2 DEF RecordKeeps
  <2>2. f2.append => f2.pos >= f2.size
    <3>1. f.pos \in Nat /\ f.size \in Nat
      BY DEF OpenFiles
    <3> QED BY <1>2, <3>1 DEF CanWrite
  <2> QED BY <1>2, <2>1, <2>2 DEF RecordKeeps
<1>5. f.head = Inline
  BY <1>1 DEF RecordKeeps
<1>6. Keeps(fl, e, f2)
  <2>1. HeadKeeps(fl, f2) /\ TailKeeps(fl, f2) /\ f2 \in FileSet
    BY <1>2, <1>3, <1>5 DEF HeadKeeps, TailKeeps, FileSet
  <2>2. Clean(e, f2)
    BY <1>1, <1>2 DEF Keeps, Clean
  <2> QED BY <1>4, <2>1, <2>2 DEF Keeps
<1>7. Pieces(fl, e, f2) = Pieces(fl, e, f)
  BY <1>2, <1>3, <1>5 DEF Pieces, HeadOf, TailOf
<1> QED BY <1>2, <1>3, <1>6, <1>7 DEF Outlined

(* A unit is written, or the call gives up.                                *)
UnitWritten(f, f2, val, last) ==
    /\ f2.writing /\ f2.pos = f.pos + 1 /\ f2.erred = (f.erred /\ ~last)
    /\ f2.inl = f.inl /\ f2.size = f.size /\ f2.head = f.head /\ f2.append = f.append
    /\ f2.dirty = f.dirty
    /\ IF f.inl THEN f2.cache = UnitSet(f.cache, f.pos, val) /\ flash' = flash
       ELSE Advanced(f, flash', f2, val)

(* No block for the unit: the file is as it was, or its last block was     *)
(* written elsewhere.                                                      *)
UnitRefused(f, f2) ==
    /\ ~f.inl /\ (Writes(f2) => f2.pos > 0) /\ f2.erred
    /\ Kept(f, flash', f2) \/ Rewritten(f, flash', f2)

(* A unit of a file in its entry.                                          *)
LEMMA WriteInlineIs ==
    ASSUME Inv, call # NoCall, CanWrite(file), NEW h \in Handles, h = h0,
           NEW f \in OpenFiles, f = file, f.inl, f.pos + 1 <= InlineMax,
           NEW val \in Int, NEW last \in BOOLEAN, NEW phases, WriteUnit(val, last, phases)
    PROVE  /\ entry' = entry /\ ops' = ops /\ ~missed'
           /\ \E f2 \in OpenFiles :
                /\ Outlined(f2) /\ World(flash', entry, [files EXCEPT ![h] = f2], free')
                /\ Go(f2, phases) /\ UnitWritten(f, f2, val, last)
<1>1. /\ World(flash, entry, files, free) /\ f = files[h] /\ ~missed /\ Keeps(flash, entry[h], f)
      /\ RecordKeeps(f)
  BY AtWork
<1>2. PICK err \in BOOLEAN : err = (f.erred /\ ~last)
  BY DEF OpenFiles
<1>3. PICK f2 : f2 = WithUnit(f, val, err)
  OBVIOUS
<1>4. /\ Go(f2, phases) /\ flash' = flash /\ entry' = entry /\ free' = free
      /\ missed' = missed /\ ops' = ops
  <2>1. /\ Go([file EXCEPT !.cache = UnitSet(file.cache, file.pos, val), !.writing = TRUE,
                           !.block = Inline, !.pos = @ + 1, !.off = file.pos + 1,
                           !.erred = @ /\ ~last], phases)
        /\ flash' = flash /\ entry' = entry /\ free' = free /\ missed' = missed /\ ops' = ops
    BY DEF WriteUnit, UnitSet
  <2>2. f2 = [file EXCEPT !.cache = UnitSet(file.cache, file.pos, val), !.writing = TRUE,
                          !.block = Inline, !.pos = @ + 1, !.off = file.pos + 1,
                          !.erred = @ /\ ~last]
    BY <1>2, <1>3 DEF WithUnit
  <2> QED BY <2>1, <2>2
<1>5. /\ f2 \in OpenFiles /\ f2.pos = f.pos + 1 /\ f2.writing /\ f2.block = Inline
      /\ f2.inl /\ f2.open /\ f2.erred = err
      /\ f2.head = f.head /\ f2.size = f.size /\ f2.dirty = f.dirty /\ f2.append = f.append
      /\ f2.cache = UnitSet(f.cache, f.pos, val)
  BY <1>1, <1>3, WithUnitIs
<1>6. /\ Keeps(flash, entry[h], f2) /\ Pieces(flash, entry[h], f2) = Pieces(flash, entry[h], f)
      /\ ~Writes(f2) /\ Outlined(f2)
  BY <1>1, <1>3, WithUnitKeeps
<1>7. World(flash, entry, [files EXCEPT ![h] = f2], free)
  BY <1>1, <1>6, FileLess
<1>8. UnitWritten(f, f2, val, last)
  <2>1. f2.inl = f.inl /\ f2.erred = (f.erred /\ ~last)
    BY <1>2, <1>5 DEF OpenFiles
  <2> QED BY <1>4, <1>5, <2>1 DEF UnitWritten
<1> QED BY <1>1, <1>4, <1>5, <1>6, <1>7, <1>8

(* How a unit ends.                                                        *)
UnitEnds(failing, room, r, val, last, phases) ==
    /\ Careful /\ failing = 1 =>
           room.file.off > 0 \/ (file.pos = 0 /\ r.block # None)
    /\ fails' = fails + failing
    /\ missed' = Misses(room)
    /\ IF r.block = None
       THEN /\ flash' = r.flash
            /\ free' = r.free
            /\ GiveUp([r.file EXCEPT !.erred = TRUE])
       ELSE /\ flash' = [r.flash EXCEPT ![r.block].data = Append(SubSeq(@, 1, r.file.off), val)]
            /\ free' = Acked(r.free)
            /\ Go([r.file EXCEPT !.pos = @ + 1, !.off = @ + 1,
                                  !.erred = @ /\ ~last], phases)
    /\ UNCHANGED <<entry, ops>>

(* One unit of lfs_file_flushedwrite to a file that has blocks: it is      *)
(* refused for want of room, or written behind the bytes before it.        *)
LEMMA WriteBlockIs ==
    ASSUME Inv, call # NoCall, CanWrite(file), NEW h \in Handles, h = h0,
           NEW f \in OpenFiles, f = file, ~file.inl,
           NEW val \in Int, NEW last \in BOOLEAN, NEW phases, WriteUnit(val, last, phases)
    PROVE  /\ entry' = entry /\ ops' = ops /\ ~missed'
           /\ \E f2 \in OpenFiles :
                /\ Outlined(f2) /\ World(flash', entry, [files EXCEPT ![h] = f2], free')
                /\ \/ GiveUp(f2) /\ UnitRefused(f, f2)
                   \/ Go(f2, phases) /\ UnitWritten(f, f2, val, last)
<1>1. PICK failing \in {n \in {0, 1} : fails + n <= MaxFails}, room \in {Room(file)} :
        /\ failing = 1 => room.block # None
        /\ \E r \in {IF failing = 1 THEN Relocation(room.flash, room.free, room.file) ELSE room} :
             UnitEnds(failing, room, r, val, last, phases)
  BY Zenon DEF WriteUnit, UnitEnds
<1>2. PICK r : /\ r = IF failing = 1 THEN Relocation(room.flash, room.free, room.file) ELSE room
               /\ UnitEnds(failing, room, r, val, last, phases)
  BY <1>1
<1>3. PICK g, rf, fr : g = r.file /\ rf = r.flash /\ fr = r.free
  BY SMTT(30)
<1>4. /\ Careful /\ failing = 1 => room.file.off > 0 \/ (file.pos = 0 /\ r.block # None)
      /\ missed' = Misses(room) /\ entry' = entry /\ ops' = ops
  BY <1>2, Zenon DEF UnitEnds
<1>5. r.block = None => flash' = rf /\ free' = fr /\ GiveUp(Spoiled(g))
  BY <1>2, <1>3, SMTT(30) DEF UnitEnds, Spoiled
<1>6. r.block # None =>
        /\ flash' = [rf EXCEPT ![r.block].data = Append(SubSeq(@, 1, g.off), val)]
        /\ free' = Acked(fr)
        /\ Go(Counted(g, g.erred /\ ~last), phases)
  BY <1>2, <1>3, Zenon DEF UnitEnds, Counted
<1>7. Careful /\ ~missed /\ f.erred \in BOOLEAN /\ room = Room(f)
  <2>1. Careful /\ ~missed
    BY AtWork
  <2> QED BY <1>1, <2>1 DEF OpenFiles
<1>8. failing = 0 \/ failing = 1
  BY <1>1
<1>9. SUFFICES /\ ~missed'
               /\ \E f2 \in OpenFiles :
                    /\ Outlined(f2) /\ World(flash', entry, [files EXCEPT ![h] = f2], free')
                    /\ \/ GiveUp(f2) /\ UnitRefused(f, f2)
                       \/ Go(f2, phases) /\ UnitWritten(f, f2, val, last)
  BY <1>4
<1>10. ~missed'
  <2>1. room.block = None => room.full
    <3> SUFFICES ASSUME room.block = None PROVE room.full
      OBVIOUS
    <3>1. PICK x : x = Spoiled(room.file)
      OBVIOUS
    <3> QED BY <1>7, <3>1, NoUnit
  <2> QED BY <1>4, <1>7, <2>1 DEF Misses
<1>11. CASE r.block = None
  <2>1. PICK f2 : f2 = Spoiled(g)
    OBVIOUS
  <2>2. /\ World(rf, entry, [files EXCEPT ![h] = f2], fr) /\ Outlined(f2)
        /\ (Writes(f2) => f2.pos > 0) /\ f2.erred /\ f2 \in OpenFiles
        /\ Kept(f, rf, f2) \/ Rewritten(f, rf, f2)
    <3>1. CASE failing = 0
      <4>1. r = room /\ room.block = None /\ f2 = Spoiled(room.file)
        BY <1>2, <1>3, <1>11, <2>1, <3>1
      <4>2. /\ room.full /\ room.flash = flash
            /\ World(flash, entry, [files EXCEPT ![h] = f2], room.free)
            /\ Kept(f, flash, f2) /\ Outlined(f2) /\ (Writes(f2) => f2.pos > 0)
        BY <1>7, <4>1, NoUnit
      <4>3. rf = flash /\ fr = room.free
        BY <1>3, <4>1, <4>2
      <4>4. f2.erred /\ f2 \in OpenFiles
        BY <4>2 DEF Kept
      <4> QED BY <4>2, <4>3, <4>4
    <3>2. CASE failing = 1
      <4>1. PICK g1, rf1, fr1 : g1 = room.file /\ rf1 = room.flash /\ fr1 = room.free
        OBVIOUS
      <4>2. r = Relocation(rf1, fr1, g1) /\ room.block # None /\ g1.off > 0
        BY <1>1, <1>2, <1>4, <1>7, <1>11, <3>2, <4>1
      <4>3. f2 = Spoiled(r.file)
        BY <1>3, <2>1
      <4>4. /\ World(r.flash, entry, [files EXCEPT ![h] = f2], r.free)
            /\ Rewritten(f, r.flash, f2) /\ f2.erred /\ Outlined(f2) /\ f2.pos > 0
        BY <1>7, <1>11, <4>1, <4>2, <4>3, NoOther
      <4>5. f2 \in OpenFiles
        BY <4>4 DEF Rewritten
      <4> QED BY <1>3, <4>4, <4>5
    <3> QED BY <1>8, <3>1, <3>2
  <2>3. flash' = rf /\ free' = fr /\ GiveUp(f2)
    BY <1>5, <1>11, <2>1
  <2>4. UnitRefused(f, f2)
    BY <2>2, <2>3 DEF UnitRefused
  <2> QED BY <1>10, <2>2, <2>3, <2>4
<1>12. CASE r.block # None
  <2>1. PICK err \in BOOLEAN : err = (f.erred /\ ~last)
    BY <1>7
  <2>2. PICK f2, fl : f2 = Counted(g, err) /\ fl = Programmed(rf, g, val)
    OBVIOUS
  <2>3. /\ World(fl, entry, [files EXCEPT ![h] = f2], Acked(fr))
        /\ Advanced(f, fl, f2, val) /\ f2.erred = err /\ g.erred = f.erred /\ g.block = r.block
    <3>1. CASE failing = 0
      <4>1. r = room /\ room.block # None /\ g = room.file /\ rf = room.flash /\ fr = room.free
        BY <1>2, <1>3, <1>12, <3>1
      <4>2. fl = Programmed(room.flash, g, val)
        BY <2>2, <4>1
      <4>3. /\ World(fl, entry, [files EXCEPT ![h] = f2], Acked(room.free))
            /\ Advanced(f, fl, f2, val) /\ f2.erred = err /\ g.erred = f.erred /\ g.block = room.block
        BY <1>7, <2>2, <4>1, <4>2, UnitGoesIn
      <4> QED BY <4>1, <4>3
    <3>2. CASE failing = 1
      <4>1. PICK g1, rf1, fr1 : g1 = room.file /\ rf1 = room.flash /\ fr1 = room.free
        OBVIOUS
      <4>2. r = Relocation(rf1, fr1, g1) /\ room.block # None
        BY <1>1, <1>2, <3>2, <4>1
      <4>3. g1.off > 0 \/ g1.pos = 0
        <5>1. g1.off > 0 \/ f.pos = 0
          BY <1>4, <1>7, <3>2, <4>1
        <5>2. g1.pos = f.pos
          BY <1>7, <4>1, <4>2, RoomIs
        <5> QED BY <5>1, <5>2
      <4>4. fl = Programmed(r.flash, g, val) /\ g = r.file
        BY <1>3, <2>2
      <4>5. /\ World(fl, entry, [files EXCEPT ![h] = f2], Acked(r.free))
            /\ Advanced(f, fl, f2, val) /\ f2.erred = err
            /\ g.erred = f.erred /\ g.block = r.block
        <5>1. World(fl, entry, [files EXCEPT ![h] = f2], Acked(r.free))
          BY <1>7, <1>12, <2>2, <4>1, <4>2, <4>3, <4>4, UnitMoves
        <5>2. Advanced(f, fl, f2, val)
          BY <5>1, <1>7, <1>12, <2>2, <4>1, <4>2, <4>3, <4>4, UnitMoves
        <5>3. f2.erred = err /\ g.erred = f.erred /\ g.block = r.block
          BY <5>1, <1>7, <1>12, <2>2, <4>1, <4>2, <4>3, <4>4, UnitMoves
        <5> QED BY <5>1, <5>2, <5>3
      <4> QED BY <1>3, <4>5
    <3> QED BY <1>8, <3>1, <3>2
  <2>4. flash' = fl /\ free' = Acked(fr)
    BY <1>6, <1>12, <2>2, <2>3 DEF Programmed
  <2>5. Go(f2, phases)
    <3>1. f2 = Counted(g, g.erred /\ ~last)
      BY <2>1, <2>2, <2>3
    <3> QED BY <1>6, <1>12, <3>1
  <2>6. f2 \in OpenFiles /\ Writes(f2) /\ SameFile(f2, f) /\ f2.pos = f.pos + 1
    BY <2>3 DEF Advanced
  <2>7. UnitWritten(f, f2, val, last)
    BY <2>1, <2>3, <2>4, <2>6 DEF UnitWritten, Writes, SameFile
  <2>8. Outlined(f2)
    BY <2>6 DEF Outlined, Writes
  <2> QED BY <1>10, <2>3, <2>4, <2>5, <2>6, <2>7, <2>8
<1> QED BY <1>11, <1>12, Zenon

-----------------------------------------------------------------------------
(* A list of one block.                                                    *)
LEMMA OneBlock ==
    ASSUME NEW fl, FlashType(fl), NEW pos \in 1..BlockSize, NEW b \in Blocks,
           fl[b].heads = <<>>, Len(fl[b].data) = pos
    PROVE  /\ HasList(fl, b, pos) /\ Traverse(fl, b, pos) = {b}
           /\ pos = ((pos - 1) % BlockSize) + 1
           /\ \A p \in 0..pos - 1 : Bytes(fl, b, pos)[p + 1] = fl[b].data[p + 1]
<1>1. BlockSize \in Nat \ {0} /\ pos \in Nat \ {0}
  BY BlockSizeAssumption
<1>2. \A p \in 0..pos - 1 : Index(p) = 0 /\ p % BlockSize = p
  <2> SUFFICES ASSUME NEW p \in 0..pos - 1 PROVE Index(p) = 0 /\ p % BlockSize = p
    OBVIOUS
  <2>1. p \in Nat /\ p < BlockSize
    BY <1>1
  <2>2. BlockSize * 0 = 0
    BY <1>1
  <2>3. BlockSize * 0 <= p /\ p < BlockSize * 0 + BlockSize
    BY <1>1, <2>1, <2>2
  <2>4. Index(p) = 0 /\ p % BlockSize = p - BlockSize * 0
    BY <2>1, <2>3, SpanIs
  <2> QED BY <2>1, <2>2, <2>4
<1>3. Index(pos - 1) = 0 /\ (pos - 1) % BlockSize = pos - 1
  BY <1>1, <1>2
<1>4. PICK c : c = [i \in 0..0 |-> b]
  OBVIOUS
<1>5. c \in [0..0 -> Blocks] /\ c[0] = b
  BY <1>4
<1>6. IsList(fl, c, 0)
  BY <1>5 DEF IsList
<1>7. IsFull(fl, c, pos)
  <2>1. \A i \in 0..0 - 1 : FALSE
    OBVIOUS
  <2>2. BlockSize * 0 = 0
    BY <1>1
  <2>3. Len(fl[c[0]].data) >= pos - BlockSize * 0
    <3>1. Len(fl[c[0]].data) = pos
      BY <1>5
    <3>2. pos - BlockSize * 0 = pos /\ pos >= pos
      BY <1>1, <2>2
    <3> QED BY <3>1, <3>2
  <2> QED BY <1>3, <2>1, <2>3 DEF IsFull
<1>8. ListOf(fl, c, b, pos)
  BY <1>3, <1>5, <1>6, <1>7 DEF ListOf
<1>9. HasList(fl, b, pos)
  BY <1>8 DEF HasList
<1>10. /\ Traverse(fl, b, pos) = {c[i] : i \in 0..Index(pos - 1)}
       /\ \A p \in 0..pos - 1 : Bytes(fl, b, pos)[p + 1] = Unit(fl, c, p)
  BY <1>1, <1>8, ListIs
<1>11. Traverse(fl, b, pos) = {b}
  BY <1>3, <1>5, <1>10
<1>12. ASSUME NEW p \in 0..pos - 1 PROVE Bytes(fl, b, pos)[p + 1] = fl[b].data[p + 1]
  BY <1>2, <1>5, <1>10 DEF Unit
<1>13. pos = ((pos - 1) % BlockSize) + 1
  BY <1>1, <1>3
<1> QED BY <1>9, <1>11, <1>12, <1>13

(* A file that is in its entry, with another offset.                       *)
LEMMA InEntryKeeps ==
    ASSUME NEW fl, NEW e, NEW f \in OpenFiles, Keeps(fl, e, f), f.inl,
           NEW f2 \in OpenFiles, SameFile(f2, f), f2.writing = f.writing, f2.block = f.block,
           f2.pos = f.pos
    PROVE  Keeps(fl, e, f2) /\ Pieces(fl, e, f2) \subseteq Pieces(fl, e, f) /\ ~Writes(f2)
<1>1. f.open /\ f2.open /\ f2.inl /\ ~Writes(f2) /\ ~Writes(f)
  BY DEF OpenFiles, Writes, SameFile
<1>2. Keeps(fl, e, f2)
  <2>1. e \in Entries /\ f2 \in FileSet /\ EntryKeeps(fl, e) /\ TailKeeps(fl, f2)
    BY <1>1 DEF Keeps, FileSet, TailKeeps
  <2>2. HeadKeeps(fl, f2)
    BY <1>1 DEF Keeps, HeadKeeps, SameFile
  <2>3. RecordKeeps(f2)
    BY <1>1 DEF Keeps, RecordKeeps, SameFile
  <2>4. Clean(e, f2)
    BY <1>1 DEF Keeps, Clean, SameFile
  <2> QED BY <2>1, <2>2, <2>3, <2>4 DEF Keeps
<1>3. Pieces(fl, e, f2) \subseteq Pieces(fl, e, f)
  BY <1>1 DEF Pieces, HeadOf, TailOf, SameFile
<1> QED BY <1>1, <1>2, <1>3

(* A file that is in its entry uses no block.                              *)
LEMMA UsedWithout ==
    ASSUME files \in [Handles -> FileSet], NEW h \in Handles, NEW f, f = files[h], f.inl,
           NEW f2, f2.inl
    PROVE  Used(flash, [files EXCEPT ![h] = f2]) = Used(flash, files)
<1>1. PICK fs : fs = [files EXCEPT ![h] = f2]
  OBVIOUS
<1>2. \A k \in Handles : InFile(flash, fs[k]) = InFile(flash, files[k])
  <2> SUFFICES ASSUME NEW k \in Handles PROVE InFile(flash, fs[k]) = InFile(flash, files[k])
    OBVIOUS
  <2>1. CASE k = h
    BY <1>1, <2>1 DEF InFile
  <2>2. CASE k # h
    BY <1>1, <2>2
  <2> QED BY <2>1, <2>2
<1>3. Used(flash, fs) = Used(flash, files)
  BY <1>2 DEF Used
<1> QED BY <1>1, <1>3

(* What is written by lfs_file_outline().                                  *)
Copying(fl, b, bytes, pos) ==
    [fl EXCEPT ![b] = [heads |-> <<>>, data |-> F(h0)!Resized(bytes, pos)]]

(* A file moved out of its entry to the block b.                           *)
OutlinedTo(f, b) ==
    [f EXCEPT !.off = f.pos, !.block = b, !.writing = TRUE, !.inl = FALSE]

(* The block that lfs_file_outline copies the cache to.                    *)
LEMMA CopyingIs ==
    ASSUME NEW fl, FlashType(fl), NEW b \in Blocks, NEW bytes \in Seq(Int),
           NEW pos \in 0..InlineMax, pos <= Len(bytes), NEW fl2, fl2 = Copying(fl, b, bytes, pos)
    PROVE  /\ FlashType(fl2) /\ \A x \in Blocks : x # b => fl2[x] = fl[x]
           /\ fl2[b].heads = <<>> /\ Len(fl2[b].data) = pos
           /\ pos = 0 => fl2[b] = [heads |-> <<>>, data |-> <<>>]
           /\ \A p \in 0..pos - 1 : fl2[b].data[p + 1] = bytes[p + 1]
<1>1. BlockSize \in Nat /\ InlineMax \in Nat /\ InlineMax <= BlockSize
  BY BlockSizeAssumption, InlineAssumption
<1>2. PICK units : units = F(h0)!Resized(bytes, pos)
  OBVIOUS
<1>3. units = [i \in 1..pos |-> IF i <= Len(bytes) THEN bytes[i] ELSE 0]
  BY <1>2, ResizedIs
<1>4. \A i \in 1..pos : units[i] = bytes[i] /\ units[i] \in Int
  <2> SUFFICES ASSUME NEW i \in 1..pos PROVE units[i] = bytes[i] /\ units[i] \in Int
    OBVIOUS
  <2>1. i \in 1..Len(bytes)
    BY <1>1
  <2> QED BY <1>3, <2>1
<1>5. units \in Seq(Int) /\ Len(units) = pos
  <2>1. units \in [1..pos -> Int] /\ pos \in Nat
    BY <1>1, <1>3, <1>4
  <2> QED BY <2>1
<1>6. pos = 0 => units = <<>>
  BY <1>5
<1>7. PICK none \in Seq(Blocks) : none = <<>>
  <2>1. <<>> \in Seq(Blocks)
    OBVIOUS
  <2> QED BY <2>1, Zenon
<1>8. fl2 = [fl EXCEPT ![b] = [heads |-> none, data |-> units]]
  BY <1>2, <1>7 DEF Copying
<1>9. fl \in [Blocks -> [heads : Seq(Blocks), data : Seq(Int)]]
  BY DEF FlashType
<1>10. fl2[b] = [heads |-> none, data |-> units] /\ \A x \in Blocks : x # b => fl2[x] = fl[x]
  BY <1>8, <1>9
<1>11. fl2[b].heads = <<>> /\ fl2[b].data = units
  BY <1>7, <1>10
<1>12. FlashType(fl2)
  <2>1. fl2 \in [Blocks -> [heads : Seq(Blocks), data : Seq(Int)]]
    BY <1>5, <1>8, <1>9
  <2>2. \A x \in Blocks : Len(fl2[x].data) <= BlockSize
    <3> SUFFICES ASSUME NEW x \in Blocks PROVE Len(fl2[x].data) <= BlockSize
      OBVIOUS
    <3>1. CASE x = b
      BY <1>1, <1>5, <1>11, <3>1
    <3>2. CASE x # b
      BY <1>10, <3>2 DEF FlashType
    <3> QED BY <3>1, <3>2
  <2> QED BY <2>1, <2>2 DEF FlashType
<1>13. pos = 0 => fl2[b] = [heads |-> <<>>, data |-> <<>>]
  BY <1>6, <1>7, <1>10
<1>14. \A p \in 0..pos - 1 : fl2[b].data[p + 1] = bytes[p + 1]
  BY <1>1, <1>4, <1>11
<1> QED BY <1>5, <1>10, <1>11, <1>12, <1>13, <1>14

(* What moving out of its entry makes of a file.                           *)
LEMMA OutlinedToIs ==
    ASSUME NEW f \in OpenFiles, NEW b \in Blocks, NEW f2, f2 = OutlinedTo(f, b)
    PROVE  /\ f2 \in OpenFiles /\ f2.open /\ f2.block = b /\ f2.off = f.pos /\ f2.writing
           /\ ~f2.inl /\ Writes(f2)
           /\ f2.pos = f.pos /\ f2.head = f.head /\ f2.size = f.size /\ f2.cache = f.cache
           /\ f2.dirty = f.dirty /\ f2.append = f.append /\ f2.erred = f.erred
<1>1. PICK yes \in BOOLEAN : yes = TRUE
  OBVIOUS
<1>2. PICK no \in BOOLEAN : no = FALSE
  OBVIOUS
<1>3. PICK off \in Nat : off = f.pos
  BY DEF OpenFiles
<1>4. f2 = [f EXCEPT !.off = off, !.block = b, !.writing = yes, !.inl = no]
  BY <1>1, <1>2, <1>3 DEF OutlinedTo
<1>5. f2 \in OpenFiles
  BY <1>4, ZenonT(40) DEF OpenFiles
<1>6. f2.block = b /\ f2.off = off /\ f2.open
  BY <1>4 DEF OpenFiles
<1>7. f2.writing = yes /\ f2.inl = no
  BY <1>4 DEF OpenFiles
<1>8. f2.pos = f.pos /\ f2.head = f.head /\ f2.size = f.size /\ f2.cache = f.cache
  BY <1>4 DEF OpenFiles
<1>9. f2.dirty = f.dirty /\ f2.append = f.append /\ f2.erred = f.erred
  BY <1>4 DEF OpenFiles
<1> QED BY <1>1, <1>2, <1>3, <1>5, <1>6, <1>7, <1>8, <1>9 DEF Writes

(* The file and its new block.                                             *)
LEMMA OutlinedKeeps ==
    ASSUME NEW fl, FlashType(fl), NEW e, NEW f \in OpenFiles, Keeps(fl, e, f), f.inl, CanWrite(f),
           NEW b \in Blocks, b \notin EntryOf(fl, e),
           NEW fl2, fl2 = Copying(fl, b, f.cache, f.pos), NEW f2, f2 = OutlinedTo(f, b)
    PROVE  /\ FlashType(fl2) /\ \A x \in Blocks : x # b => fl2[x] = fl[x]
           /\ f2 \in OpenFiles /\ Writes(f2) /\ Keeps(fl2, e, f2) /\ Outlined(f2)
           /\ HeadOf(fl2, f2) = {} /\ TailOf(fl2, f2) = {b} /\ f2.block = b
           /\ \A p \in 0..f.pos - 1 : Bytes(fl2, b, f.pos)[p + 1] = f.cache[p + 1]
<1>1. RecordKeeps(f) /\ f.open /\ f.head = Inline
  BY DEF Keeps, RecordKeeps, OpenFiles
<1>2. PICK pos \in Nat, size \in Nat, len \in Nat :
          pos = f.pos /\ size = f.size /\ len = Len(f.cache)
  BY DEF OpenFiles
<1>3. InlineMax \in Nat /\ BlockSize \in Nat /\ InlineMax <= BlockSize
  BY BlockSizeAssumption, InlineAssumption
<1>4. f.pos \in 0..InlineMax /\ f.pos <= Len(f.cache) /\ f.cache \in Seq(Int)
  <2>1. /\ size <= InlineMax /\ len = (IF f.writing THEN Longer(pos, size) ELSE size)
        /\ f.writing => pos <= InlineMax
    BY <1>1, <1>2 DEF RecordKeeps
  <2>2. f.writing \/ pos <= size
    BY <1>2 DEF CanWrite
  <2>3. pos <= InlineMax /\ pos <= len
    BY <1>3, <2>1, <2>2 DEF Longer
  <2>4. f.cache \in Seq(Int)
    BY DEF OpenFiles
  <2> QED BY <1>2, <2>3, <2>4
<1>5. /\ FlashType(fl2) /\ \A x \in Blocks : x # b => fl2[x] = fl[x]
      /\ fl2[b].heads = <<>> /\ Len(fl2[b].data) = f.pos
      /\ f.pos = 0 => fl2[b] = [heads |-> <<>>, data |-> <<>>]
      /\ \A p \in 0..f.pos - 1 : fl2[b].data[p + 1] = f.cache[p + 1]
  BY <1>4, CopyingIs
<1>6. /\ f2 \in OpenFiles /\ f2.open /\ f2.block = b /\ f2.off = f.pos /\ f2.writing
      /\ ~f2.inl /\ Writes(f2)
      /\ f2.pos = f.pos /\ f2.head = f.head /\ f2.size = f.size /\ f2.cache = f.cache
      /\ f2.dirty = f.dirty /\ f2.append = f.append
  BY OutlinedToIs
<1>7. f.pos > 0 => /\ HasList(fl2, b, f.pos) /\ Traverse(fl2, b, f.pos) = {b}
                   /\ f.pos = ((f.pos - 1) % BlockSize) + 1
                   /\ \A p \in 0..f.pos - 1 : Bytes(fl2, b, f.pos)[p + 1] = fl2[b].data[p + 1]
  <2> SUFFICES ASSUME f.pos > 0
               PROVE  /\ HasList(fl2, b, f.pos) /\ Traverse(fl2, b, f.pos) = {b}
                      /\ f.pos = ((f.pos - 1) % BlockSize) + 1
                      /\ \A p \in 0..f.pos - 1 : Bytes(fl2, b, f.pos)[p + 1] = fl2[b].data[p + 1]
    OBVIOUS
  <2>1. PICK at \in 1..BlockSize : at = f.pos
    BY <1>2, <1>3, <1>4
  <2> QED BY <1>5, <2>1, OneBlock
<1>8. TailKeeps(fl2, f2)
  <2>1. Len(fl2[b].data) = f2.off
    BY <1>5, <1>6
  <2> QED BY <1>5, <1>6, <1>7, <2>1 DEF TailKeeps
<1>9. TailOf(fl2, f2) = {b}
  <2>1. f.pos = 0 => Traverse(fl2, b, f.pos) = {}
    BY NoList
  <2>2. f.pos = 0 \/ f.pos > 0
    BY <1>2
  <2> QED BY <1>6, <1>7, <2>1, <2>2 DEF TailOf
<1>10. e \in Entries /\ EntryKeeps(fl, e) /\ Clean(e, f)
  BY DEF Keeps
<1>11. EntryKeeps(fl2, e)
  <2> SUFFICES ASSUME ~e.inl PROVE HasList(fl2, e.head, e.size)
    BY <1>10 DEF EntryKeeps
  <2>1. HasList(fl, e.head, e.size) /\ e.size \in Nat
    BY <1>10 DEF EntryKeeps, Entries
  <2>2. \A x \in Traverse(fl, e.head, e.size) : fl2[x] = fl[x]
    <3>1. Traverse(fl, e.head, e.size) \subseteq Blocks
      BY <2>1, HasListIs
    <3> QED BY <1>5, <3>1 DEF EntryOf
  <2> QED BY <1>5, <2>1, <2>2, ListStays
<1>12. HeadKeeps(fl2, f2) /\ HeadOf(fl2, f2) = {}
  BY <1>1, <1>6 DEF HeadKeeps, HeadOf
<1>13. RecordKeeps(f2)
  BY <1>1, <1>2, <1>6 DEF RecordKeeps, CanWrite
<1>14. Clean(e, f2)
  BY <1>1, <1>6, <1>10 DEF Clean
<1>15. Keeps(fl2, e, f2)
  BY <1>6, <1>8, <1>10, <1>11, <1>12, <1>13, <1>14 DEF Keeps, FileSet
<1>16. \A p \in 0..f.pos - 1 : Bytes(fl2, b, f.pos)[p + 1] = f.cache[p + 1]
  <2>1. CASE f.pos > 0
    BY <1>5, <1>7, <2>1
  <2>2. CASE f.pos = 0
    <3>1. \A p \in 0..f.pos - 1 : FALSE
      BY <2>2
    <3> QED BY <3>1
  <2> QED BY <1>2, <2>1, <2>2
<1> QED BY <1>5, <1>6, <1>9, <1>12, <1>15, <1>16 DEF Outlined

(* The file has a block now, or there is none for it.                      *)
MovedOut(f, f2) ==
    /\ Writes(f2) /\ f2.pos = f.pos /\ f2.head = f.head /\ f2.size = f.size /\ f2.cache = f.cache
    /\ f2.dirty = f.dirty /\ f2.append = f.append /\ f2.erred = f.erred
    /\ \A x \in Held(flash, entry, files) : flash'[x] = flash[x]
    /\ \A p \in 0..f.pos - 1 : Bytes(flash', f2.block, f.pos)[p + 1] = f.cache[p + 1]

(* A file for which no block was free stays in its entry.                  *)
LeftIn(f, f2) ==
    /\ SameFile(f2, f) /\ f2.writing = f.writing /\ f2.pos = f.pos /\ f2.erred /\ ~Writes(f2)
    /\ flash' = flash

(* lfs_file_outline: no block is free and the file stays, or it is moved   *)
(* to a block that holds its bytes.                                        *)
LEMMA OutlineIs ==
    ASSUME Inv, call # NoCall, NEW h \in Handles, h = h0,
           NEW f \in OpenFiles, f = file, f.inl, CanWrite(f), NEW phases, Outline(phases)
    PROVE  /\ entry' = entry /\ ops' = ops /\ ~missed'
           /\ \E f2 \in OpenFiles :
                /\ Outlined(f2) /\ World(flash', entry, [files EXCEPT ![h] = f2], free')
                /\ \/ GiveUp(f2) /\ LeftIn(f, f2)
                   \/ Go(f2, phases) /\ MovedOut(f, f2)
<1>1. /\ World(flash, entry, files, free) /\ f = files[h] /\ ~missed /\ Keeps(flash, entry[h], f)
      /\ files \in [Handles -> FileSet] /\ OthersWrote(files, h) /\ f.open
      /\ FlashType(flash)
  <2>1. /\ World(flash, entry, files, free) /\ f = files[h] /\ ~missed /\ Keeps(flash, entry[h], f)
        /\ files \in [Handles -> FileSet] /\ OthersWrote(files, h)
    BY AtWork
  <2> QED BY <2>1 DEF OpenFiles, World
<1>2. ~Writes(f)
  BY DEF Writes
<1>3. PICK fr : /\ fr = Acked(free) /\ WindowType(fr) /\ Eager(fr) /\ fr.ack = BlockCount
                /\ Vacants(fr) = Vacants(free)
  <2>1. WindowType(free) /\ Eager(free)
    BY <1>1 DEF World
  <2> QED BY <2>1, AckedIs
<1>4. PICK f1 : f1 = [file EXCEPT !.off = file.pos]
  OBVIOUS
<1>5. /\ f1 \in OpenFiles /\ SameFile(f1, f) /\ f1.writing = f.writing /\ f1.block = f.block
      /\ f1.pos = f.pos /\ f1.off = f.pos /\ f1.inl
  <2>1. PICK off \in Nat : off = f.pos
    BY DEF OpenFiles
  <2>2. f1 = [f EXCEPT !.off = off]
    BY <1>4, <2>1
  <2>3. f1 \in OpenFiles
    BY <2>2 DEF OpenFiles
  <2>4. SameFile(f1, f) /\ f1.writing = f.writing /\ f1.inl
    BY <2>2 DEF OpenFiles, SameFile
  <2>5. f1.block = f.block /\ f1.pos = f.pos /\ f1.off = off
    BY <2>2 DEF OpenFiles
  <2> QED BY <2>1, <2>3, <2>4, <2>5
<1>6. PICK a : a = Alloc(fr, Used(flash, files))
  OBVIOUS
<1>7. /\ a.block \in Blocks \cup {None}
      /\ WindowType(a.free) /\ Eager(a.free)
      /\ Vacants(a.free) \cap Held(flash, entry, files) = {}
      /\ a.block # None => a.block \notin Held(flash, entry, files) /\ a.block \notin Vacants(a.free)
      /\ a.block = None => Vacants(a.free) = {} /\ a.full
  <2>1. PICK own : own = Blank(files, h)
    OBVIOUS
  <2>2. own = {}
    BY <1>1, <1>2, <2>1 DEF Blank
  <2>3. SameEntries(flash)
    BY DEF SameEntries
  <2>4. /\ a.block \in Blocks \cup {None}
        /\ WindowType(a.free) /\ Eager(a.free)
        /\ Vacants(a.free) \cap Held(flash, entry, files) \subseteq own
        /\ a.block # None => /\ a.block \in Held(flash, entry, files) => a.block \in own
                             /\ a.block \notin Vacants(a.free)
        /\ a.block = None => Vacants(a.free) = {}
        /\ Eager(fr) /\ fr.ack = BlockCount /\ a.block = None => a.full
    BY <1>1, <1>3, <1>6, <2>1, <2>3, AllocatedIs
  <2> QED BY <1>3, <2>2, <2>4
<1>8. PICK r : /\ r = Relocation(flash, Acked(free), [file EXCEPT !.off = file.pos])
               /\ flash' = r.flash /\ free' = r.free /\ missed' = Misses(r)
               /\ IF r.block = None THEN GiveUp([r.file EXCEPT !.erred = TRUE])
                  ELSE Go([r.file EXCEPT !.inl = FALSE], phases)
               /\ entry' = entry /\ ops' = ops
  BY DEF Outline
<1>9. /\ r.free = a.free /\ r.block = a.block /\ r.full = a.full
      /\ r.flash = IF a.block = None THEN flash ELSE Copying(flash, a.block, f.cache, f.pos)
      /\ r.file = IF a.block = None THEN f1
                  ELSE [f1 EXCEPT !.block = a.block, !.writing = TRUE]
  <2>1. Alloc(Acked(free), Used(flash, [files EXCEPT ![h0] = f1])) = a
    BY <1>1, <1>3, <1>5, <1>6, UsedWithout
  <2>2. r = Relocation(flash, Acked(free), f1)
    BY <1>4, <1>8
  <2>3. f1.cache = f.cache
    BY <1>5 DEF SameFile
  <2> QED BY <1>5, <2>1, <2>2, <2>3 DEF Relocation, Copying
<1>10. ~missed'
  BY <1>1, <1>7, <1>8, <1>9 DEF Misses
<1>11. CASE a.block = None
  <2>1. PICK f2 : f2 = Spoiled(f1)
    OBVIOUS
  <2>2. /\ f2 \in OpenFiles /\ SameFile(f2, f1) /\ f2.writing = f1.writing /\ f2.pos = f1.pos
        /\ f2.block = f1.block /\ f2.off = f1.off /\ f2.erred /\ f2.open
    BY <1>5, <2>1, SpoiledIs
  <2>3. SameFile(f2, f) /\ f2.writing = f.writing /\ f2.block = f.block /\ f2.pos = f.pos
    BY <1>5, <2>2 DEF SameFile
  <2>4. /\ Keeps(flash, entry[h], f2) /\ ~Writes(f2)
        /\ Pieces(flash, entry[h], f2) \subseteq Pieces(flash, entry[h], f)
    BY <1>1, <2>2, <2>3, InEntryKeeps
  <2>5. World(flash, entry, [files EXCEPT ![h] = f2], free)
    BY <1>1, <2>4, FileLess
  <2>6. flash' = flash /\ free' = a.free /\ Vacants(a.free) = {}
    BY <1>7, <1>8, <1>9, <1>11
  <2>7. World(flash, entry, [files EXCEPT ![h] = f2], a.free)
    BY <1>7, <2>5, <2>6, WindowGone
  <2>8. GiveUp(f2)
    BY <1>8, <1>9, <1>11, <2>1 DEF Spoiled
  <2>9. Outlined(f2)
    BY <2>3 DEF Outlined, SameFile
  <2>10. LeftIn(f, f2)
    BY <2>2, <2>3, <2>4, <2>6 DEF LeftIn
  <2> QED BY <1>8, <1>10, <2>2, <2>6, <2>7, <2>8, <2>9, <2>10
<1>12. CASE a.block # None
  <2>1. PICK b \in Blocks : b = a.block
    BY <1>7, <1>12
  <2>2. PICK fl2, f2 : fl2 = Copying(flash, b, f.cache, f.pos) /\ f2 = OutlinedTo(f, b)
    OBVIOUS
  <2>3. b \notin Held(flash, entry, files) /\ b \notin Vacants(a.free)
    BY <1>7, <1>12, <2>1
  <2>4. b \notin EntryOf(flash, entry[h])
    BY <2>3, HeldIs
  <2>5. /\ FlashType(fl2) /\ \A x \in Blocks : x # b => fl2[x] = flash[x]
        /\ f2 \in OpenFiles /\ Writes(f2) /\ Keeps(fl2, entry[h], f2) /\ Outlined(f2)
        /\ HeadOf(fl2, f2) = {} /\ TailOf(fl2, f2) = {b} /\ f2.block = b
        /\ \A p \in 0..f.pos - 1 : Bytes(fl2, b, f.pos)[p + 1] = f.cache[p + 1]
    BY <1>1, <2>2, <2>4, OutlinedKeeps, SMTT(30)
  <2>6. \A x \in Held(flash, entry, files) : fl2[x] = flash[x]
    <3> SUFFICES ASSUME NEW x \in Held(flash, entry, files) PROVE fl2[x] = flash[x]
      OBVIOUS
    <3>1. PICK k \in Handles : x \in EntryOf(flash, entry[k]) \cup HeadOf(flash, files[k]) \cup TailOf(flash, files[k])
      BY HeldIs
    <3>2. Keeps(flash, entry[k], files[k])
      BY <1>1 DEF World
    <3>3. x \in Blocks
      BY <1>1, <3>1, <3>2, PiecesAreBlocks
    <3> QED BY <2>3, <2>5, <3>3
  <2>7. \A k \in Handles : k # h /\ Writes(files[k]) => files[k].block \notin TailOf(fl2, f2)
    <3> SUFFICES ASSUME NEW k \in Handles, Writes(files[k]) PROVE files[k].block # b
      BY <2>5
    <3>1. files[k].block \in TailOf(flash, files[k])
      BY DEF TailOf
    <3> QED BY <2>3, <3>1, HeldIs
  <2>8. Vacants(a.free) \cap (Held(flash, entry, files) \cup TailOf(fl2, f2)) = {}
    BY <1>7, <2>3, <2>5
  <2>9. World(fl2, entry, [files EXCEPT ![h] = f2], a.free)
    <3>1. HeadOf(fl2, f2) \subseteq HeadOf(flash, files[h]) /\ f2.block \notin Held(flash, entry, files)
          /\ ~Writes(files[h])
      BY <1>1, <1>2, <2>3, <2>5
    <3> QED BY <1>1, <1>7, <2>5, <2>6, <2>7, <2>8, <3>1, WorldMore
  <2>10. flash' = fl2 /\ free' = a.free
    BY <1>8, <1>9, <1>12, <2>1, <2>2
  <2>11. Go(f2, phases)
    <3>1. [r.file EXCEPT !.inl = FALSE] = f2
      <4>1. r.file = [f1 EXCEPT !.block = b, !.writing = TRUE]
        BY <1>9, <1>12, <2>1
      <4> QED BY <1>4, <2>2, <4>1 DEF OutlinedTo, OpenFiles
    <3>2. Go([r.file EXCEPT !.inl = FALSE], phases)
      BY <1>8, <1>9, <1>12
    <3> QED BY <3>1, <3>2
  <2>12. /\ f2.pos = f.pos /\ f2.head = f.head /\ f2.size = f.size /\ f2.cache = f.cache
         /\ f2.dirty = f.dirty /\ f2.append = f.append /\ f2.erred = f.erred
    BY <2>2, OutlinedToIs
  <2>13. MovedOut(f, f2)
    BY <2>5, <2>6, <2>10, <2>12 DEF MovedOut
  <2> QED BY <1>8, <1>10, <2>5, <2>9, <2>10, <2>11, <2>13
<1> QED BY <1>11, <1>12

(* A step that writes a unit keeps the invariant, when the phases that are *)
(* left fit the file one unit further.                                     *)
FitsNext(f, phases) ==
    \A f2 : /\ f2.open /\ f2.writing /\ f2.pos = f.pos + 1 /\ f2.size = f.size /\ f2.inl = f.inl
            /\ f2.append = f.append /\ phases # <<>>
            => Shaped(f2, phases)

(* Writing a unit keeps the invariant, whatever becomes of it.             *)
LEMMA WriteUnitKeeps ==
    ASSUME Inv, call # NoCall, CanWrite(file), file.inl => file.pos + 1 <= InlineMax,
           NEW val \in Int, NEW last \in BOOLEAN, NEW phases, WriteUnit(val, last, phases),
           FitsNext(file, phases)
    PROVE  Inv'
<1>1. PICK h \in Handles, f \in OpenFiles : h = h0 /\ f = file
  BY AtWork
<1>2. f.pos \in Nat /\ f.open /\ f.inl \in BOOLEAN
  BY DEF OpenFiles
<1>3. /\ entry' = entry /\ ops' = ops /\ ~missed'
      /\ \E f2 \in OpenFiles :
           /\ Outlined(f2) /\ World(flash', entry, [files EXCEPT ![h] = f2], free')
           /\ \/ GiveUp(f2) /\ UnitRefused(f, f2)
              \/ Go(f2, phases) /\ UnitWritten(f, f2, val, last)
  <2>1. CASE f.inl
    <3>1. f.pos + 1 <= InlineMax
      BY <1>1, <2>1
    <3> QED BY <1>1, <2>1, <3>1, WriteInlineIs
  <2>2. CASE ~f.inl
    <3>1. ~file.inl
      BY <1>1, <2>2
    <3> QED BY <1>1, <3>1, WriteBlockIs
  <2> QED BY <2>1, <2>2
<1>4. PICK f2 \in OpenFiles :
          /\ Outlined(f2) /\ World(flash', entry, [files EXCEPT ![h] = f2], free')
          /\ \/ GiveUp(f2) /\ UnitRefused(f, f2)
             \/ Go(f2, phases) /\ UnitWritten(f, f2, val, last)
  BY <1>3
<1>5. World(flash', entry', [files EXCEPT ![h0] = f2], free')
  BY <1>1, <1>3, <1>4
<1>6. CASE GiveUp(f2) /\ UnitRefused(f, f2)
  <2>1. Writes(f2) => f2.pos > 0
    BY <1>6 DEF UnitRefused
  <2> QED BY <1>3, <1>4, <1>5, <1>6, <2>1, GiveUpKeeps
<1>7. CASE Go(f2, phases) /\ UnitWritten(f, f2, val, last)
  <2>1. /\ f2.writing /\ f2.pos = f.pos + 1 /\ f2.size = f.size /\ f2.inl = f.inl
        /\ f2.append = f.append
    BY <1>7 DEF UnitWritten
  <2>2. f2.pos > 0 /\ f2.pos # 0
    BY <1>2, <2>1
  <2>3. f2.open
    BY DEF OpenFiles
  <2>4. phases # <<>> => Shaped(f2, phases)
    BY <1>1, <2>1, <2>3 DEF FitsNext
  <2>5. files' = [files EXCEPT ![h0] = f2] /\ call' = GoneOn(phases)
    BY <1>7, GoIs
  <2> QED BY <1>3, <1>4, <1>5, <2>2, <2>4, <2>5, StepKeeps
<1> QED BY <1>4, <1>6, <1>7

(* So does one that gives the file a block.                                *)
FitsHere(f, phases) ==
    \A f2 : /\ f2.open /\ f2.writing /\ f2.pos = f.pos /\ f2.size = f.size /\ ~f2.inl
            /\ f2.append = f.append
            => Shaped(f2, phases) /\ (f2.pos = 0 => Starts(phases, f2))

(* Moving a file out of its entry keeps the invariant.                     *)
LEMMA OutlineKeeps ==
    ASSUME Inv, call # NoCall, CanWrite(file), file.inl, NEW phases, phases # <<>>,
           Outline(phases), FitsHere(file, phases)
    PROVE  Inv'
<1>1. PICK h \in Handles, f \in OpenFiles : h = h0 /\ f = file
  BY AtWork
<1>2. /\ entry' = entry /\ ops' = ops /\ ~missed'
      /\ \E f2 \in OpenFiles :
           /\ Outlined(f2) /\ World(flash', entry, [files EXCEPT ![h] = f2], free')
           /\ \/ GiveUp(f2) /\ LeftIn(f, f2)
              \/ Go(f2, phases) /\ MovedOut(f, f2)
  BY <1>1, OutlineIs
<1>3. PICK f2 \in OpenFiles :
          /\ Outlined(f2) /\ World(flash', entry, [files EXCEPT ![h] = f2], free')
          /\ \/ GiveUp(f2) /\ LeftIn(f, f2)
             \/ Go(f2, phases) /\ MovedOut(f, f2)
  BY <1>2
<1>4. World(flash', entry', [files EXCEPT ![h0] = f2], free')
  BY <1>1, <1>2, <1>3
<1>5. CASE GiveUp(f2) /\ LeftIn(f, f2)
  <2>1. Writes(f2) => f2.pos > 0
    BY <1>5 DEF LeftIn
  <2> QED BY <1>2, <1>3, <1>4, <1>5, <2>1, GiveUpKeeps
<1>6. CASE Go(f2, phases) /\ MovedOut(f, f2)
  <2>1. /\ f2.open /\ f2.writing /\ ~f2.inl /\ f2.pos = f.pos /\ f2.size = f.size
        /\ f2.append = f.append
    BY <1>6 DEF MovedOut, Writes
  <2>2. Shaped(f2, phases) /\ (f2.pos = 0 => Starts(phases, f2))
    BY <1>1, <2>1 DEF FitsHere
  <2>3. files' = [files EXCEPT ![h0] = f2] /\ call' = GoneOn(phases)
    BY <1>6, GoIs
  <2> QED BY <1>2, <1>3, <1>4, <2>2, <2>3, StepKeeps
<1> QED BY <1>3, <1>5, <1>6

(* What is to be written is all that is to be done first.                  *)
LEMMA WritingIs ==
    ASSUME NEW f, NEW ph, Shaped(f, ph)
    PROVE  /\ Head(ph).do = "Fill" => CanWrite(f) /\ Fills(ph, f.pos)
           /\ Head(ph).do = "Put" => CanWrite(f) /\ Puts(ph)
<1>1. CASE Head(ph).do = "Fill"
  <2>1. ~Settled(ph, f.size, f.inl)
    BY <1>1, StoreIs DEF Settled, Ends, Cuts, Grows
  <2> QED BY <1>1, <2>1 DEF Shaped, Puts
<1>2. CASE Head(ph).do = "Put"
  <2>1. ~Settled(ph, f.size, f.inl)
    BY <1>2, StoreIs DEF Settled, Ends, Cuts, Grows
  <2> QED BY <1>2, <2>1 DEF Shaped, Fills
<1> QED BY <1>1, <1>2

(* A file that has been written can be written on.                         *)
LEMMA CanWriteOn ==
    ASSUME NEW f, f.pos \in Nat, f.size \in Nat, CanWrite(f),
           NEW f2, f2.writing, f2.pos \in {f.pos, f.pos + 1}, f2.size = f.size, f2.append = f.append
    PROVE  CanWrite(f2)
BY DEF CanWrite

(* The fill has come to its end: the next phase is at its place.           *)
LEMMA FilledNext ==
    ASSUME NEW f, CanWrite(f), NEW ph, Fills(ph, f.pos)
    PROVE  Tail(ph) # <<>> /\ Shaped(f, Tail(ph))
<1>1. CASE Puts(Tail(ph))
  BY <1>1 DEF Fills, Shaped
<1>2. CASE Returns(Tail(ph))
  BY <1>2 DEF Fills, Returns, Shaped, Settled
<1> QED BY <1>1, <1>2 DEF Fills

(* There is room in the entry for one unit if there is for all of them.    *)
LEMMA NoOutline ==
    ASSUME NEW n \in Nat \ {0}, ~NeedsOutline(n), file.inl, file.pos \in Nat, file.size \in Nat
    PROVE  file.pos + 1 <= InlineMax
<1>1. Longer(file.pos + n, file.size) <= InlineMax
  BY InlineAssumption, BlockSizeAssumption DEF NeedsOutline, Longer
<1> QED BY <1>1, InlineAssumption, BlockSizeAssumption DEF Longer

(* lfs_file_write(): zeros up to the position.                             *)
LEMMA DoFillKeeps == ASSUME Inv, DoFill PROVE Inv'
<1>1. call # NoCall /\ Head(call.phases).do = "Fill" /\ First = Head(call.phases)
      /\ Others = Tail(call.phases)
  BY DEF DoFill, Busy, First, Others
<1>2. /\ h0 \in Handles /\ file = files[h0] /\ file \in OpenFiles /\ ~missed
      /\ World(flash, entry, files, free) /\ Shaped(file, call.phases) /\ Outlined(file)
      /\ files \in [Handles -> FileSet] /\ call.phases # <<>>
      /\ Writes(file) /\ file.pos = 0 => Starts(call.phases, file)
  BY <1>1, AtWork
<1>3. PICK f \in OpenFiles : f = file
  BY <1>2
<1>4. f.pos \in Nat /\ f.size \in Nat /\ f.open
  BY DEF OpenFiles
<1>5. CanWrite(f) /\ Fills(call.phases, f.pos)
  BY <1>1, <1>2, <1>3, WritingIs
<1>6. First.to \in Nat /\ f.pos <= First.to
  BY <1>1, <1>5 DEF Fills
<1>7. CASE file.pos < First.to
  <2>1. CASE NeedsOutline(1)
    <3>1. Outline(call.phases) /\ file.inl
      BY <1>7, <2>1 DEF DoFill, NeedsOutline
    <3>2. FitsHere(file, call.phases)
      <4> SUFFICES ASSUME NEW f2, f2.open, f2.writing, f2.pos = file.pos, f2.size = file.size, ~f2.inl,
                          f2.append = file.append
                   PROVE  Shaped(f2, call.phases) /\ (f2.pos = 0 => Starts(call.phases, f2))
        BY DEF FitsHere
      <4>1. CanWrite(f2)
        BY <1>3, <1>4, <1>5, CanWriteOn
      <4>2. Fills(call.phases, f2.pos)
        BY <1>3, <1>5
      <4>3. Starts(call.phases, f2)
        BY <1>1, <1>3, <1>4, <1>6, <1>7 DEF Starts
      <4> QED BY <4>1, <4>2, <4>3 DEF Shaped
    <3> QED BY <1>1, <1>2, <1>3, <1>5, <3>1, <3>2, OutlineKeeps
  <2>2. CASE ~NeedsOutline(1)
    <3>1. PICK none \in Int : none = 0
      OBVIOUS
    <3>5. PICK yes \in BOOLEAN : yes = TRUE
      OBVIOUS
    <3>4. WriteUnit(none, yes, call.phases)
      BY <1>7, <2>2, <3>1, <3>5 DEF DoFill
    <3>2. file.inl => file.pos + 1 <= InlineMax
      BY <1>3, <1>4, <2>2, NoOutline
    <3>3. FitsNext(file, call.phases)
      <4> SUFFICES ASSUME NEW f2, f2.open, f2.writing, f2.pos = file.pos + 1, f2.size = file.size,
                          f2.inl = file.inl, f2.append = file.append
                   PROVE  Shaped(f2, call.phases)
        BY DEF FitsNext
      <4>1. CanWrite(f2)
        BY <1>3, <1>4, <1>5, CanWriteOn
      <4>2. f2.pos <= First.to
        BY <1>3, <1>4, <1>6, <1>7
      <4>3. Fills(call.phases, f2.pos)
        BY <1>1, <1>5, <4>2 DEF Fills
      <4> QED BY <4>1, <4>3 DEF Shaped
    <3> QED BY <1>1, <1>3, <1>5, <3>2, <3>3, <3>4, WriteUnitKeeps
  <2> QED BY <2>1, <2>2
<1>8. CASE ~(file.pos < First.to)
  <2>1. /\ Go(f, Others) /\ flash' = flash /\ entry' = entry /\ free' = free
        /\ missed' = missed /\ ops' = ops
    BY <1>3, <1>8 DEF DoFill
  <2>2. files' = [files EXCEPT ![h0] = f] /\ call' = GoneOn(Others)
    BY <2>1, GoIs
  <2>3. [files EXCEPT ![h0] = f] = files
    BY <1>2, <1>3
  <2>4. World(flash', entry', [files EXCEPT ![h0] = f], free')
    BY <1>2, <2>1, <2>3
  <2>5. Others # <<>> /\ Shaped(f, Others)
    BY <1>1, <1>5, FilledNext
  <2>6. ~(Writes(f) /\ f.pos = 0)
    <3> SUFFICES ASSUME Writes(f), f.pos = 0 PROVE FALSE
      OBVIOUS
    <3>1. First.to = 0
      BY <1>3, <1>4, <1>6, <1>8
    <3>2. Starts(call.phases, file)
      BY <1>2, <1>3
    <3> QED BY <1>1, <3>1, <3>2 DEF Starts
  <2> QED BY <1>1, <1>2, <1>3, <2>1, <2>2, <2>4, <2>5, <2>6, StepKeeps
<1> QED BY <1>7, <1>8

(* lfs_file_write(): one unit of those that are to be written.             *)
LEMMA DoPutKeeps == ASSUME Inv, DoPut PROVE Inv'
<1>1. call # NoCall /\ Head(call.phases).do = "Put" /\ First = Head(call.phases)
      /\ Others = Tail(call.phases)
  BY DEF DoPut, Busy, First, Others
<1>2. /\ file \in OpenFiles /\ Shaped(file, call.phases) /\ call.phases # <<>>
  BY <1>1, AtWork
<1>3. file.pos \in Nat /\ file.size \in Nat
  BY <1>2 DEF OpenFiles
<1>4. CanWrite(file) /\ Puts(call.phases)
  BY <1>1, <1>2, WritingIs
<1>5. First.val \in Int /\ First.n \in Nat \ {0} /\ Others = <<>>
  BY <1>1, <1>4 DEF Puts
<1>6. CASE NeedsOutline(First.n)
  <2>1. Outline(call.phases) /\ file.inl
    BY <1>6 DEF DoPut, NeedsOutline
  <2>2. FitsHere(file, call.phases)
    <3> SUFFICES ASSUME NEW f2, f2.open, f2.writing, f2.pos = file.pos, f2.size = file.size, ~f2.inl,
                        f2.append = file.append
                 PROVE  Shaped(f2, call.phases) /\ (f2.pos = 0 => Starts(call.phases, f2))
      BY DEF FitsHere
    <3>1. CanWrite(f2)
      BY <1>3, <1>4, CanWriteOn
    <3>2. Starts(call.phases, f2)
      BY <1>1 DEF Starts
    <3> QED BY <1>4, <3>1, <3>2 DEF Shaped
  <2> QED BY <1>1, <1>2, <1>4, <2>1, <2>2, OutlineKeeps
<1>7. CASE ~NeedsOutline(First.n)
  <2>1. PICK last \in BOOLEAN : last = (First.n = 1)
    OBVIOUS
  <2>2. PICK phases : phases = IF First.n = 1 THEN Others
                               ELSE <<Put(First.val, First.n - 1)>> \o Others
    OBVIOUS
  <2>3. WriteUnit(First.val, last, phases)
    BY <1>7, <2>1, <2>2 DEF DoPut
  <2>4. file.inl => file.pos + 1 <= InlineMax
    BY <1>3, <1>5, <1>7, NoOutline
  <2>5. FitsNext(file, phases)
    <3> SUFFICES ASSUME NEW f2, f2.open, f2.writing, f2.pos = file.pos + 1, f2.size = file.size,
                        f2.inl = file.inl, f2.append = file.append, phases # <<>>
                 PROVE  Shaped(f2, phases)
      BY DEF FitsNext
    <3>1. CanWrite(f2)
      BY <1>3, <1>4, CanWriteOn
    <3>2. PICK a : a = Put(First.val, First.n - 1)
      OBVIOUS
    <3>10. First.n - 1 \in Nat \ {0}
      BY <1>5, <2>2
    <3>3. a.do = "Put" /\ a.val \in Int /\ a.n \in Nat \ {0}
      BY <1>5, <3>2, <3>10 DEF Put
    <3>4. phases = <<a>> \o <<>>
      BY <1>5, <2>2, <3>2
    <3>5. phases = <<a>>
      BY <3>4, JoinedToNone
    <3>6. Head(phases) = a /\ Tail(phases) = <<>>
      BY <3>5, HeadOfList
    <3>7. Puts(phases)
      BY <3>3, <3>6 DEF Puts
    <3> QED BY <3>1, <3>7 DEF Shaped
  <2> QED BY <1>1, <1>4, <1>5, <2>3, <2>4, <2>5, WriteUnitKeeps
<1> QED BY <1>6, <1>7

(* A flush that fails leaves the file as it is, in error if its caller     *)
(* wanted it on the device.                                                *)
GivenUp(f) == [f EXCEPT !.erred = @ \/ task[h0].op \in {"Sync", "Close"}]

(* The file of a call that gave up.                                        *)
LEMMA GivenUpIs ==
    ASSUME NEW f \in OpenFiles, NEW f2, f2 = GivenUp(f)
    PROVE  /\ f2 \in OpenFiles /\ SameFile(f2, f) /\ f2.writing = f.writing /\ f2.pos = f.pos
           /\ f2.block = f.block /\ f2.off = f.off /\ f2.open
           /\ f2.erred = (f.erred \/ task[h0].op \in {"Sync", "Close"})
<1>1. PICK err \in BOOLEAN : err = (f.erred \/ task[h0].op \in {"Sync", "Close"})
  OBVIOUS
<1>2. f2 = [f EXCEPT !.erred = err]
  BY <1>1 DEF GivenUp
<1>3. f2 \in OpenFiles
  BY <1>2 DEF OpenFiles
<1>4. SameFile(f2, f) /\ f2.writing = f.writing
  BY <1>2 DEF OpenFiles, SameFile
<1>5. f2.pos = f.pos /\ f2.block = f.block /\ f2.off = f.off /\ f2.open
  BY <1>2 DEF OpenFiles
<1>6. f2.erred = err
  BY <1>2 DEF OpenFiles
<1> QED BY <1>1, <1>3, <1>4, <1>5, <1>6

(* A call that gave up leaves the blocks alone.                            *)
LEMMA GivenUpKeeps ==
    ASSUME NEW fl, NEW es, NEW fs, NEW fr, World(fl, es, fs, fr), NEW h \in Handles,
           NEW f \in OpenFiles, f = fs[h], Outlined(f), NEW f2, f2 = GivenUp(f)
    PROVE  World(fl, es, [fs EXCEPT ![h] = f2], fr) /\ Outlined(f2) /\ f2 \in OpenFiles
           /\ f2.writing = f.writing /\ f2.pos = f.pos
<1>1. /\ f2 \in OpenFiles /\ SameFile(f2, f) /\ f2.writing = f.writing /\ f2.pos = f.pos
      /\ f2.block = f.block /\ f2.off = f.off /\ f2.open
  BY GivenUpIs
<1>2. World(fl, es, [fs EXCEPT ![h] = f2], fr)
  BY <1>1, SameRecord
<1>3. Outlined(f2)
  BY <1>1 DEF Outlined, SameFile, OpenFiles
<1> QED BY <1>1, <1>2, <1>3

(* lfs_file_flush(): the block that can not be programmed is copied.       *)
LEMMA FlushFailsIs ==
    ASSUME Inv, FlushFails, NEW h \in Handles, h = h0, NEW f \in OpenFiles, f = file
    PROVE  /\ entry' = entry /\ ops' = ops /\ missed' = missed
           /\ f.writing /\ ~f.inl /\ f.pos > 0
           /\ \E f2 \in OpenFiles :
                /\ Outlined(f2) /\ World(flash', entry, [files EXCEPT ![h] = f2], free')
                /\ f2.writing /\ f2.pos = f.pos
                /\ \/ GiveUp(f2) /\ f2 = GivenUp(f) /\ flash' = flash
                   \/ Go(f2, call.phases) /\ Rewritten(f, flash', f2) /\ f2.erred = f.erred
<1>1. /\ call # NoCall /\ f.writing /\ ~f.inl /\ f.off > 0
      /\ entry' = entry /\ ops' = ops /\ missed' = missed
  BY DEF FlushFails, Busy
<1>2. /\ f = files[h] /\ files \in [Handles -> FileSet]
      /\ World(flash, entry, files, free) /\ TailKeeps(flash, f) /\ Outlined(f)
      /\ OthersWrote(files, h)
  BY <1>1, AtWork
<1>3. Writes(f) /\ f.pos \in Nat /\ f.off \in Nat /\ f.open
  BY <1>1 DEF Writes, OpenFiles
<1>4. f.pos > 0
  BY <1>1, <1>2, <1>3 DEF TailKeeps
<1>5. PICK fs : fs = With(files, h0, f)
  OBVIOUS
<1>6. fs = files
  BY <1>2, <1>5 DEF With
<1>7. PICK r : /\ r = Relocation(flash, free, f)
               /\ flash' = r.flash /\ free' = r.free
               /\ IF r.block = None THEN GiveUp(GivenUp(f)) ELSE Go(r.file, call.phases)
  <2>1. \E r \in {Relocation(flash, free, file)} :
             /\ flash' = r.flash
             /\ free' = r.free
             /\ IF r.block = None
                THEN GiveUp([file EXCEPT !.erred = @ \/ task[h0].op \in {"Sync", "Close"}])
                ELSE Go(r.file, call.phases)
    BY DEF FlushFails
  <2> QED BY <2>1 DEF GivenUp
<1>8. SameEntries(flash)
  BY DEF SameEntries
<1>9. World(flash, entry, fs, free) /\ OthersWrote(fs, h0) /\ h0 \in Handles
  BY <1>2, <1>6
<1>10. PICK g : g = r.file
  OBVIOUS
<1>11. /\ r.block = None => r.flash = flash /\ World(flash, entry, fs, r.free)
       /\ r.block # None =>
            /\ g \in OpenFiles /\ Writes(g) /\ SameFile(g, f) /\ g.pos = f.pos
            /\ g.erred = f.erred /\ g.block = r.block
            /\ World(r.flash, entry, With(files, h0, g), r.free)
            /\ Bytes(r.flash, r.block, f.pos) = Bytes(flash, f.block, f.pos)
            /\ \A x \in Held(flash, entry, Unwritten(fs, h0)) : r.flash[x] = flash[x]
  BY <1>2, <1>3, <1>5, <1>7, <1>8, <1>9, <1>10, RelocationIs
<1>12. CASE r.block = None
  <2>1. PICK f2 : f2 = GivenUp(f)
    OBVIOUS
  <2>2. World(flash, entry, files, r.free)
    BY <1>6, <1>11, <1>12
  <2>7. World(flash, entry, [files EXCEPT ![h] = f2], r.free)
    BY <1>2, <2>1, <2>2, GivenUpKeeps
  <2>3. /\ World(flash, entry, [files EXCEPT ![h] = f2], r.free) /\ Outlined(f2)
        /\ f2 \in OpenFiles /\ f2.writing = f.writing /\ f2.pos = f.pos
    <3>1. /\ f2 \in OpenFiles /\ SameFile(f2, f) /\ f2.writing = f.writing /\ f2.pos = f.pos
          /\ f2.open
      BY <2>1, GivenUpIs
    <3>2. Outlined(f2)
      BY <1>2, <3>1 DEF Outlined, SameFile, OpenFiles
    <3> QED BY <2>7, <3>1, <3>2
  <2>4. GiveUp(f2) /\ flash' = flash
    BY <1>7, <1>11, <1>12, <2>1
  <2>5. World(flash', entry, [files EXCEPT ![h] = f2], free')
    BY <1>7, <2>3, <2>4
  <2>6. f2.writing
    BY <1>1, <2>3
  <2> QED BY <1>1, <1>4, <2>1, <2>3, <2>4, <2>5, <2>6
<1>13. CASE r.block # None
  <2>1. World(flash', entry, [files EXCEPT ![h] = g], free')
    BY <1>7, <1>11, <1>13 DEF With
  <2>2. Rewritten(f, flash', g)
    <3>1. Precedes(f, Bytes(flash, f.block, f.pos))
      BY <1>1 DEF Precedes
    <3>2. Bytes(flash', g.block, g.pos) = Bytes(flash, f.block, f.pos)
      BY <1>7, <1>11, <1>13
    <3>3. \A x \in Held(flash, entry, Unwritten(files, h0)) : flash'[x] = flash[x]
      BY <1>6, <1>7, <1>11, <1>13
    <3> QED BY <1>11, <1>13, <3>1, <3>2, <3>3 DEF Rewritten
  <2>3. Outlined(g) /\ g.writing
    BY <1>11, <1>13 DEF Outlined, Writes
  <2>4. Go(g, call.phases) /\ g.erred = f.erred /\ g \in OpenFiles /\ g.pos = f.pos
    BY <1>7, <1>10, <1>11, <1>13
  <2> QED BY <1>1, <1>4, <2>1, <2>2, <2>3, <2>4
<1> QED BY <1>12, <1>13

(* A flush that goes on is one of a file that is as long as it was.        *)
LEMMA FlushesOn ==
    ASSUME NEW f, NEW ph, Shaped(f, ph), Head(ph).do = "Flush",
           NEW f2, FinalSize(f2) = FinalSize(f), f2.inl = f.inl
    PROVE  Shaped(f2, ph)
<1>1. Head(ph).back \in Nat /\ Tail(ph) # <<>> /\ Settled(Tail(ph), FinalSize(f), f.inl)
  BY FlushIs
<1> QED BY <1>1 DEF Shaped

(* A flush that fails keeps the invariant.                                 *)
LEMMA FlushFailsKeeps == ASSUME Inv, FlushFails PROVE Inv'
<1>1. call # NoCall /\ Head(call.phases).do = "Flush"
  BY DEF FlushFails, Busy, First
<1>2. PICK h \in Handles : h = h0
  BY <1>1, AtWork
<1>3. PICK f \in OpenFiles : f = file /\ Shaped(f, call.phases) /\ ~missed
  BY <1>1, AtWork
<1>4. /\ entry' = entry /\ ops' = ops /\ missed' = missed /\ f.writing /\ ~f.inl /\ f.pos > 0
      /\ \E f2 \in OpenFiles :
           /\ Outlined(f2) /\ World(flash', entry, [files EXCEPT ![h] = f2], free')
           /\ f2.writing /\ f2.pos = f.pos
           /\ \/ GiveUp(f2) /\ f2 = GivenUp(f) /\ flash' = flash
              \/ Go(f2, call.phases) /\ Rewritten(f, flash', f2) /\ f2.erred = f.erred
  BY <1>2, <1>3, FlushFailsIs
<1>5. PICK f2 \in OpenFiles :
           /\ Outlined(f2) /\ World(flash', entry, [files EXCEPT ![h] = f2], free')
           /\ f2.writing /\ f2.pos = f.pos
           /\ \/ GiveUp(f2) /\ f2 = GivenUp(f) /\ flash' = flash
              \/ Go(f2, call.phases) /\ Rewritten(f, flash', f2) /\ f2.erred = f.erred
  BY <1>4
<1>6. World(flash', entry', [files EXCEPT ![h0] = f2], free') /\ ~missed'
  BY <1>2, <1>3, <1>4, <1>5
<1>7. f2.pos > 0 /\ f2.pos # 0
  BY <1>4, <1>5
<1>8. CASE GiveUp(f2)
  BY <1>1, <1>4, <1>5, <1>6, <1>7, <1>8, GiveUpKeeps
<1>9. CASE Go(f2, call.phases) /\ Rewritten(f, flash', f2)
  <2>1. SameFile(f2, f)
    BY <1>9 DEF Rewritten
  <2>2. FinalSize(f2) = FinalSize(f) /\ f2.inl = f.inl
    BY <1>4, <1>5, <2>1 DEF SameFile, FinalSize
  <2>3. Shaped(f2, call.phases)
    BY <1>1, <1>3, <2>2, FlushesOn
  <2>4. files' = [files EXCEPT ![h0] = f2] /\ call' = GoneOn(call.phases)
    BY <1>9, GoIs
  <2>5. call.phases # <<>>
    BY <1>1, AtWork
  <2> QED BY <1>1, <1>4, <1>5, <1>6, <1>7, <2>3, <2>4, <2>5, StepKeeps
<1> QED BY <1>5, <1>8, <1>9

(* A unit of what the list holds.                                          *)
LEMMA UnitToCopy ==
    ASSUME NEW fl, FlashType(fl), NEW f \in OpenFiles, HeadKeeps(fl, f), f.head # Inline,
           f.pos < f.size
    PROVE  Bytes(fl, f.head, f.size)[f.pos + 1] \in Int
<1>1. f.open /\ f.pos \in Nat /\ f.size \in Nat
  BY DEF OpenFiles
<1>2. HasList(fl, f.head, f.size)
  BY <1>1 DEF HeadKeeps
<1>3. Bytes(fl, f.head, f.size) \in Seq(Int) /\ Len(Bytes(fl, f.head, f.size)) = f.size
  BY <1>1, <1>2, HasListIs
<1> QED BY <1>1, <1>3

(* lfs_file_flush(): a unit of the old list is copied to the new one.      *)
LEMMA DoCopyKeeps == ASSUME Inv, DoCopy PROVE Inv'
<1>1. /\ call # NoCall /\ Head(call.phases).do = "Flush"
      /\ file.writing /\ ~file.inl /\ file.pos < file.size
  BY DEF DoCopy, Busy, First
<1>2. PICK h \in Handles : h = h0
  BY <1>1, AtWork
<1>3. PICK f \in OpenFiles : f = file
  BY <1>1, AtWork
<1>4. /\ f = files[h] /\ files \in [Handles -> FileSet] /\ ~missed
      /\ World(flash, entry, files, free) /\ RecordKeeps(f) /\ Keeps(flash, entry[h], f) /\ Outlined(f)
      /\ Shaped(f, call.phases)
      /\ Writes(f) /\ f.pos = 0 => Starts(call.phases, f)
  BY <1>1, <1>2, <1>3, AtWork
<1>5. f.pos \in Nat /\ f.size \in Nat /\ f.open /\ Writes(f)
  BY <1>1, <1>3 DEF OpenFiles, Writes
<1>6. CASE file.head = Inline
  <2>1. PICK f2 : f2 = GivenUp(f)
    OBVIOUS
  <2>2. /\ GiveUp(f2) /\ flash' = flash /\ entry' = entry /\ free' = free /\ missed' = missed
        /\ ops' = ops
    BY <1>3, <1>6, <2>1 DEF DoCopy, GivenUp
  <2>3. World(flash, entry, [files EXCEPT ![h] = f2], free)
    BY <1>4, <2>1, GivenUpKeeps
  <2>4. f2 \in OpenFiles /\ f2.pos = f.pos /\ SameFile(f2, f) /\ f2.writing = f.writing /\ f2.open
    BY <2>1, GivenUpIs
  <2>5. Outlined(f2)
    BY <1>4, <2>4 DEF Outlined, SameFile, OpenFiles
  <2>6. f2.pos > 0
    <3>1. ~Starts(call.phases, f) \/ f.size = 0
      BY <1>1 DEF Starts
    <3> QED BY <1>1, <1>3, <1>4, <1>5, <2>4, <3>1
  <2>7. World(flash', entry', [files EXCEPT ![h0] = f2], free')
    BY <1>2, <2>2, <2>3
  <2> QED BY <1>1, <1>4, <2>2, <2>4, <2>5, <2>6, <2>7, GiveUpKeeps
<1>7. CASE file.head # Inline
  <2>1. PICK val \in Int : val = Bytes(flash, file.head, file.size)[file.pos + 1]
    <3>1. FlashType(flash) /\ HeadKeeps(flash, f)
      BY <1>4 DEF World, Keeps
    <3> QED BY <1>1, <1>3, <1>7, <3>1, UnitToCopy
  <2>2. PICK yes \in BOOLEAN : yes = TRUE
    OBVIOUS
  <2>3. WriteUnit(val, yes, call.phases)
    BY <1>7, <2>1, <2>2 DEF DoCopy
  <2>4. CanWrite(file)
    <3>1. f.append /\ f.writing => f.pos >= f.size
      BY <1>4, <1>5 DEF RecordKeeps
    <3>2. f.writing /\ f.pos < f.size
      BY <1>1, <1>3
    <3>3. ~f.append
      BY <1>5, <3>1, <3>2
    <3> QED BY <1>3, <3>2, <3>3 DEF CanWrite
  <2>5. FitsNext(file, call.phases)
    <3> SUFFICES ASSUME NEW f2, f2.open, f2.writing, f2.pos = file.pos + 1, f2.size = file.size,
                        f2.inl = file.inl, f2.append = file.append
                 PROVE  Shaped(f2, call.phases)
      BY DEF FitsNext
    <3>1. f2.pos = f.pos + 1 /\ f2.size = f.size /\ f.pos < f.size /\ f.writing
      BY <1>1, <1>3
    <3>2. FinalSize(f2) = FinalSize(f) /\ f2.inl = f.inl
      BY <1>3, <1>5, <3>1 DEF FinalSize, Longer
    <3> QED BY <1>1, <1>4, <3>2, FlushesOn
  <2> QED BY <1>1, <2>3, <2>4, <2>5, WriteUnitKeeps
<1> QED BY <1>6, <1>7

(* lfs_file_sync(): no room in the directory for the file itself.          *)
LEMMA StoreOutlinesKeeps == ASSUME Inv, StoreOutlines PROVE Inv'
<1>1. /\ call # NoCall /\ Head(call.phases).do = "Store" /\ file.inl
      /\ Careful => file.pos = file.size
      /\ Outline(<<Flush(file.pos)>> \o call.phases)
  BY DEF StoreOutlines, Busy, First
<1>2. Careful /\ file \in OpenFiles /\ Shaped(file, call.phases)
  BY <1>1, AtWork
<1>3. file.pos = file.size /\ file.pos \in Nat
  BY <1>1, <1>2 DEF OpenFiles
<1>4. ~file.writing /\ call.phases \in {<<Store>>, <<Store, Leave>>}
  <2>1. ~file.writing /\ (call.phases = <<Store>> \/ call.phases = <<Store, Leave>>)
    BY <1>1, <1>2, StoreNext
  <2> QED BY <2>1
<1>5. CanWrite(file)
  BY <1>3 DEF CanWrite
<1>6. PICK a, b, c : a = Flush(file.pos) /\ b = Store /\ c = Leave
  OBVIOUS
<1>7. PICK all : all = <<a>> \o call.phases
  OBVIOUS
<1>8. all # <<>> /\ Head(all) = a /\ Tail(all) = call.phases /\ Tail(all) # <<>>
  <2>1. CASE call.phases = <<Store>>
    <3>1. call.phases = <<b>>
      BY <1>6, <2>1
    <3>2. all = <<a, b>>
      BY <1>7, <3>1, TwoJoined
    <3> QED BY <3>1, <3>2, HeadOfList
  <2>2. CASE call.phases = <<Store, Leave>>
    <3>1. call.phases = <<b, c>>
      BY <1>6, <2>2
    <3>2. all = <<a, b, c>>
      BY <1>7, <3>1, ThreeJoined
    <3> QED BY <3>1, <3>2, HeadOfList
  <2> QED BY <1>4, <2>1, <2>2
<1>9. Outline(all)
  BY <1>1, <1>6, <1>7
<1>10. FitsHere(file, all)
  <2> SUFFICES ASSUME NEW f2, f2.open, f2.writing, f2.pos = file.pos, f2.size = file.size, ~f2.inl,
                      f2.append = file.append
               PROVE  Shaped(f2, all) /\ (f2.pos = 0 => Starts(all, f2))
    BY DEF FitsHere
  <2>1. Settled(call.phases, FinalSize(f2), f2.inl)
    BY <1>4 DEF Settled
  <2>2. PICK back \in Nat : back = file.pos
    BY <1>3
  <2>3. Head(all) = Flush(back) /\ Tail(all) # <<>> /\ Settled(Tail(all), FinalSize(f2), f2.inl)
    BY <1>6, <1>8, <2>1, <2>2
  <2>4. Shaped(f2, all)
    BY <2>3, FlushFirst
  <2>5. Head(all).do = "Flush"
    BY <2>3 DEF Flush
  <2> QED BY <1>3, <2>4, <2>5 DEF Starts
<1> QED BY <1>1, <1>5, <1>8, <1>9, <1>10, OutlineKeeps

-----------------------------------------------------------------------------
(* The units of a file behind so many blocks.                              *)
Rest(size, i) == size - BlockSize * i

(* Multiples are in order.                                                 *)
LEMMA MultiplesGrow ==
    ASSUME NEW m \in Nat, NEW i \in Nat, NEW n \in Nat
    PROVE  /\ m * i \in Nat
           /\ i <= n => m * i <= m * n
           /\ i < n => m * i + m <= m * n
<1>1. m * i \in Nat
  OBVIOUS
<1>2. ASSUME i <= n PROVE m * i <= m * n
  <2>1. PICK d \in Nat : n = i + d
    <3>1. n = i + (n - i) /\ n - i \in Nat
      BY <1>2
    <3> QED BY <3>1
  <2>2. m * n = m * i + m * d /\ m * d \in Nat
    BY <2>1
  <2> QED BY <1>1, <2>2
<1>3. ASSUME i < n PROVE m * i + m <= m * n
  <2>1. PICK d \in Nat : n = i + 1 + d
    <3>1. n = i + 1 + (n - i - 1) /\ n - i - 1 \in Nat
      BY <1>3
    <3> QED BY <3>1
  <2>2. m * n = m * i + m + m * d /\ m * d \in Nat
    BY <2>1
  <2> QED BY <1>1, <2>2
<1> QED BY <1>1, <1>2, <1>3

(* All blocks of a file but the last are full.                             *)
LEMMA ShareIs ==
    ASSUME NEW size \in Nat, InlineMax < size, NEW n \in Nat, n = Index(size - 1), NEW i \in 0..n
    PROVE  /\ Share(size, i) \in Nat /\ Share(size, i) <= BlockSize
           /\ i < n => Share(size, i) = BlockSize
           /\ i = n => Share(size, i) = Rest(size, n)
<1>1. PICK B \in Nat \ {0} : B = BlockSize
  BY BlockSizeAssumption
<1>2. PICK p \in Nat : p = size - 1
  BY InlineAssumption, BlockSizeAssumption
<1>3. PICK bn \in Nat, bi \in Nat : bn = B * n /\ bi = B * i /\ bi <= bn /\ (i < n => bi + B <= bn)
  BY MultiplesGrow
<1>4. bn <= size - 1 /\ size - 1 < bn + B
  <2>1. p = BlockSize * Index(p) + (p % BlockSize) /\ p % BlockSize \in 0..BlockSize - 1
    BY IndexIs
  <2>2. p = bn + (p % B) /\ p % B \in 0..B - 1
    BY <1>1, <1>2, <1>3, <2>1
  <2>3. PICK o \in 0..B - 1 : p = bn + o
    BY <2>2
  <2> QED BY <1>2, <2>3
<1>5. PICK rest \in Nat \ {0} : rest = size - bi
  BY <1>3, <1>4
<1>6. rest = Rest(size, i)
  BY <1>1, <1>3, <1>5 DEF Rest
<1>7. (i < n => rest >= B) /\ (i = n => rest <= B)
  <2>1. i = n => bi = bn
    BY <1>3
  <2> QED BY <1>3, <1>4, <1>5, <2>1
<1>8. PICK S : S = {B, rest} /\ S \in SUBSET Nat /\ S # {}
  BY <1>1
<1>9. PICK m : m = Min(S) /\ m \in S /\ \A x \in S : m <= x
  BY <1>8, MinIsLeast
<1>10. m = Share(size, i)
  BY <1>1, <1>6, <1>8, <1>9 DEF Share, Rest
<1>11. m \in Nat /\ m <= B /\ (i < n => m = B) /\ (i = n => m = rest)
  BY <1>7, <1>8, <1>9
<1> QED BY <1>1, <1>6, <1>10, <1>11

(* The blocks that a file takes are blocks, and hold what lists hold.      *)
LEMMA LaidBlockIs ==
    ASSUME NEW h \in Nat, NEW size \in Nat, NEW at \in Nat, InlineMax < size,
           NEW n \in Nat, n = Index(size - 1), at + n < BlockCount, NEW i \in 0..n
    PROVE  /\ LaidBlock(h, size, at, i) \in [heads : Seq(Blocks), data : Seq(Int)]
           /\ Len(LaidBlock(h, size, at, i).data) = Share(size, i)
<1>1. PICK m \in Nat : m = Share(size, i)
  BY ShareIs
<1>2. PICK d : d = [j \in 1..m |-> ByteAt(h, i, j)]
  OBVIOUS
<1>3. \A j \in 1..m : ByteAt(h, i, j) \in Int
  <2>1. PICK bi \in Nat : bi = BlockSize * i
    BY BlockSizeAssumption, MultiplesGrow
  <2> QED BY <2>1 DEF ByteAt
<1>4. d \in Seq(Int) /\ Len(d) = m
  BY <1>2, <1>3
<1>5. PICK w : w = IF i = 0 THEN <<>> ELSE [j \in 1..Ctz(i) + 1 |-> at + i - Pow2[j - 1]]
  OBVIOUS
<1>6. LaidBlock(h, size, at, i) = [heads |-> w, data |-> d]
  BY <1>1, <1>2, <1>5 DEF LaidBlock
<1>7. w \in Seq(Blocks)
  <2>1. CASE i = 0
    BY <1>5, <2>1
  <2>2. CASE i # 0
    <3>1. PICK z \in Nat : z = Ctz(i) /\ \A k \in 0..z : Pow2[k] \in 1..i
      <4>1. i \in Nat \ {0}
        BY <2>2
      <4>2. Ctz(i) \in 0..i /\ \A k \in 0..Ctz(i) : Pow2[k] <= i
        BY <4>1, CtzIs
      <4>3. \A k \in 0..Ctz(i) : Pow2[k] \in Nat \ {0}
        BY <4>2, Pow2Is
      <4> QED BY <4>2, <4>3
    <3>2. w = [j \in 1..z + 1 |-> at + i - Pow2[j - 1]]
      BY <1>5, <2>2, <3>1
    <3>3. ASSUME NEW j \in 1..z + 1 PROVE at + i - Pow2[j - 1] \in Blocks
      <4>1. PICK k \in 0..z : k = j - 1
        OBVIOUS
      <4>2. Pow2[k] \in 1..i
        BY <3>1
      <4> QED BY <4>1, <4>2, BlockCountAssumption DEF Blocks
    <3> QED BY <3>2, <3>3
  <2> QED BY <2>1, <2>2
<1> QED BY <1>1, <1>4, <1>6, <1>7

(* Its size alone.                                                         *)
LEMMA LaidBlockSize ==
    ASSUME NEW h \in Nat, NEW size \in Nat, NEW at \in Nat, InlineMax < size,
           NEW n \in Nat, n = Index(size - 1), at + n < BlockCount, NEW i \in 0..n
    PROVE  Len(LaidBlock(h, size, at, i).data) = Share(size, i)
BY LaidBlockIs

(* They are a list of the size of the file.                                *)
LEMMA LaidList ==
    ASSUME NEW fl, NEW h \in Nat, NEW size \in Nat, NEW at \in Nat, InlineMax < size,
           NEW n \in Nat, n = Index(size - 1), at + n < BlockCount,
           \A i \in 0..n : fl[at + i] = LaidBlock(h, size, at, i)
    PROVE  HasList(fl, at + n, size)
<1>1. size > 0
  BY InlineAssumption, BlockSizeAssumption
<1>2. PICK c : c = [i \in 0..n |-> at + i]
  OBVIOUS
<1>3. c \in [0..n -> Blocks] /\ at + n \in Blocks /\ c[n] = at + n
  BY <1>2, BlockCountAssumption DEF Blocks
<1>4. ASSUME NEW i \in 0..n
      PROVE  fl[c[i]].heads = IF i = 0 THEN <<>> ELSE [k \in 1..Ctz(i) + 1 |-> c[i - Pow2[k - 1]]]
  <2>1. fl[c[i]] = LaidBlock(h, size, at, i)
    BY <1>2
  <2>2. CASE i = 0
    BY <2>1, <2>2 DEF LaidBlock
  <2>3. CASE i # 0
    <3>1. PICK z \in Nat : z = Ctz(i) /\ \A k \in 0..z : Pow2[k] \in 1..i
      <4>1. i \in Nat \ {0}
        BY <2>3
      <4>2. Ctz(i) \in 0..i /\ \A k \in 0..Ctz(i) : Pow2[k] <= i
        BY <4>1, CtzIs
      <4>3. \A k \in 0..Ctz(i) : Pow2[k] \in Nat \ {0}
        BY <4>2, Pow2Is
      <4> QED BY <4>2, <4>3
    <3>2. ASSUME NEW j \in 1..z + 1 PROVE at + i - Pow2[j - 1] = c[i - Pow2[j - 1]]
      <4>1. PICK k \in 0..z : k = j - 1
        OBVIOUS
      <4>2. PICK p \in 1..i : p = Pow2[k]
        BY <3>1
      <4>3. i - p \in 0..n
        OBVIOUS
      <4>4. c[i - p] = at + (i - p)
        BY <1>2, <4>3
      <4> QED BY <4>1, <4>2, <4>4
    <3>3. [j \in 1..z + 1 |-> at + i - Pow2[j - 1]] = [k \in 1..z + 1 |-> c[i - Pow2[k - 1]]]
      BY <3>2
    <3>4. fl[c[i]].heads = [j \in 1..z + 1 |-> at + i - Pow2[j - 1]]
      BY <2>1, <2>3, <3>1 DEF LaidBlock
    <3> QED BY <2>3, <3>1, <3>3, <3>4
  <2> QED BY <2>2, <2>3
<1>5. IsList(fl, c, n)
  BY <1>3, <1>4 DEF IsList
<1>6. IsFull(fl, c, size)
  <2>1. ASSUME NEW i \in 0..n - 1 PROVE Len(fl[c[i]].data) = BlockSize
    <3>1. i \in 0..n /\ i < n
      OBVIOUS
    <3>2. fl[c[i]] = LaidBlock(h, size, at, i)
      BY <1>2, <3>1
    <3>3. Len(LaidBlock(h, size, at, i).data) = Share(size, i)
      BY <3>1, LaidBlockIs
    <3>4. Share(size, i) = BlockSize
      BY <3>1, ShareIs
    <3> QED BY <3>2, <3>3, <3>4
  <2>6. PICK k \in 0..n : k = n
    OBVIOUS
  <2>2. fl[c[k]] = LaidBlock(h, size, at, k)
    BY <1>2
  <2>3. Len(fl[c[n]].data) = Rest(size, n)
    <3>0. ASSUME NEW i \in 0..n PROVE Len(LaidBlock(h, size, at, i).data) = Share(size, i)
      BY <3>0, LaidBlockSize
    <3>1. Len(LaidBlock(h, size, at, k).data) = Share(size, k)
      BY <3>0
    <3>2. Share(size, k) = Rest(size, n)
      BY <2>6, ShareIs
    <3> QED BY <2>2, <2>6, <3>1, <3>2
  <2>4. Rest(size, n) \in Int
    BY BlockSizeAssumption DEF Rest
  <2>5. Len(fl[c[n]].data) >= Rest(size, n)
    BY <2>3, <2>4
  <2> QED BY <2>1, <2>5 DEF IsFull, Rest
<1>7. ListOf(fl, c, at + n, size)
  BY <1>3, <1>5, <1>6 DEF ListOf
<1> QED BY <1>3, <1>7 DEF HasList

(* The blocks of a file are those from where it begins.                    *)
Span(at, size) == at..at + BlocksOf(size) - 1

(* The blocks a file is laid out in.                                       *)
LEMMA LaidBlocksAre ==
    ASSUME NEW h \in Nat, NEW size \in Nat, NEW at \in Nat
    PROVE  /\ BlocksOf(size) \in Nat /\ DOMAIN LaidBlocks(h, size, at) = Span(at, size)
           /\ \A b \in Span(at, size) :
                /\ InlineMax < size /\ Index(size - 1) \in Nat /\ b - at \in 0..Index(size - 1)
                /\ LaidBlocks(h, size, at)[b] = LaidBlock(h, size, at, b - at)
           /\ InlineMax < size => Index(size - 1) \in Nat /\ BlocksOf(size) = Index(size - 1) + 1
<1>1. PICK m : m = BlocksOf(size)
  OBVIOUS
<1>2. LaidBlocks(h, size, at) = [b \in Span(at, size) |-> LaidBlock(h, size, at, b - at)]
  BY DEF LaidBlocks, Span
<1>3. CASE size <= InlineMax
  <2>1. m = 0
    BY <1>1, <1>3 DEF BlocksOf
  <2>2. Span(at, size) = {}
    BY <1>1, <2>1 DEF Span
  <2>3. ~(InlineMax < size)
    BY <1>3, InlineAssumption, BlockSizeAssumption
  <2> QED BY <1>1, <1>2, <2>1, <2>2, <2>3
<1>4. CASE ~(size <= InlineMax)
  <2>1. InlineMax < size /\ size - 1 \in Nat
    BY <1>4, InlineAssumption, BlockSizeAssumption
  <2>2. PICK n \in Nat : n = Index(size - 1)
    BY <2>1, IndexIs
  <2>3. m = n + 1
    BY <1>1, <1>4, <2>2 DEF BlocksOf
  <2>4. Span(at, size) = at..at + n
    <3>1. at + m - 1 = at + n
      BY <2>2, <2>3
    <3> QED BY <1>1, <3>1 DEF Span
  <2>5. \A b \in at..at + n : b - at \in 0..n
    BY <2>2
  <2> QED BY <1>1, <1>2, <2>1, <2>2, <2>3, <2>4, <2>5
<1> QED BY <1>3, <1>4

(* Those of two files are not the same.                                    *)
LEMMA OwnerIs ==
    ASSUME NEW l \in Layouts, NEW h \in Handles, NEW b \in DOMAIN Of(l, h)
    PROVE  Owner(l, b) = h
<1>1. PICK k : k = Owner(l, b) /\ k \in Handles /\ b \in DOMAIN Of(l, k)
  BY DEF Owner
<1> SUFFICES ASSUME h # k PROVE FALSE
  BY <1>1
<1>2. h \in Nat /\ k \in Nat
  BY <1>1, HandlesAssumption
<1>3. PICK sh \in Nat, ah \in Nat : sh = l[h].size /\ ah = l[h].at
  BY LayoutsAssumption
<1>4. PICK sk \in Nat, ak \in Nat : sk = l[k].size /\ ak = l[k].at
  BY <1>1, LayoutsAssumption
<1>5. ah + BlocksOf(sh) <= ak \/ ak + BlocksOf(sk) <= ah
  BY <1>1, <1>3, <1>4, LayoutsAssumption
<1>6. BlocksOf(sh) \in Nat /\ b \in Span(ah, sh)
  BY <1>2, <1>3, LaidBlocksAre DEF Of
<1>7. BlocksOf(sk) \in Nat /\ b \in Span(ak, sk)
  BY <1>1, <1>2, <1>4, LaidBlocksAre, ZenonT(40) DEF Of
<1> QED BY <1>5, <1>6, <1>7 DEF Span

(* At first the device holds the lists of the entries.                     *)
LEMMA LaidFlashIs ==
    ASSUME NEW l \in Layouts, NEW h \in Handles, NEW size \in Nat, NEW at \in Nat,
           size = l[h].size, at = l[h].at
    PROVE  /\ h \in Nat /\ BlocksOf(size) \in Nat /\ at + BlocksOf(size) <= BlockCount
           /\ \A b \in Span(at, size) :
                /\ b \in Blocks /\ LaidFlash(l)[b] = LaidBlock(h, size, at, b - at)
<1>1. h \in Nat
  BY HandlesAssumption
<1>2. PICK n : n = BlocksOf(size)
  OBVIOUS
<1>3. n \in Nat
  BY <1>1, <1>2, LaidBlocksAre
<1>4. at + n <= BlockCount
  BY <1>2, LayoutsAssumption
<1>5. ASSUME NEW b \in Span(at, size)
      PROVE  b \in Blocks /\ LaidFlash(l)[b] = LaidBlock(h, size, at, b - at)
  <2>1. b \in Blocks
    <3>1. b \in at..at + n - 1
      BY <1>2, <1>5 DEF Span
    <3> QED BY <1>3, <1>4, <3>1, BlockCountAssumption DEF Blocks
  <2>2. b \in DOMAIN Of(l, h) /\ Of(l, h)[b] = LaidBlock(h, size, at, b - at)
    <3>1. b \in Span(at, size)
      BY <1>2, <1>5
    <3>2. DOMAIN LaidBlocks(h, size, at) = Span(at, size)
      BY <1>1, LaidBlocksAre
    <3>3. LaidBlocks(h, size, at)[b] = LaidBlock(h, size, at, b - at)
      BY <3>1 DEF LaidBlocks, Span
    <3> QED BY <3>1, <3>2, <3>3 DEF Of
  <2>3. Owner(l, b) = h
    BY <2>2, OwnerIs
  <2>4. LaidFlash(l)[b] = Of(l, Owner(l, b))[b]
    BY <2>1, <2>2 DEF LaidFlash
  <2> QED BY <2>1, <2>2, <2>3, <2>4
<1> QED BY <1>1, <1>2, <1>3, <1>4, <1>5

(* A flash on which files are laid out is one.                             *)
LEMMA LaidFlashType == ASSUME NEW l \in Layouts PROVE FlashType(LaidFlash(l))
<1>1. ASSUME NEW b \in Blocks
      PROVE  LaidFlash(l)[b] \in [heads : Seq(Blocks), data : Seq(Int)] /\ Len(LaidFlash(l)[b].data) <= BlockSize
  <2>1. CASE \E h \in Handles : b \in DOMAIN Of(l, h)
    <3>1. PICK h \in Handles : b \in DOMAIN Of(l, h)
      BY <2>1
    <3>2. PICK size \in Nat, at \in Nat : size = l[h].size /\ at = l[h].at
      BY LayoutsAssumption
    <3>3. h \in Nat /\ BlocksOf(size) \in Nat /\ at + BlocksOf(size) <= BlockCount
      BY <3>2, LaidFlashIs
    <3>4. b \in Span(at, size)
      BY <3>1, <3>2, <3>3, LaidBlocksAre DEF Of
    <3>5. LaidFlash(l)[b] = LaidBlock(h, size, at, b - at)
      BY <3>2, <3>4, LaidFlashIs
    <3>6. PICK n \in Nat : n = Index(size - 1) /\ InlineMax < size /\ BlocksOf(size) = n + 1
      BY <3>3, <3>4, LaidBlocksAre
    <3>7. PICK i \in 0..n : i = b - at
      BY <3>3, <3>4, <3>6, LaidBlocksAre
    <3>8. at + n < BlockCount
      BY <3>3, <3>6, BlockCountAssumption
    <3>9. /\ LaidBlock(h, size, at, i) \in [heads : Seq(Blocks), data : Seq(Int)]
          /\ Len(LaidBlock(h, size, at, i).data) = Share(size, i)
      <4>1. ASSUME NEW k \in 0..n
            PROVE  LaidBlock(h, size, at, k) \in [heads : Seq(Blocks), data : Seq(Int)]
        BY <3>3, <3>6, <3>8, <4>1, LaidBlockIs
      <4>2. ASSUME NEW k \in 0..n PROVE Len(LaidBlock(h, size, at, k).data) = Share(size, k)
        BY <3>3, <3>6, <3>8, <4>2, LaidBlockSize
      <4> QED BY <4>1, <4>2
    <3>10. Share(size, i) <= BlockSize
      BY <3>6, ShareIs
    <3> QED BY <3>5, <3>7, <3>9, <3>10
  <2>2. CASE ~\E h \in Handles : b \in DOMAIN Of(l, h)
    <3>1. LaidFlash(l)[b] = Erased
      BY <2>2 DEF LaidFlash
    <3>2. PICK fl : FlashType(fl) /\ fl = [x \in Blocks |-> Erased]
      <4>1. PICK fl : fl = [x \in Blocks |-> Erased]
        OBVIOUS
      <4>2. Erased \in [heads : Seq(Blocks), data : Seq(Int)] /\ Len(Erased.data) = 0
        BY DEF Erased
      <4> QED BY <4>1, <4>2, BlockSizeAssumption DEF FlashType
    <3>3. fl[b] = Erased
      BY <3>2
    <3> QED BY <3>1, <3>2, <3>3 DEF FlashType
  <2> QED BY <2>1, <2>2
<1>2. PICK fl : fl = LaidFlash(l)
  OBVIOUS
<1>3. fl = [b \in Blocks |-> fl[b]]
  BY <1>2 DEF LaidFlash
<1>4. fl \in [Blocks -> [heads : Seq(Blocks), data : Seq(Int)]]
  BY <1>1, <1>2, <1>3
<1> QED BY <1>1, <1>2, <1>4 DEF FlashType

(* The entry of a file that is laid out leads to its bytes.                *)
LEMMA LaidEntryIs ==
    ASSUME NEW l \in Layouts, NEW h \in Handles, NEW size \in Nat, NEW at \in Nat,
           size = l[h].size, at = l[h].at, NEW fl, fl = LaidFlash(l),
           NEW e, e = LaidEntry(h, size, at)
    PROVE  e \in Entries /\ EntryKeeps(fl, e)
<1>1. h \in Nat /\ BlocksOf(size) \in Nat /\ at + BlocksOf(size) <= BlockCount
  BY LaidFlashIs
<1>2. PICK no : no = <<>> /\ no \in Seq(Int)
  <2>1. <<>> \in Seq(Int)
    OBVIOUS
  <2> QED BY <2>1, Zenon
<1>3. CASE size <= InlineMax
  <2>1. PICK s : s = [i \in 1..size |-> 10 * (h + 1) + i]
    OBVIOUS
  <2>2. s \in Seq(Int) /\ Len(s) = size
    <3>1. \A i \in 1..size : 10 * (h + 1) + i \in Int
      BY <1>1
    <3> QED BY <2>1, <3>1
  <2>3. PICK yes \in BOOLEAN : yes = TRUE
    OBVIOUS
  <2>4. e = [inl |-> yes, head |-> Inline, size |-> size, bytes |-> s]
    BY <1>3, <2>1, <2>3 DEF LaidEntry
  <2>5. e \in Entries
    BY <2>2, <2>4 DEF Entries
  <2> QED BY <1>3, <2>2, <2>3, <2>4, <2>5 DEF EntryKeeps
<1>4. CASE ~(size <= InlineMax)
  <2>1. InlineMax < size
    BY <1>4, InlineAssumption, BlockSizeAssumption
  <2>2. PICK n \in Nat : n = Index(size - 1) /\ BlocksOf(size) = n + 1
    BY <1>1, <2>1, LaidBlocksAre
  <2>3. at + n < BlockCount
    BY <1>1, <2>2, BlockCountAssumption
  <2>4. ASSUME NEW i \in 0..n PROVE fl[at + i] = LaidBlock(h, size, at, i)
    <3>1. PICK b : b = at + i
      OBVIOUS
    <3>2. b \in Span(at, size) /\ b - at = i
      <4>1. b \in at..at + n /\ b - at = i
        BY <3>1
      <4>2. at + BlocksOf(size) - 1 = at + n
        BY <2>2
      <4> QED BY <4>1, <4>2 DEF Span
    <3>3. fl[b] = LaidBlock(h, size, at, b - at)
      BY <3>2, LaidFlashIs
    <3> QED BY <3>1, <3>2, <3>3
  <2>5. HasList(fl, at + n, size)
    <3>1. h \in Nat /\ n = Index(size - 1)
      BY <1>1, <2>2
    <3> QED BY <2>1, <2>3, <2>4, <3>1, LaidList
  <2>6. PICK head \in Blocks : head = at + n
    BY <2>5 DEF HasList
  <2>7. PICK none \in BOOLEAN : none = FALSE
    OBVIOUS
  <2>8. e = [inl |-> none, head |-> head, size |-> size, bytes |-> no]
    <3>1. at + BlocksOf(size) - 1 = head
      BY <2>2, <2>6
    <3> QED BY <1>2, <1>4, <2>7, <3>1 DEF LaidEntry
  <2>9. e \in Entries
    BY <1>2, <2>8 DEF Entries
  <2> QED BY <2>5, <2>6, <2>7, <2>8, <2>9 DEF EntryKeeps
<1> QED BY <1>3, <1>4

(* At first no file is open, and the window is empty.                      *)
LEMMA InitKeeps == ASSUME Careful, Init PROVE Inv
<1>1. PICK l \in Layouts :
          entry = [h \in Handles |-> LaidEntry(h, l[h].size, l[h].at)] /\ flash = LaidFlash(l)
  BY DEF Init
<1>2. /\ files = [h \in Handles |-> Closed] /\ free = Fresh(0) /\ call = NoCall
      /\ missed = FALSE /\ ops = 0
  BY DEF Init
<1>5. FlashType(flash)
  BY <1>1, LaidFlashType
<1>6. ASSUME NEW h \in Handles PROVE entry[h] \in Entries /\ EntryKeeps(flash, entry[h])
  <2>1. PICK size \in Nat, at \in Nat : size = l[h].size /\ at = l[h].at
    BY LayoutsAssumption
  <2>2. PICK e, fl : e = LaidEntry(h, size, at) /\ fl = LaidFlash(l)
    OBVIOUS
  <2>3. e \in Entries /\ EntryKeeps(fl, e)
    BY <2>1, <2>2, LaidEntryIs
  <2> QED BY <1>1, <2>1, <2>2, <2>3
<1>7. WindowType(Fresh(0)) /\ Eager(Fresh(0)) /\ Vacants(Fresh(0)) = {}
  <2>1. Fresh(0) \in Windows
    BY BlockCountAssumption DEF Fresh, Windows
  <2> QED BY <2>1, BlockCountAssumption DEF Fresh, WindowType, Eager, Vacants
<1>8. PICK fs : fs = [h \in Handles |-> Closed]
  OBVIOUS
<1>9. \A h \in Handles : fs[h] = Closed /\ ~fs[h].open
  BY <1>8 DEF Closed
<1>10. World(flash, entry, fs, Fresh(0))
  <2>1. fs \in [Handles -> FileSet] /\ entry \in [Handles -> Entries]
    BY <1>1, <1>6, <1>8 DEF FileSet
  <2>2. ASSUME NEW h \in Handles PROVE Keeps(flash, entry[h], fs[h])
    <3>1. entry[h] \in Entries /\ EntryKeeps(flash, entry[h]) /\ fs[h] \in FileSet /\ ~fs[h].open
      BY <1>6, <1>9, <2>1
    <3> QED BY <3>1 DEF Keeps, HeadKeeps, TailKeeps, RecordKeeps, Clean, Writes
  <2>3. Alone(flash, entry, fs)
    BY <1>9 DEF Alone, Writes
  <2> QED BY <1>5, <1>7, <2>1, <2>2, <2>3 DEF World
<1>11. /\ \A h \in Handles : Outlined(fs[h])
       /\ BlankKeeps(fs, NoCall) /\ CallKeeps(fs, NoCall)
  BY <1>9 DEF Outlined, BlankKeeps, CallKeeps, Writes
<1>12. State(flash, entry, files, free, call, missed, ops)
  BY <1>2, <1>8, <1>10, <1>11 DEF State
<1> QED BY <1>12 DEF Inv

(* Every step keeps the invariant.                                         *)
LEMMA NextKeeps == ASSUME Inv, [Next]_vars PROVE Inv'
<1>1. ASSUME NEW h \in Handles, NEW trunc \in BOOLEAN, Open(h, trunc) PROVE Inv'
  BY <1>1, OpenKeeps
<1>2. ASSUME NEW h \in Handles, NEW n \in Amounts[h], Write(h, n) PROVE Inv'
  <2>1. n \in Nat \ {0}
    BY CallsAssumption
  <2> QED BY <1>2, <2>1, WriteKeeps
<1>3. ASSUME NEW h \in Handles, NEW at \in Places[h], Seek(h, at) \/ Truncate(h, at) PROVE Inv'
  <2>1. at \in Nat
    BY CallsAssumption
  <2> QED BY <1>3, <2>1, SeekKeeps, TruncateKeeps
<1>4. ASSUME NEW h \in Handles, Read(h) \/ Sync(h) \/ Close(h) PROVE Inv'
  BY <1>4, ReadKeeps, SyncKeeps, CloseKeeps
<1>5. ASSUME Step PROVE Inv'
  BY <1>5, DoFillKeeps, DoPutKeeps, DoCopyKeeps, DoFlushKeeps, FlushFailsKeeps, DoGetKeeps,
     DoMoveKeeps, DoCutKeeps, DoStoreKeeps, StoreFailsKeeps, StoreOutlinesKeeps, DoLeaveKeeps DEF Step
<1>6. ASSUME PowerLoss PROVE Inv'
  BY <1>6, PowerLossKeeps
<1>7. ASSUME UNCHANGED vars PROVE Inv'
  BY <1>7 DEF Inv, State, vars
<1> QED BY <1>1, <1>2, <1>3, <1>4, <1>5, <1>6, <1>7 DEF Next

(* No search of all blocks fails while one of them is free, but for the    *)
(* one that LFS_BLOCK_INLINE marks (lfs_alloc_ack, lfs_alloc).             *)
THEOREM FullWhenNoSpace == Careful /\ Spec => []NoSpaceButPhantom
<1>1. Careful /\ Init => Inv
  BY InitKeeps
<1>2. Inv /\ [Next]_vars => Inv'
  BY NextKeeps
<1>3. Inv => NoSpaceButPhantom
  BY DEF Inv, State, NoSpaceButPhantom
<1> QED BY <1>1, <1>2, <1>3, PTL DEF Spec

(* A list is found by its pointers, one by one and two by two.             *)
LEMMA ListAgrees ==
    ASSUME NEW fl, FlashType(fl), NEW size \in Nat \ {0}, NEW head, HasList(fl, head, size),
           NEW chain, chain = Chain(fl, head, size)
    PROVE  /\ \A pos \in 0..size - 1 : Find(fl, head, size, pos) = chain[Index(pos) + 1]
           /\ Traverse(fl, head, size) = ToSet(chain)
<1>1. PICK c : ListOf(fl, c, head, size)
  BY DEF HasList
<1>2. PICK n \in Nat : n = Index(size - 1)
  BY IndexIs
<1>3. IsList(fl, c, Index(size - 1)) /\ c[Index(size - 1)] = head
  BY <1>1 DEF ListOf
<1>4. chain = [i \in 1..n + 1 |-> c[i - 1]]
  <2>1. chain = Chain(fl, c[n], size)
    BY <1>2, <1>3
  <2> QED BY <1>2, <1>3, <2>1, ChainIs
<1>5. ASSUME NEW pos \in 0..size - 1 PROVE Find(fl, head, size, pos) = chain[Index(pos) + 1]
  <2>1. pos \in Nat /\ size - 1 \in Nat /\ pos <= size - 1
    OBVIOUS
  <2>2. PICK k \in Nat : k = Index(pos) /\ k <= n
    BY <1>2, <2>1, IndexIs, IndexGrows
  <2>3. Find(fl, head, size, pos) = c[k]
    <3>1. Index(pos) <= Index(size - 1)
      BY <1>2, <2>2
    <3>2. Find(fl, c[Index(size - 1)], size, pos) = c[Index(pos)]
      BY <1>3, <2>1, <3>1, FindIs
    <3> QED BY <1>3, <2>2, <3>2
  <2>4. chain[k + 1] = c[k]
    <3>1. k + 1 \in 1..n + 1 /\ (k + 1) - 1 = k
      BY <2>2
    <3> QED BY <1>4, <3>1
  <2> QED BY <2>2, <2>3, <2>4
<1>6. Traverse(fl, head, size) = ToSet(chain)
  <2>1. Traverse(fl, head, size) = {c[i] : i \in 0..n}
    BY <1>1, <1>2, ListIs
  <2>2. DOMAIN chain = 1..n + 1
    BY <1>4
  <2>3. ToSet(chain) = {chain[i] : i \in 1..n + 1}
    BY <2>2 DEF ToSet
  <2>4. ASSUME NEW i \in 0..n PROVE c[i] \in {chain[j] : j \in 1..n + 1}
    <3>1. i + 1 \in 1..n + 1 /\ (i + 1) - 1 = i
      OBVIOUS
    <3>2. chain[i + 1] = c[i]
      BY <1>4, <3>1
    <3> QED BY <3>1, <3>2
  <2>5. ASSUME NEW j \in 1..n + 1 PROVE chain[j] \in {c[i] : i \in 0..n}
    <3>1. j - 1 \in 0..n
      OBVIOUS
    <3>2. chain[j] = c[j - 1]
      BY <1>4
    <3> QED BY <3>1, <3>2
  <2> QED BY <2>1, <2>3, <2>4, <2>5
<1> QED BY <1>5, <1>6

(* The skip pointers of every file lead to the block that is found one by  *)
(* one, and the traversal by twos meets every block of it                  *)
(* (lfs_ctz_extend, lfs_ctz_find, lfs_ctz_traverse, lfs_ctz_index).        *)
THEOREM PointersLeadThere == Careful /\ Spec => []PointersAgree
<1>1. Careful /\ Init => Inv
  BY InitKeeps
<1>2. Inv /\ [Next]_vars => Inv'
  BY NextKeeps
<1>3. Inv => PointersAgree
  <2> SUFFICES ASSUME Inv PROVE PointersAgree
    OBVIOUS
  <2>1. World(flash, entry, files, free)
    BY DEF Inv, State
  <2>2. ASSUME NEW l \in Lists, l[2] > 0
        PROVE  l[2] \in Nat \ {0} /\ HasList(flash, l[1], l[2])
    <3>1. CASE l \in {<<entry[h].head, entry[h].size>> : h \in {h \in Handles : ~entry[h].inl}}
      <4>1. PICK h \in Handles : ~entry[h].inl /\ l = <<entry[h].head, entry[h].size>>
        BY <3>1
      <4>2. Keeps(flash, entry[h], files[h])
        BY <2>1 DEF World
      <4>3. entry[h].size \in Nat /\ HasList(flash, entry[h].head, entry[h].size)
        BY <4>1, <4>2 DEF Keeps, EntryKeeps, Entries
      <4> QED BY <2>2, <4>1, <4>3
    <3>2. CASE l \in {<<files[h].head, files[h].size>> :
                        h \in {h \in Handles : files[h].open /\ ~files[h].inl /\ files[h].head # Inline}}
      <4>1. PICK h \in Handles : /\ files[h].open /\ files[h].head # Inline
                                 /\ l = <<files[h].head, files[h].size>>
        BY <3>2
      <4>2. Keeps(flash, entry[h], files[h])
        BY <2>1 DEF World
      <4>3. files[h] \in OpenFiles /\ HasList(flash, files[h].head, files[h].size)
        BY <4>1, <4>2 DEF Keeps, HeadKeeps, FileSet, Closed
      <4>4. files[h].size \in Nat
        BY <4>3 DEF OpenFiles
      <4> QED BY <2>2, <4>1, <4>3, <4>4
    <3> QED BY <3>1, <3>2 DEF Lists
  <2>3. ASSUME NEW l \in Lists, l[2] > 0
        PROVE  LET chain == Chain(flash, l[1], l[2])
               IN  /\ \A pos \in 0..l[2] - 1 : Find(flash, l[1], l[2], pos) = chain[Index(pos) + 1]
                   /\ Traverse(flash, l[1], l[2]) = ToSet(chain)
    <3>1. PICK size, head : size \in Nat \ {0} /\ size = l[2] /\ head = l[1] /\ HasList(flash, head, size)
      BY <2>2, <2>3
    <3>2. PICK chain : chain = Chain(flash, head, size)
      OBVIOUS
    <3>3. FlashType(flash)
      BY <2>1 DEF World
    <3>4. /\ \A pos \in 0..size - 1 : Find(flash, head, size, pos) = chain[Index(pos) + 1]
          /\ Traverse(flash, head, size) = ToSet(chain)
      BY <3>1, <3>2, <3>3, ListAgrees
    <3> QED BY <3>1, <3>2, <3>4
  <2> QED BY <2>3, IndexIsThePlace DEF PointersAgree
<1> QED BY <1>1, <1>2, <1>3, PTL DEF Spec
=============================================================================
