--------------------------- MODULE FoldLeftFacts ---------------------------
(***************************************************************************)
(* What FoldLeft computes, for any operator: a module to be instantiated   *)
(* with the operator and, for the theorems of induction, with what is      *)
(* claimed of every number or of every value on the way.                   *)
(***************************************************************************)
EXTENDS Integers, SequencesExt, WellFoundedInduction, TLAPS

CONSTANTS
    Op(_, _),   \* the next value, from the one so far and an element
    Good(_)

Fold(base, seq) == FoldLeft(Op, base, seq)

\* A non-empty set of numbers has a least one.
LEMMA LeastOfNat ==
  ASSUME NEW S, S \subseteq Nat, S # {}
  PROVE  \E x \in S : \A y \in S : x <= y
<1> DEFINE R == OpToRel(<, Nat)
<1>1. PICK x \in S : \A y \in S : ~ (<<y, x>> \in R)
  <2>1. IsWellFoundedOn(R, Nat)
    BY NatLessThanWellFounded
  <2> HIDE DEF R
  <2> QED  BY <2>1, WFMin
<1>2. ASSUME NEW y \in S PROVE x <= y
  <2> SUFFICES ASSUME y < x PROVE FALSE
    OBVIOUS
  <2>1. <<y, x>> \in R
    BY DEF OpToRel
  <2> QED  BY <1>1, <2>1
<1> QED  BY <1>2

\* Induction, on what is claimed.
THEOREM Induction ==
  ASSUME Good(0), \A n \in Nat : Good(n) => Good(n + 1)
  PROVE  \A n \in Nat : Good(n)
<1> DEFINE S == {n \in Nat : ~Good(n)}
<1> SUFFICES ASSUME S # {} PROVE FALSE
  OBVIOUS
<1>1. PICK x \in S : \A y \in S : x <= y
  <2>1. S \subseteq Nat
    OBVIOUS
  <2> HIDE DEF S
  <2> QED  BY <2>1, LeastOfNat
<1>2. x \in Nat /\ x # 0
  OBVIOUS
<1>3. x - 1 \in Nat /\ (x - 1) + 1 = x
  BY <1>2
<1>4. Good(x - 1)
  BY <1>1, <1>3
<1> QED  BY <1>3, <1>4

-----------------------------------------------------------------------------
(* The function FoldLeft is defined by *)

\* f is that function on the sets of positions up to n.
Folds(f, base, seq, n) ==
    f = [s \in SUBSET (1..n) |-> IF s = {} THEN base ELSE Op(f[s \ {Max(s)}], seq[Max(s)])]

TheFold(base, seq, n) == CHOOSE f : Folds(f, base, seq, n)

LEMMA MaxIs ==
  ASSUME NEW n \in Nat, NEW s \in SUBSET (1..n + 1), n + 1 \in s
  PROVE  Max(s) = n + 1
<1>1. n + 1 >= n + 1 /\ \A y \in s : n + 1 >= y
  OBVIOUS
<1>2. \A x \in s : (\A y \in s : x >= y) => x = n + 1
  OBVIOUS
<1> QED  BY <1>1, <1>2 DEF Max

LEMMA MaxIn ==
  ASSUME NEW n \in Nat, NEW s \in SUBSET (1..n), s # {}
  PROVE  Max(s) \in s
<1> DEFINE T == {n - i : i \in s}
<1>1. T \subseteq Nat /\ T # {}
  <2>1. \A i \in s : n - i \in Nat
    OBVIOUS
  <2>2. PICK i \in s : TRUE
    OBVIOUS
  <2> QED  BY <2>1, <2>2
<1>2. PICK x \in T : \A y \in T : x <= y
  <2> HIDE DEF T
  <2> QED  BY <1>1, LeastOfNat
<1>3. PICK m \in s : x = n - m
  OBVIOUS
<1>4. \A j \in s : m >= j
  <2> SUFFICES ASSUME NEW j \in s PROVE m >= j
    OBVIOUS
  <2>1. n - m <= n - j
    BY <1>2, <1>3
  <2>2. m \in Int /\ j \in Int
    OBVIOUS
  <2> HIDE DEF T
  <2> QED  BY <2>1, <2>2
<1> HIDE DEF T
<1> QED  BY <1>4 DEF Max

LEMMA FoldsExist ==
  ASSUME NEW base, NEW seq
  PROVE  \A n \in Nat : \E f : Folds(f, base, seq, n)
<1> DEFINE S == {n \in Nat : ~ \E f : Folds(f, base, seq, n)}
<1> SUFFICES ASSUME S # {} PROVE FALSE
  OBVIOUS
<1>1. PICK x \in S : \A y \in S : x <= y
  <2>1. S \subseteq Nat
    OBVIOUS
  <2> HIDE DEF S
  <2> QED  BY <2>1, LeastOfNat
<1>2. x # 0
  <2> SUFFICES ASSUME x = 0 PROVE FALSE
    OBVIOUS
  <2> DEFINE f == [s \in SUBSET (1..0) |-> base]
  <2>1. SUBSET (1..0) = {{}}
    OBVIOUS
  <2>2. Folds(f, base, seq, 0)
    BY <2>1 DEF Folds
  <2> QED  BY <2>2
<1>3. PICK n \in Nat : x = n + 1
  <2>1. x - 1 \in Nat /\ x = (x - 1) + 1
    BY <1>2
  <2> QED  BY <2>1
<1>4. PICK f : Folds(f, base, seq, n)
  BY <1>1, <1>3
<1> DEFINE g == [s \in SUBSET (1..n + 1) |->
                   IF n + 1 \in s THEN Op(f[s \ {n + 1}], seq[n + 1]) ELSE f[s]]
           Next(s) == IF s = {} THEN base ELSE Op(g[s \ {Max(s)}], seq[Max(s)])
<1>5. \A s \in SUBSET (1..n + 1) : s \ {n + 1} \in SUBSET (1..n)
  OBVIOUS
<1>6. \A s \in SUBSET (1..n) : s \in SUBSET (1..n + 1) /\ n + 1 \notin s /\ g[s] = f[s]
  OBVIOUS
<1>7. ASSUME NEW s \in SUBSET (1..n + 1) PROVE g[s] = Next(s)
  <2>1. CASE n + 1 \in s
    <3>1. Max(s) = n + 1
      BY <2>1, MaxIs
    <3>2. g[s] = Op(f[s \ {n + 1}], seq[n + 1])
      BY <2>1
    <3>3. f[s \ {n + 1}] = g[s \ {n + 1}]
      BY <1>5, <1>6
    <3> HIDE DEF g
    <3> QED  BY <2>1, <3>1, <3>2, <3>3
  <2>2. CASE n + 1 \notin s
    <3>1. s \in SUBSET (1..n)
      BY <1>5, <2>2
    <3>2. f[s] = IF s = {} THEN base ELSE Op(f[s \ {Max(s)}], seq[Max(s)])
      BY <1>4, <3>1 DEF Folds
    <3>3. s \ {Max(s)} \in SUBSET (1..n)
      BY <3>1
    <3>4. f[s \ {Max(s)}] = g[s \ {Max(s)}]
      BY <1>6, <3>3
    <3>5. g[s] = f[s]
      BY <1>6, <3>1
    <3> HIDE DEF g
    <3> QED  BY <3>2, <3>4, <3>5
  <2> QED  BY <2>1, <2>2
<1>8. g = [s \in SUBSET (1..n + 1) |-> Next(s)]
  <2>1. [s \in SUBSET (1..n + 1) |-> g[s]] = [s \in SUBSET (1..n + 1) |-> Next(s)]
    <3> HIDE DEF g, Next
    <3> QED  BY <1>7
  <2>2. g = [s \in SUBSET (1..n + 1) |-> g[s]]
    OBVIOUS
  <2> HIDE DEF g, Next
  <2> QED  BY <2>1, <2>2
<1>9. Folds(g, base, seq, n + 1)
  <2> HIDE DEF g
  <2> QED  BY <1>8 DEF Folds
<1> HIDE DEF g
<1> QED  BY <1>3, <1>9

LEMMA TheFoldFolds ==
  ASSUME NEW base, NEW seq, NEW n \in Nat
  PROVE  Folds(TheFold(base, seq, n), base, seq, n)
  BY FoldsExist DEF TheFold

\* FoldLeft is the value of that function at all positions.
LEMMA FoldIs ==
  ASSUME NEW base, NEW seq, NEW n \in Nat, DOMAIN seq = 1..n
  PROVE  Fold(base, seq) = TheFold(base, seq, n)[1..n]
  BY DEF Fold, FoldLeft, MapThenFoldSet, Folds, TheFold

LEMMA FoldsEmpty ==
  ASSUME NEW n \in Nat, NEW base, NEW seq, NEW f, Folds(f, base, seq, n)
  PROVE  1..0 = {} /\ f[1..0] = base
<1>1. 1..0 = {} /\ {} \in SUBSET (1..n)
  OBVIOUS
<1>2. f[{}] = base
  BY <1>1 DEF Folds
<1> QED  BY <1>1, <1>2

LEMMA FoldsNext ==
  ASSUME NEW n \in Nat, NEW base, NEW seq, NEW f, Folds(f, base, seq, n), NEW k \in Nat, k + 1 <= n
  PROVE  f[1..k + 1] = Op(f[1..k], seq[k + 1])
<1> DEFINE all == 1..k + 1
<1>1. all \in SUBSET (1..n) /\ all # {} /\ k + 1 \in all /\ all \in SUBSET (1..k + 1)
  <2>1. \A i \in all : i \in 1..n
    OBVIOUS
  <2> QED  BY <2>1
<1>2. all \ {k + 1} = 1..k
  OBVIOUS
<1> HIDE DEF all
<1>3. Max(all) = k + 1
  BY <1>1, MaxIs
<1>4. f[all] = IF all = {} THEN base ELSE Op(f[all \ {Max(all)}], seq[Max(all)])
  BY <1>1 DEF Folds
<1> QED  BY <1>1, <1>2, <1>3, <1>4 DEF all

Begins(short, seq, m) == \A k \in 1..m : short[k] = seq[k]

\* The values of that function at the positions up to k are those of shorter ones.
LEMMA FoldsAgree ==
  ASSUME NEW base, NEW seq, NEW short, NEW n \in Nat, NEW m \in Nat, m <= n, Begins(short, seq, m),
         NEW f, Folds(f, base, seq, n), NEW g, Folds(g, base, short, m)
  PROVE  f[1..m] = g[1..m]
<1> DEFINE S == {k \in 0..m : f[1..k] # g[1..k]}
<1> SUFFICES ASSUME S # {} PROVE FALSE
  OBVIOUS
<1>1. PICK x \in S : \A y \in S : x <= y
  <2>1. S \subseteq Nat
    OBVIOUS
  <2> HIDE DEF S
  <2> QED  BY <2>1, LeastOfNat
<1>2. x # 0
  BY FoldsEmpty
<1>3. PICK k \in Nat : x = k + 1
  <2>1. x - 1 \in Nat /\ x = (x - 1) + 1
    BY <1>2
  <2> QED  BY <2>1
<1>4. f[1..k] = g[1..k]
  BY <1>1, <1>3
<1>5. k + 1 <= m /\ k + 1 <= n /\ k + 1 \in 1..m
  BY <1>3
<1>6. f[1..k + 1] = Op(f[1..k], seq[k + 1])
  BY <1>5, FoldsNext
<1>7. g[1..k + 1] = Op(g[1..k], short[k + 1])
  BY <1>5, FoldsNext
<1>8. short[k + 1] = seq[k + 1]
  BY <1>5 DEF Begins
<1> QED  BY <1>3, <1>4, <1>6, <1>7, <1>8

-----------------------------------------------------------------------------
(* The facts *)

\* Without elements the result is the base,
THEOREM FoldEmpty ==
  ASSUME NEW base, NEW seq, DOMAIN seq = {}
  PROVE  Fold(base, seq) = base
<1>1. DOMAIN seq = 1..0
  OBVIOUS
<1>2. Fold(base, seq) = TheFold(base, seq, 0)[1..0]
  BY <1>1, FoldIs
<1> QED  BY <1>2, TheFoldFolds, FoldsEmpty

\* with one more element it is a step further,
THEOREM FoldNext ==
  ASSUME NEW n \in Nat, NEW base, NEW seq, DOMAIN seq = 1..n + 1,
         NEW front, DOMAIN front = 1..n, \A k \in 1..n : front[k] = seq[k]
  PROVE  Fold(base, seq) = Op(Fold(base, front), seq[n + 1])
<1> DEFINE f == TheFold(base, seq, n + 1)
           g == TheFold(base, front, n)
<1>1. Folds(f, base, seq, n + 1) /\ Folds(g, base, front, n)
  BY TheFoldFolds
<1>2. Fold(base, seq) = f[1..n + 1] /\ Fold(base, front) = g[1..n]
  BY FoldIs
<1> HIDE DEF f, g
<1>3. f[1..n] = g[1..n]
  <2>1. n + 1 \in Nat /\ n <= n + 1
    OBVIOUS
  <2>2. Begins(front, seq, n)
    BY DEF Begins
  <2> QED  BY <1>1, <2>1, <2>2, FoldsAgree
<1>4. f[1..n + 1] = Op(f[1..n], seq[n + 1])
  BY <1>1, FoldsNext
<1> QED  BY <1>2, <1>3, <1>4

\* and it has whatever the base has and every step keeps.
THEOREM FoldKeeps ==
  ASSUME NEW n \in Nat, NEW base, NEW seq, DOMAIN seq = 1..n,
         Good(base), \A value : \A k \in 1..n : Good(value) => Good(Op(value, seq[k]))
  PROVE  Good(Fold(base, seq))
<1> DEFINE f == TheFold(base, seq, n)
           S == {k \in 0..n : ~Good(f[1..k])}
<1>1. Folds(f, base, seq, n)
  BY TheFoldFolds
<1>2. Fold(base, seq) = f[1..n]
  BY FoldIs
<1> HIDE DEF f
<1> SUFFICES ASSUME S # {} PROVE FALSE
  BY <1>2
<1>3. PICK x \in S : \A y \in S : x <= y
  <2>1. S \subseteq Nat
    OBVIOUS
  <2> HIDE DEF S
  <2> QED  BY <2>1, LeastOfNat
<1>4. x # 0
  BY <1>1, FoldsEmpty
<1>5. PICK k \in Nat : x = k + 1
  <2>1. x - 1 \in Nat /\ x = (x - 1) + 1
    BY <1>4
  <2> QED  BY <2>1
<1>6. Good(f[1..k])
  BY <1>3, <1>5
<1>7. k + 1 <= n /\ k + 1 \in 1..n
  BY <1>5
<1>8. f[1..k + 1] = Op(f[1..k], seq[k + 1])
  BY <1>1, <1>7, FoldsNext
<1> QED  BY <1>5, <1>6, <1>7, <1>8
=============================================================================
