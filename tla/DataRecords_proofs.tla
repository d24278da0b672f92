------------------------- MODULE DataRecords_proofs -------------------------
(***************************************************************************)
(* What a campaign records of its requests: the counts and the sample of   *)
(* latencies, the rows it writes and the file they are exported to.        *)
(***************************************************************************)
EXTENDS DataPath_proofs, FiniteSetTheorems

(* Counting the occurrences of a value *)

Times(values, n, v) == Cardinality({k \in 1..n : values[k] = v})

LEMMA TimesNone ==
  ASSUME NEW values, NEW n \in Nat, NEW v, \A k \in 1..n : values[k] # v
  PROVE  Times(values, n, v) = 0
<1>1. {k \in 1..n : values[k] = v} = {}
  OBVIOUS
<1> QED  BY <1>1, FS_EmptySet DEF Times

LEMMA TimesNext ==
  ASSUME NEW values, NEW n \in Nat, NEW v
  PROVE  /\ Times(values, n, v) \in Nat
         /\ Times(values, n + 1, v) = Times(values, n, v) + (IF values[n + 1] = v THEN 1 ELSE 0)
<1> DEFINE S == {k \in 1..n : values[k] = v}
           T == {k \in 1..n + 1 : values[k] = v}
<1>1. IsFiniteSet(S) /\ n + 1 \notin S
  <2>1. IsFiniteSet(1..n)
    BY FS_Interval
  <2> QED  BY <2>1, FS_Subset
<1>2. T = IF values[n + 1] = v THEN S \cup {n + 1} ELSE S
  <2>1. \A k \in 1..n + 1 : k \in 1..n \/ k = n + 1
    OBVIOUS
  <2>2. \A k \in 1..n : k \in 1..n + 1
    OBVIOUS
  <2>3. n + 1 \in 1..n + 1
    OBVIOUS
  <2> QED  BY <2>1, <2>2, <2>3
<1> HIDE DEF S, T
<1>3. Cardinality(S) \in Nat
  BY <1>1, FS_CardinalityType
<1>4. Cardinality(T) = Cardinality(S) + (IF values[n + 1] = v THEN 1 ELSE 0)
  <2>1. CASE values[n + 1] = v
    BY <1>1, <1>2, <2>1, FS_AddElement
  <2>2. CASE values[n + 1] # v
    BY <1>2, <1>3, <2>2
  <2> QED  BY <2>1, <2>2
<1> QED  BY <1>3, <1>4 DEF Times, S, T

\* The first n elements of both are those of first, the next m those of second.
InARow(both, first, n, second, m) ==
    /\ \A k \in 1..n : both[k] = first[k]
    /\ \A k \in 1..m : both[n + k] = second[k]

\* The occurrences in a sequence and in another one that follows it add up.
TimesAdd(m) ==
    \A n \in Nat : \A first, second, both :
        InARow(both, first, n, second, m)
        => \A v : Times(both, n + m, v) = Times(first, n, v) + Times(second, m, v)

Adding == INSTANCE FoldLeftFacts WITH Op <- WithMatch, Good <- TimesAdd

LEMMA TimesJoined == \A m \in Nat : TimesAdd(m)
<1>1. TimesAdd(0)
  <2> SUFFICES ASSUME NEW n \in Nat, NEW first, NEW second, NEW both,
                      \A k \in 1..n : both[k] = first[k],
                      NEW v
               PROVE  Times(both, n + 0, v) = Times(first, n, v) + Times(second, 0, v)
    BY DEF TimesAdd, InARow
  <2>1. {k \in 1..n : both[k] = v} = {k \in 1..n : first[k] = v}
    OBVIOUS
  <2>2. Times(second, 0, v) = 0
    <3>1. 0 \in Nat /\ \A k \in 1..0 : second[k] # v
      OBVIOUS
    <3> QED  BY <3>1, TimesNone
  <2>3. Times(first, n, v) \in Nat
    BY TimesNext
  <2>4. Times(both, n, v) = Times(first, n, v)
    BY <2>1 DEF Times
  <2>5. n + 0 = n
    OBVIOUS
  <2> QED  BY <2>2, <2>3, <2>4, <2>5
<1>2. ASSUME NEW m \in Nat, TimesAdd(m) PROVE TimesAdd(m + 1)
  <2> SUFFICES ASSUME NEW n \in Nat, NEW first, NEW second, NEW both,
                      \A k \in 1..n : both[k] = first[k],
                      \A k \in 1..m + 1 : both[n + k] = second[k],
                      NEW v
               PROVE  Times(both, n + (m + 1), v) = Times(first, n, v) + Times(second, m + 1, v)
    BY DEF TimesAdd, InARow
  <2>1. InARow(both, first, n, second, m)
    BY DEF InARow
  <2>2. Times(both, n + m, v) = Times(first, n, v) + Times(second, m, v)
    BY <1>2, <2>1 DEF TimesAdd
  <2>3. both[(n + m) + 1] = second[m + 1] /\ n + m \in Nat /\ (n + m) + 1 = n + (m + 1)
    OBVIOUS
  <2>4. /\ Times(both, (n + m) + 1, v)
           = Times(both, n + m, v) + (IF second[m + 1] = v THEN 1 ELSE 0)
        /\ Times(second, m + 1, v) = Times(second, m, v) + (IF second[m + 1] = v THEN 1 ELSE 0)
        /\ Times(first, n, v) \in Nat /\ Times(second, m, v) \in Nat
    <3>1. Times(both, (n + m) + 1, v)
          = Times(both, n + m, v) + (IF both[(n + m) + 1] = v THEN 1 ELSE 0)
      BY <2>3, TimesNext
    <3> QED  BY <2>3, <3>1, TimesNext
  <2> QED  BY <2>2, <2>3, <2>4
<1> QED  BY <1>1, <1>2, Adding!Induction

-----------------------------------------------------------------------------
(* The counters *)

\* The counter of the first n values.
Tallies(counter, values, n) ==
    /\ DOMAIN counter = {values[k] : k \in 1..n} \ {Unset}
    /\ \A v \in DOMAIN counter : counter[v] = Times(values, n, v)

TalliesAll(n) ==
    \A values : DOMAIN values = 1..n =>
        Tallies(FoldLeft(Tallied, EmptyBag, values), values, n)

Counts == INSTANCE FoldLeftFacts WITH Op <- Tallied, Good <- TalliesAll

LEMMA TallyFolded ==
  ASSUME NEW counter, NEW values
  PROVE  FoldLeft(Tallied, counter, values) = Counts!Fold(counter, values)
  BY DEF Counts!Fold, Counts!FoldLeft, Counts!MapThenFoldSet, Counts!Max, FoldLeft,
         MapThenFoldSet, Max

LEMMA TalliesNext ==
  ASSUME NEW n \in Nat, NEW values, NEW counter, Tallies(counter, values, n)
  PROVE  Tallies(Tallied(counter, values[n + 1]), values, n + 1)
<1> DEFINE w == values[n + 1]
<1>0. {values[k] : k \in 1..n + 1} = {values[k] : k \in 1..n} \cup {w}
  <2>1. \A k \in 1..n + 1 : k \in 1..n \/ k = n + 1
    OBVIOUS
  <2>2. \A k \in 1..n : k \in 1..n + 1
    OBVIOUS
  <2>3. n + 1 \in 1..n + 1
    OBVIOUS
  <2> QED  BY <2>1, <2>2, <2>3
<1>1. \A v : /\ Times(values, n, v) \in Nat
            /\ Times(values, n + 1, v) = Times(values, n, v) + (IF w = v THEN 1 ELSE 0)
  BY TimesNext
<1> HIDE DEF w
<1>2. CASE w = Unset
  <2>1. Tallied(counter, w) = counter
    BY <1>2 DEF Tallied
  <2>2. \A v \in DOMAIN counter : v # w
    BY <1>2 DEF Tallies
  <2>3. \A v \in DOMAIN counter : Times(values, n + 1, v) = Times(values, n, v)
    BY <1>1, <2>2
  <2> QED  BY <1>0, <1>2, <2>1, <2>3 DEF Tallies, w
<1>3. CASE w # Unset
  <2> DEFINE new == Tallied(counter, w)
  <2>1. new = counter (+) SetToBag({w})
    BY <1>3 DEF Tallied
  <2>2. /\ DOMAIN new = DOMAIN counter \cup {w}
        /\ \A v \in DOMAIN new : new[v] = (IF v \in DOMAIN counter THEN counter[v] ELSE 0)
                                        + (IF v = w THEN 1 ELSE 0)
    BY <2>1 DEF (+), SetToBag
  <2> HIDE DEF new
  <2>3. DOMAIN new = {values[k] : k \in 1..n + 1} \ {Unset}
    BY <1>0, <1>3, <2>2 DEF Tallies
  <2>4. ASSUME NEW v \in DOMAIN new PROVE new[v] = Times(values, n + 1, v)
    <3>1. (IF v \in DOMAIN counter THEN counter[v] ELSE 0) = Times(values, n, v)
      <4>1. CASE v \in DOMAIN counter
        BY <4>1 DEF Tallies
      <4>2. CASE v \notin DOMAIN counter
        <5>1. v # Unset
          BY <2>3
        <5>2. \A k \in 1..n : values[k] # v
          BY <4>2, <5>1 DEF Tallies
        <5> QED  BY <4>2, <5>2, TimesNone
      <4> QED  BY <4>1, <4>2
    <3> QED  BY <1>1, <2>2, <3>1
  <2> QED  BY <2>3, <2>4 DEF Tallies, new, w
<1> QED  BY <1>2, <1>3 DEF w

\* A counter has every value once for each place it stands at.
LEMMA TallyCounts == \A n \in Nat : TalliesAll(n)
<1>1. TalliesAll(0)
  <2> SUFFICES ASSUME NEW values, DOMAIN values = 1..0
               PROVE  Tallies(FoldLeft(Tallied, EmptyBag, values), values, 0)
    BY DEF TalliesAll
  <2>1. FoldLeft(Tallied, EmptyBag, values) = EmptyBag
    BY TallyFolded, Counts!FoldEmpty
  <2>2. DOMAIN EmptyBag = {}
    BY DEF EmptyBag, SetToBag
  <2> QED  BY <2>1, <2>2 DEF Tallies
<1>2. ASSUME NEW n \in Nat, TalliesAll(n) PROVE TalliesAll(n + 1)
  <2> SUFFICES ASSUME NEW values, DOMAIN values = 1..n + 1
               PROVE  Tallies(FoldLeft(Tallied, EmptyBag, values), values, n + 1)
    BY DEF TalliesAll
  <2> DEFINE front == [k \in 1..n |-> values[k]]
  <2>1. DOMAIN front = 1..n /\ \A k \in 1..n : front[k] = values[k]
    OBVIOUS
  <2> HIDE DEF front
  <2> DEFINE counter == FoldLeft(Tallied, EmptyBag, front)
  <2>2. Tallies(counter, front, n)
    BY <1>2, <2>1 DEF TalliesAll
  <2>3. FoldLeft(Tallied, EmptyBag, values) = Tallied(counter, values[n + 1])
    <3>1. Counts!Fold(EmptyBag, values) = Tallied(Counts!Fold(EmptyBag, front), values[n + 1])
      BY <2>1, Counts!FoldNext
    <3>2. /\ FoldLeft(Tallied, EmptyBag, values) = Counts!Fold(EmptyBag, values)
          /\ FoldLeft(Tallied, EmptyBag, front) = Counts!Fold(EmptyBag, front)
      BY TallyFolded
    <3> QED  BY <3>1, <3>2
  <2> HIDE DEF counter
  <2>4. Tallies(counter, values, n)
    <3>1. {front[k] : k \in 1..n} = {values[k] : k \in 1..n}
      BY <2>1
    <3>2. \A v : {k \in 1..n : front[k] = v} = {k \in 1..n : values[k] = v}
      BY <2>1
    <3> QED  BY <2>2, <3>1, <3>2 DEF Tallies, Times
  <2> QED  BY <2>3, <2>4, TalliesNext
<1> QED  BY <1>1, <1>2, Counts!Induction

\* Counters are merged by adding them.
LEMMA TalliesJoined ==
  ASSUME NEW n \in Nat, NEW m \in Nat, NEW first, NEW second, NEW both,
         \A k \in 1..n : both[k] = first[k],
         \A k \in 1..m : both[n + k] = second[k],
         NEW c, NEW d, Tallies(c, first, n), Tallies(d, second, m)
  PROVE  Tallies(c (+) d, both, n + m)
<1> DEFINE new == c (+) d
<1>1. /\ DOMAIN new = DOMAIN c \cup DOMAIN d
      /\ \A v \in DOMAIN new : new[v] = (IF v \in DOMAIN c THEN c[v] ELSE 0)
                                      + (IF v \in DOMAIN d THEN d[v] ELSE 0)
  BY DEF (+)
<1> HIDE DEF new
<1>2. {both[k] : k \in 1..n + m} = {first[k] : k \in 1..n} \cup {second[k] : k \in 1..m}
  <2>1. \A k \in 1..n + m : k \in 1..n \/ (k - n \in 1..m /\ k = n + (k - n))
    OBVIOUS
  <2>2. (\A k \in 1..n : k \in 1..n + m) /\ (\A k \in 1..m : n + k \in 1..n + m)
    OBVIOUS
  <2>3. \A k \in 1..n + m : \/ both[k] \in {first[i] : i \in 1..n}
                           \/ both[k] \in {second[i] : i \in 1..m}
    BY <2>1
  <2>4. /\ \A k \in 1..n : first[k] \in {both[i] : i \in 1..n + m}
        /\ \A k \in 1..m : second[k] \in {both[i] : i \in 1..n + m}
    BY <2>2
  <2> QED  BY <2>3, <2>4
<1>3. ASSUME NEW v \in DOMAIN new PROVE new[v] = Times(both, n + m, v)
  <2>1. v # Unset
    BY <1>1 DEF Tallies
  <2>2. (IF v \in DOMAIN c THEN c[v] ELSE 0) = Times(first, n, v)
    <3>1. CASE v \in DOMAIN c
      BY <3>1 DEF Tallies
    <3>2. CASE v \notin DOMAIN c
      <4>1. \A k \in 1..n : first[k] # v
        BY <2>1, <3>2 DEF Tallies
      <4> QED  BY <3>2, <4>1, TimesNone
    <3> QED  BY <3>1, <3>2
  <2>3. (IF v \in DOMAIN d THEN d[v] ELSE 0) = Times(second, m, v)
    <3>1. CASE v \in DOMAIN d
      BY <3>1 DEF Tallies
    <3>2. CASE v \notin DOMAIN d
      <4>1. \A k \in 1..m : second[k] # v
        BY <2>1, <3>2 DEF Tallies
      <4> QED  BY <3>2, <4>1, TimesNone
    <3> QED  BY <3>1, <3>2
  <2>4. Times(both, n + m, v) = Times(first, n, v) + Times(second, m, v)
    <3>1. TimesAdd(m)
      BY TimesJoined
    <3>2. InARow(both, first, n, second, m)
      BY DEF InARow
    <3> QED  BY <3>1, <3>2 DEF TimesAdd
  <2> QED  BY <1>1, <2>2, <2>3, <2>4
<1> QED  BY <1>1, <1>2, <1>3 DEF Tallies, new

-----------------------------------------------------------------------------
(* The sample *)

\* s holds elements of t, none more often than t: at says where each one stands.
Places(at, s, t) ==
    /\ at \in [1..Len(s) -> 1..Len(t)]
    /\ \A i, j \in 1..Len(s) : at[i] = at[j] => i = j
    /\ \A i \in 1..Len(s) : s[i] = t[at[i]]

Drawn(s, t) == \E at : Places(at, s, t)

\* u is t with v at its end.
Extended(t, v, u) ==
    /\ Len(t) \in Nat /\ Len(u) = Len(t) + 1
    /\ \A i \in 1..Len(t) : u[i] = t[i]
    /\ u[Len(t) + 1] = v

LEMMA DrawnEmpty ==
  ASSUME NEW t
  PROVE  Drawn(<<>>, t)
<1>1. 1..Len(<<>>) = {}
  OBVIOUS
<1> DEFINE at == [i \in {} |-> i]
<1>2. Places(at, <<>>, t)
  BY <1>1 DEF Places
<1> QED  BY <1>2 DEF Drawn

LEMMA DrawnLonger ==
  ASSUME NEW s, NEW t, NEW u, NEW v, Drawn(s, t), Extended(t, v, u)
  PROVE  Drawn(s, u)
<1>1. PICK at : Places(at, s, t)
  BY DEF Drawn
<1>2. \A k \in 1..Len(t) : k \in 1..Len(u) /\ u[k] = t[k]
  BY DEF Extended
<1>3. at \in [1..Len(s) -> 1..Len(u)] /\ \A i \in 1..Len(s) : s[i] = u[at[i]]
  BY <1>1, <1>2 DEF Places
<1>4. Places(at, s, u)
  BY <1>1, <1>3 DEF Places
<1> QED  BY <1>4 DEF Drawn

LEMMA DrawnNext ==
  ASSUME NEW s, IsSequence(s), NEW t, NEW u, NEW v, Drawn(s, t), Extended(t, v, u)
  PROVE  Drawn(Append(s, v), u)
<1> DEFINE n    == Len(s)
           m    == Len(t)
           new  == Append(s, v)
<1>1. PICK at : Places(at, s, t)
  BY DEF Drawn
<1> DEFINE next == [i \in 1..n + 1 |-> IF i = n + 1 THEN m + 1 ELSE at[i]]
<1>2. n \in Nat /\ m \in Nat /\ Len(u) = m + 1
  BY SequenceIs DEF Extended
<1>3. Len(new) = n + 1 /\ (\A i \in 1..n : new[i] = s[i]) /\ new[n + 1] = v
  BY Appended
<1>4. at \in [1..n -> 1..m] /\ (\A i \in 1..n : s[i] = t[at[i]])
      /\ \A i, j \in 1..n : at[i] = at[j] => i = j
  BY <1>1 DEF Places
<1>5. (\A k \in 1..m : u[k] = t[k]) /\ u[m + 1] = v
  BY DEF Extended
<1>6. /\ next \in [1..n + 1 -> 1..m + 1] /\ next[n + 1] = m + 1
      /\ \A i \in 1..n : next[i] = at[i] /\ next[i] # m + 1
  <2>1. n + 1 \in 1..n + 1 /\ \A i \in 1..n : i \in 1..n + 1 /\ i # n + 1
    BY <1>2
  <2>2. m + 1 \in 1..m + 1 /\ \A k \in 1..m : k \in 1..m + 1 /\ k # m + 1
    BY <1>2
  <2>3. \A i \in 1..n + 1 : i = n + 1 \/ i \in 1..n
    BY <1>2
  <2>4. \A i \in 1..n : at[i] \in 1..m
    BY <1>4
  <2> HIDE DEF n, m
  <2> QED  BY <2>1, <2>2, <2>3, <2>4
<1>7. \A i \in 1..n + 1 : i = n + 1 \/ i \in 1..n
  BY <1>2
<1> HIDE DEF n, m, new, next
<1>8. ASSUME NEW i \in 1..n + 1, NEW j \in 1..n + 1, next[i] = next[j] PROVE i = j
  <2>1. CASE i \in 1..n /\ j \in 1..n
    BY <1>4, <1>6, <1>8, <2>1
  <2>2. CASE i = n + 1 \/ j = n + 1
    BY <1>6, <1>7, <1>8, <2>2
  <2> QED  BY <1>7, <2>1, <2>2
<1>9. ASSUME NEW i \in 1..n + 1 PROVE new[i] = u[next[i]]
  <2>1. CASE i \in 1..n
    <3>1. new[i] = s[i] /\ s[i] = t[at[i]] /\ next[i] = at[i] /\ at[i] \in 1..m
      BY <1>3, <1>4, <1>6, <2>1
    <3> QED  BY <1>5, <3>1
  <2>2. CASE i = n + 1
    BY <1>3, <1>5, <1>6, <2>2
  <2> QED  BY <1>7, <2>1, <2>2
<1>10. Places(next, new, u)
  BY <1>2, <1>3, <1>6, <1>8, <1>9 DEF Places
<1> QED  BY <1>10 DEF Drawn, new

LEMMA DrawnReplaced ==
  ASSUME NEW s, IsSequence(s), NEW k \in 1..Len(s), NEW t, NEW u, NEW v, Drawn(s, t),
         Extended(t, v, u)
  PROVE  Drawn([s EXCEPT ![k] = v], u)
<1> DEFINE n    == Len(s)
           m    == Len(t)
           new  == [s EXCEPT ![k] = v]
<1>1. PICK at : Places(at, s, t)
  BY DEF Drawn
<1> DEFINE next == [i \in 1..n |-> IF i = k THEN m + 1 ELSE at[i]]
<1>2. n \in Nat /\ m \in Nat /\ Len(u) = m + 1 /\ DOMAIN s = 1..n
  BY SequenceIs DEF Extended
<1>3. Len(new) = n /\ new[k] = v /\ \A i \in 1..n : i # k => new[i] = s[i]
  <2>1. DOMAIN new = 1..n /\ new[k] = v /\ \A i \in 1..n : i # k => new[i] = s[i]
    BY <1>2
  <2>2. new = [i \in 1..n |-> new[i]]
    BY <2>1
  <2> HIDE DEF new
  <2>3. Len(new) = n
    BY <1>2, <2>1, <2>2, FunctionIsSequence
  <2> QED  BY <2>1, <2>3
<1>4. at \in [1..n -> 1..m] /\ (\A i \in 1..n : s[i] = t[at[i]])
      /\ \A i, j \in 1..n : at[i] = at[j] => i = j
  BY <1>1 DEF Places
<1>5. (\A i \in 1..m : u[i] = t[i]) /\ u[m + 1] = v
  BY DEF Extended
<1>6. /\ next \in [1..n -> 1..m + 1] /\ next[k] = m + 1
      /\ \A i \in 1..n : i # k => next[i] = at[i] /\ next[i] # m + 1
  <2>1. \A i \in 1..n : at[i] \in 1..m + 1 /\ at[i] # m + 1
    BY <1>2, <1>4
  <2>2. m + 1 \in 1..m + 1 /\ k \in 1..n
    BY <1>2
  <2> HIDE DEF n, m
  <2> QED  BY <2>1, <2>2
<1> HIDE DEF n, m, new, next
<1>7. \A i, j \in 1..n : next[i] = next[j] => i = j
  BY <1>4, <1>6
<1>8. \A i \in 1..n : new[i] = u[next[i]]
  BY <1>3, <1>4, <1>5, <1>6
<1>9. Places(next, new, u)
  BY <1>2, <1>3, <1>6, <1>7, <1>8 DEF Places
<1> QED  BY <1>9 DEF Drawn, new

LEMMA DrawnFrom ==
  ASSUME NEW s, NEW t, NEW u, Drawn(s, t), Drawn(t, u)
  PROVE  Drawn(s, u)
<1>1. PICK at : Places(at, s, t)
  BY DEF Drawn
<1>2. PICK to : Places(to, t, u)
  BY DEF Drawn
<1> DEFINE next == [i \in 1..Len(s) |-> to[at[i]]]
<1>3. \A i \in 1..Len(s) : next[i] = to[at[i]] /\ at[i] \in 1..Len(t) /\ next[i] \in 1..Len(u)
  BY <1>1, <1>2 DEF Places
<1>4. next \in [1..Len(s) -> 1..Len(u)]
  BY <1>3
<1> HIDE DEF next
<1>5. /\ \A i, j \in 1..Len(s) : next[i] = next[j] => i = j
      /\ \A i \in 1..Len(s) : s[i] = u[next[i]]
  BY <1>1, <1>2, <1>3 DEF Places
<1>6. Places(next, s, u)
  BY <1>4, <1>5 DEF Places
<1> QED  BY <1>6 DEF Drawn

LEMMA DrawnJoined ==
  ASSUME NEW s, IsSequence(s), NEW t, IsSequence(t), NEW u, IsSequence(u), NEW w, IsSequence(w),
         Drawn(s, t), Drawn(u, w)
  PROVE  Drawn(s \o u, t \o w)
<1>1. PICK at : Places(at, s, t)
  BY DEF Drawn
<1>2. PICK to : Places(to, u, w)
  BY DEF Drawn
<1> DEFINE n    == Len(s)
           m    == Len(t)
           p    == Len(u)
           q    == Len(w)
           next == [i \in 1..n + p |-> IF i \in 1..n THEN at[i] ELSE m + to[i - n]]
<1>3. n \in Nat /\ m \in Nat /\ p \in Nat /\ q \in Nat
  BY SequenceIs
<1>4. /\ Len(s \o u) = n + p
      /\ \A i \in 1..n : (s \o u)[i] = s[i]
      /\ \A i \in 1..p : (s \o u)[n + i] = u[i]
  BY Joined
<1>5. /\ Len(t \o w) = m + q
      /\ \A i \in 1..m : (t \o w)[i] = t[i]
      /\ \A i \in 1..q : (t \o w)[m + i] = w[i]
  BY Joined
<1>6. at \in [1..n -> 1..m] /\ to \in [1..p -> 1..q]
  BY <1>1, <1>2 DEF Places
<1>7. ASSUME NEW i \in 1..n + p
      PROVE  \/ i \in 1..n /\ next[i] = at[i] /\ at[i] \in 1..m /\ at[i] \in 1..m + q
             \/ /\ i - n \in 1..p /\ i = n + (i - n) /\ next[i] = m + to[i - n]
                /\ to[i - n] \in 1..q /\ m + to[i - n] \in 1..m + q /\ m + to[i - n] \notin 1..m
  <2>1. next[i] = IF i \in 1..n THEN at[i] ELSE m + to[i - n]
    OBVIOUS
  <2> HIDE DEF n, m, p, q, next
  <2>2. i \in 1..n \/ (i \notin 1..n /\ i - n \in 1..p /\ i = n + (i - n))
    BY <1>3
  <2>3. i \in 1..n => at[i] \in 1..m /\ at[i] \in 1..m + q
    <3>1. \A x \in 1..m : x \in 1..m + q
      BY <1>3
    <3> QED  BY <1>6, <3>1
  <2>4. i - n \in 1..p => /\ to[i - n] \in 1..q
                          /\ m + to[i - n] \in 1..m + q /\ m + to[i - n] \notin 1..m
    <3>1. \A x \in 1..q : m + x \in 1..m + q /\ m + x \notin 1..m
      BY <1>3
    <3> QED  BY <1>6, <3>1
  <2> QED  BY <2>1, <2>2, <2>3, <2>4
<1> HIDE DEF n, m, p, q
<1>8. next \in [1..n + p -> 1..m + q]
  BY <1>7
<1> HIDE DEF next
<1>9. ASSUME NEW i \in 1..n + p, NEW j \in 1..n + p, next[i] = next[j] PROVE i = j
  <2>1. CASE i \in 1..n /\ next[i] = at[i] /\ at[i] \in 1..m
    <3>1. j \in 1..n /\ next[j] = at[j]
      BY <1>7, <1>9, <2>1
    <3> QED  BY <1>1, <1>9, <2>1, <3>1 DEF Places, n
  <2>2. CASE /\ i - n \in 1..p /\ i = n + (i - n) /\ next[i] = m + to[i - n]
             /\ m + to[i - n] \notin 1..m
    <3>1. j - n \in 1..p /\ j = n + (j - n) /\ next[j] = m + to[j - n]
      BY <1>7, <1>9, <2>2
    <3>2. to[i - n] = to[j - n]
      <4>1. to[i - n] \in 1..q /\ to[j - n] \in 1..q
        BY <1>6, <2>2, <3>1
      <4>2. m + to[i - n] = m + to[j - n]
        BY <1>9, <2>2, <3>1
      <4>3. \A a, b \in 1..q : m + a = m + b => a = b
        BY <1>3
      <4> QED  BY <4>1, <4>2, <4>3
    <3>3. i - n = j - n
      BY <1>2, <2>2, <3>1, <3>2 DEF Places, p
    <3> QED  BY <2>2, <3>1, <3>3
  <2> QED  BY <1>7, <2>1, <2>2
<1>10. ASSUME NEW i \in 1..n + p PROVE (s \o u)[i] = (t \o w)[next[i]]
  <2>1. CASE i \in 1..n /\ next[i] = at[i] /\ at[i] \in 1..m
    BY <1>1, <1>4, <1>5, <2>1 DEF Places, n
  <2>2. CASE /\ i - n \in 1..p /\ i = n + (i - n) /\ next[i] = m + to[i - n]
             /\ to[i - n] \in 1..q
    <3>1. (s \o u)[n + (i - n)] = u[i - n]
      BY <1>4, <2>2
    <3>2. (t \o w)[m + to[i - n]] = w[to[i - n]]
      BY <1>5, <2>2
    <3>3. u[i - n] = w[to[i - n]]
      BY <1>2, <2>2 DEF Places, p
    <3> QED  BY <2>2, <3>1, <3>2, <3>3
  <2> QED  BY <1>7, <2>1, <2>2
<1>11. Places(next, s \o u, t \o w)
  BY <1>4, <1>5, <1>8, <1>9, <1>10 DEF Places
<1> QED  BY <1>11 DEF Drawn

\* In terms of bags.
LEMMA DrawnBag ==
  ASSUME NEW s, IsSequence(s), NEW t, IsSequence(t), Drawn(s, t)
  PROVE  ToBag(s) \sqsubseteq ToBag(t)
<1> DEFINE S(x) == {i \in DOMAIN s : s[i] = x}
           T(x) == {i \in DOMAIN t : t[i] = x}
<1>1. PICK at : Places(at, s, t)
  BY DEF Drawn
<1>2. Len(s) \in Nat /\ DOMAIN s = 1..Len(s) /\ Len(t) \in Nat /\ DOMAIN t = 1..Len(t)
  BY SequenceIs
<1>3. /\ DOMAIN ToBag(s) = {s[i] : i \in DOMAIN s} /\ DOMAIN ToBag(t) = {t[i] : i \in DOMAIN t}
      /\ \A x \in DOMAIN ToBag(s) : ToBag(s)[x] = Cardinality(S(x))
      /\ \A x \in DOMAIN ToBag(t) : ToBag(t)[x] = Cardinality(T(x))
  BY DEF ToBag, Range
<1>4. \A i \in DOMAIN s : at[i] \in DOMAIN t /\ s[i] = t[at[i]]
  BY <1>1, <1>2 DEF Places
<1>5. DOMAIN ToBag(s) \subseteq DOMAIN ToBag(t)
  BY <1>3, <1>4
<1>6. ASSUME NEW x PROVE Cardinality(S(x)) <= Cardinality(T(x))
  <2>1. IsFiniteSet(T(x))
    <3>1. IsFiniteSet(DOMAIN t)
      BY <1>2, FS_Interval
    <3> QED  BY <3>1, FS_Subset
  <2> DEFINE f == [i \in S(x) |-> at[i]]
  <2>2. f \in Injection(S(x), T(x))
    <3>1. f \in [S(x) -> T(x)]
      BY <1>4
    <3>2. \A i, j \in S(x) : f[i] = f[j] => i = j
      BY <1>1, <1>2 DEF Places
    <3> HIDE DEF f, S, T
    <3> QED  BY <3>1, <3>2 DEF Injection, IsInjective
  <2> HIDE DEF S, T, f
  <2> QED  BY <2>1, <2>2, FS_Injection
<1> HIDE DEF S, T
<1> QED  BY <1>3, <1>5, <1>6 DEF \sqsubseteq

\* A collector after latencies were sampled: its counts are those of one before.
SameCounts(m, new) ==
    /\ new.total = m.total /\ new.matched = m.matched
    /\ new.by_status = m.by_status /\ new.errors = m.errors

LEMMA LatencyDrawn ==
  ASSUME NEW m, IsCollector(m), NEW t, NEW value, NEW u, Drawn(m.latencies, t),
         Extended(t, value, u), NEW new \in WithLatency(m, value)
  PROVE  SameCounts(m, new) /\ Drawn(new.latencies, u)
<1>1. IsSequence(m.latencies) /\ DOMAIN m = {"total", "matched", "by_status", "errors", "latencies", "seen"}
  BY DEF IsCollector
<1>2. CASE new = [m EXCEPT !.seen = @ + 1, !.latencies = Append(@, value)]
  <2>1. SameCounts(m, new) /\ new.latencies = Append(m.latencies, value)
    BY <1>1, <1>2 DEF SameCounts
  <2> QED  BY <1>1, <2>1, DrawnNext
<1>3. CASE new = [m EXCEPT !.seen = @ + 1]
  <2>1. SameCounts(m, new) /\ new.latencies = m.latencies
    BY <1>1, <1>3 DEF SameCounts
  <2> QED  BY <2>1, DrawnLonger
<1>4. ASSUME NEW k \in 1..ReservoirSize, new = [m EXCEPT !.seen = @ + 1, !.latencies[k] = value],
             ~ Len(m.latencies) < ReservoirSize
      PROVE  SameCounts(m, new) /\ Drawn(new.latencies, u)
  <2>1. SameCounts(m, new) /\ new.latencies = [m.latencies EXCEPT ![k] = value]
    BY <1>1, <1>4 DEF SameCounts
  <2>2. k \in 1..Len(m.latencies)
    BY <1>1, <1>4, SequenceIs, SampleAssumption
  <2> QED  BY <1>1, <2>1, <2>2, DrawnReplaced
<1> QED  BY <1>2, <1>3, <1>4 DEF WithLatency

\* Sampling n latencies in turn keeps the counts, and the new sample is drawn from
\* the old one and the latencies.
SampledOf(n) ==
    \A ms, values : AreCollectors(ms) /\ IsSequence(values) /\ Len(values) = n =>
        /\ AreCollectors(FoldLeft(SampledWith, ms, values))
        /\ \A new \in FoldLeft(SampledWith, ms, values) : \E m \in ms :
               SameCounts(m, new) /\ Drawn(new.latencies, m.latencies \o values)

Sampling == INSTANCE FoldLeftFacts WITH Op <- SampledWith, Good <- SampledOf

LEMMA SamplingFolded ==
  ASSUME NEW ms, NEW latencies
  PROVE  FoldLeft(SampledWith, ms, latencies) = Sampling!Fold(ms, latencies)
  BY DEF Sampling!Fold, Sampling!FoldLeft, Sampling!MapThenFoldSet, Sampling!Max, FoldLeft,
         MapThenFoldSet, Max

LEMMA SampledNone == SampledOf(0)
<1> SUFFICES ASSUME NEW ms, NEW values, AreCollectors(ms), IsSequence(values), Len(values) = 0
             PROVE  /\ AreCollectors(FoldLeft(SampledWith, ms, values))
                    /\ \A new \in FoldLeft(SampledWith, ms, values) : \E m \in ms :
                           SameCounts(m, new) /\ Drawn(new.latencies, m.latencies \o values)
  BY DEF SampledOf
<1>1. DOMAIN values = {}
  BY SequenceIs
<1>2. FoldLeft(SampledWith, ms, values) = ms
  BY <1>1, SamplingFolded, Sampling!FoldEmpty
<1>3. ASSUME NEW m \in ms
      PROVE  SameCounts(m, m) /\ Drawn(m.latencies, m.latencies \o values)
  <2> DEFINE s  == m.latencies
             t  == s \o values
             at == [i \in 1..Len(s) |-> i]
  <2>1. IsSequence(s) /\ Len(s) \in Nat
    BY SequenceIs DEF AreCollectors, IsCollector
  <2> HIDE DEF s
  <2>2. Len(t) = Len(s) /\ \A i \in 1..Len(s) : t[i] = s[i]
    BY <2>1, Joined
  <2> HIDE DEF t
  <2>3. Places(at, s, t)
    BY <2>2 DEF Places
  <2>4. SameCounts(m, m)
    BY DEF SameCounts
  <2> QED  BY <2>3, <2>4 DEF Drawn, s, t
<1> QED  BY <1>2, <1>3

LEMMA JoinedParts ==
  ASSUME NEW s, IsSequence(s), NEW t, IsSequence(t)
  PROVE  /\ Len(s \o t) = Len(s) + Len(t)
         /\ \A k \in 1..Len(s) : (s \o t)[k] = s[k]
         /\ \A k \in 1..Len(t) : (s \o t)[Len(s) + k] = t[k]
  BY Joined

\* The sequences s and t, one after the other.
InTurn(s, t, j) ==
    /\ Len(j) = Len(s) + Len(t)
    /\ \A k \in 1..Len(s) : j[k] = s[k]
    /\ \A k \in 1..Len(t) : j[Len(s) + k] = t[k]

LEMMA JoinedInTurn ==
  ASSUME NEW s, IsSequence(s), NEW t, IsSequence(t)
  PROVE  InTurn(s, t, s \o t)
  BY JoinedParts DEF InTurn

LEMMA JoinedIs ==
  ASSUME NEW s, IsSequence(s), NEW t, IsSequence(t), NEW u, u = s \o t
  PROVE  IsSequence(u) /\ DOMAIN u = 1..Len(s) + Len(t) /\ InTurn(s, t, u)
<1>1. IsSequence(s \o t) /\ DOMAIN (s \o t) = 1..Len(s) + Len(t)
  BY Joined
<1> QED  BY <1>1, JoinedInTurn

LEMMA ExtendedInTurn ==
  ASSUME NEW p \in Nat, NEW n \in Nat, NEW s, NEW front, NEW values, NEW j, NEW h,
         Len(s) = p, Len(front) = n, Len(values) = n + 1,
         \A k \in 1..n : front[k] = values[k],
         InTurn(s, front, j), InTurn(s, values, h)
  PROVE  Extended(j, values[n + 1], h)
<1>1. Len(j) = p + n /\ (\A i \in 1..p : j[i] = s[i]) /\ (\A i \in 1..n : j[p + i] = front[i])
  BY DEF InTurn
<1>2. /\ Len(h) = p + (n + 1) /\ (\A i \in 1..p : h[i] = s[i])
      /\ (\A i \in 1..n + 1 : h[p + i] = values[i])
  BY DEF InTurn
<1>3. ASSUME NEW i \in 1..p + n PROVE h[i] = j[i]
  <2>1. i \in 1..p \/ (i - p \in 1..n /\ i - p \in 1..n + 1 /\ i = p + (i - p))
    OBVIOUS
  <2> QED  BY <1>1, <1>2, <2>1
<1>4. p + n \in Nat /\ p + (n + 1) = (p + n) + 1 /\ n + 1 \in 1..n + 1
  OBVIOUS
<1>5. h[(p + n) + 1] = values[n + 1]
  BY <1>2, <1>4
<1> QED  BY <1>1, <1>2, <1>3, <1>4, <1>5 DEF Extended

LEMMA ExtendedJoined ==
  ASSUME NEW s, IsSequence(s), NEW front, IsSequence(front), NEW values, IsSequence(values),
         Len(values) = Len(front) + 1, \A k \in 1..Len(front) : front[k] = values[k]
  PROVE  Extended(s \o front, values[Len(front) + 1], s \o values)
<1>1. InTurn(s, front, s \o front) /\ InTurn(s, values, s \o values)
  BY JoinedInTurn
<1>2. Len(s) \in Nat /\ Len(front) \in Nat
  BY SequenceIs
<1> QED  BY <1>1, <1>2, ExtendedInTurn

LEMMA SampledNext ==
  ASSUME NEW n \in Nat, SampledOf(n)
  PROVE  SampledOf(n + 1)
<1> SUFFICES ASSUME NEW ms, NEW values, AreCollectors(ms), IsSequence(values), Len(values) = n + 1
             PROVE  /\ AreCollectors(FoldLeft(SampledWith, ms, values))
                    /\ \A new \in FoldLeft(SampledWith, ms, values) : \E m \in ms :
                           SameCounts(m, new) /\ Drawn(new.latencies, m.latencies \o values)
  BY DEF SampledOf
<1> DEFINE front == [k \in 1..n |-> values[k]]
           last  == values[n + 1]
<1>1. DOMAIN front = 1..n /\ (\A k \in 1..n : front[k] = values[k]) /\ front = [k \in 1..n |-> front[k]]
  OBVIOUS
<1> HIDE DEF front
<1>2. IsSequence(front) /\ Len(front) = n /\ DOMAIN values = 1..n + 1
  BY <1>1, FunctionIsSequence, SequenceIs
<1> DEFINE before == FoldLeft(SampledWith, ms, front)
<1>3. /\ AreCollectors(before)
      /\ \A new \in before : \E m \in ms :
             SameCounts(m, new) /\ Drawn(new.latencies, m.latencies \o front)
  BY <1>2 DEF SampledOf
<1>4. FoldLeft(SampledWith, ms, values) = SampledWith(before, last)
  <2>1. Sampling!Fold(ms, values) = SampledWith(Sampling!Fold(ms, front), last)
    BY <1>1, <1>2, Sampling!FoldNext
  <2>2. /\ FoldLeft(SampledWith, ms, values) = Sampling!Fold(ms, values)
        /\ FoldLeft(SampledWith, ms, front) = Sampling!Fold(ms, front)
    BY SamplingFolded
  <2> QED  BY <2>1, <2>2
<1> HIDE DEF before, last
<1>5. AreCollectors(SampledWith(before, last))
  BY <1>3, SampledCollectors
<1>6. ASSUME NEW new \in SampledWith(before, last)
      PROVE  \E m \in ms : SameCounts(m, new) /\ Drawn(new.latencies, m.latencies \o values)
  <2>1. PICK old \in before : new \in WithLatency(old, last)
    BY DEF SampledWith
  <2>2. PICK m \in ms : SameCounts(m, old) /\ Drawn(old.latencies, m.latencies \o front)
    BY <1>3
  <2>3. IsCollector(old) /\ IsSequence(m.latencies)
    BY <1>3 DEF AreCollectors, IsCollector
  <2>4. Extended(m.latencies \o front, last, m.latencies \o values)
    <3>1. Len(values) = Len(front) + 1 /\ (\A k \in 1..Len(front) : front[k] = values[k])
          /\ last = values[Len(front) + 1]
      BY <1>1, <1>2 DEF last
    <3> QED  BY <1>2, <2>3, <3>1, ExtendedJoined
  <2>5. SameCounts(old, new) /\ Drawn(new.latencies, m.latencies \o values)
    BY <2>1, <2>2, <2>3, <2>4, LatencyDrawn
  <2>6. SameCounts(m, new)
    BY <2>2, <2>5 DEF SameCounts
  <2> QED  BY <2>5, <2>6
<1> QED  BY <1>4, <1>5, <1>6

LEMMA MergedIs ==
  ASSUME NEW m, IsCollector(m), NEW stats, {stats.total, stats.matched} \subseteq Nat,
         IsSequence(stats.latencies), NEW new \in Merged(m, stats)
  PROVE  /\ IsCollector(new)
         /\ new.total = m.total + stats.total /\ new.matched = m.matched + stats.matched
         /\ new.by_status = m.by_status (+) stats.by_status
         /\ new.errors = m.errors (+) stats.errors
         /\ Drawn(new.latencies, m.latencies \o stats.latencies)
<1> DEFINE first == [m EXCEPT !.total     = @ + stats.total,
                              !.matched   = @ + stats.matched,
                              !.by_status = @ (+) stats.by_status,
                              !.errors    = @ (+) stats.errors]
<1>1. /\ DOMAIN first = DOMAIN m
      /\ first.total = m.total + stats.total /\ first.matched = m.matched + stats.matched
      /\ first.by_status = m.by_status (+) stats.by_status
      /\ first.errors = m.errors (+) stats.errors
      /\ first.seen = m.seen /\ first.latencies = m.latencies
  BY DEF IsCollector
<1>2. Merged(m, stats) = FoldLeft(SampledWith, {first}, stats.latencies)
  BY DEF Merged
<1> HIDE DEF first
<1>3. AreCollectors({first})
  <2>1. {m.total, m.matched, m.seen} \subseteq Nat
    BY DEF IsCollector
  <2>2. {first.total, first.matched, first.seen} \subseteq Nat
    BY <1>1, <2>1
  <2> QED  BY <1>1, <2>2 DEF AreCollectors, IsCollector
<1>4. SampledOf(Len(stats.latencies))
  <2>1. \A n \in Nat : SampledOf(n)
    BY SampledNone, SampledNext, Sampling!Induction
  <2> QED  BY <2>1, SequenceIs
<1>5. new \in FoldLeft(SampledWith, {first}, stats.latencies)
  BY <1>2
<1>6. IsCollector(new) /\ SameCounts(first, new) /\ Drawn(new.latencies, first.latencies \o stats.latencies)
  BY <1>3, <1>4, <1>5 DEF SampledOf, AreCollectors
<1> QED  BY <1>1, <1>6 DEF SameCounts

-----------------------------------------------------------------------------
(* What a batch reports *)

\* The latencies reported are those of results, each once.
ReportedOf(n) ==
    \A results : DOMAIN results = 1..n =>
        /\ IsSequence(FoldLeft(WithElapsed, <<>>, results))
        /\ Drawn(FoldLeft(WithElapsed, <<>>, results), [k \in 1..n |-> results[k].elapsed])

Reporting == INSTANCE FoldLeftFacts WITH Op <- WithElapsed, Good <- ReportedOf

LEMMA ReportingFolded ==
  ASSUME NEW sample, NEW results
  PROVE  FoldLeft(WithElapsed, sample, results) = Reporting!Fold(sample, results)
  BY DEF Reporting!Fold, Reporting!FoldLeft, Reporting!MapThenFoldSet, Reporting!Max, FoldLeft,
         MapThenFoldSet, Max

LEMMA ReportedNext ==
  ASSUME NEW n \in Nat, ReportedOf(n)
  PROVE  ReportedOf(n + 1)
<1> SUFFICES ASSUME NEW results, DOMAIN results = 1..n + 1
             PROVE  /\ IsSequence(FoldLeft(WithElapsed, <<>>, results))
                    /\ Drawn(FoldLeft(WithElapsed, <<>>, results),
                             [k \in 1..n + 1 |-> results[k].elapsed])
  BY DEF ReportedOf
<1> DEFINE front  == [k \in 1..n |-> results[k]]
           sample == FoldLeft(WithElapsed, <<>>, front)
           last   == results[n + 1]
           t      == [k \in 1..n |-> front[k].elapsed]
           u      == [k \in 1..n + 1 |-> results[k].elapsed]
<1>1. DOMAIN front = 1..n /\ \A k \in 1..n : front[k] = results[k]
  OBVIOUS
<1> HIDE DEF front
<1>2. IsSequence(sample) /\ Drawn(sample, t)
  BY <1>1 DEF ReportedOf
<1>3. FoldLeft(WithElapsed, <<>>, results) = WithElapsed(sample, last)
  <2>1. Reporting!Fold(<<>>, results) = WithElapsed(Reporting!Fold(<<>>, front), last)
    BY <1>1, Reporting!FoldNext
  <2>2. /\ FoldLeft(WithElapsed, <<>>, results) = Reporting!Fold(<<>>, results)
        /\ FoldLeft(WithElapsed, <<>>, front) = Reporting!Fold(<<>>, front)
    BY ReportingFolded
  <2> QED  BY <2>1, <2>2
<1> HIDE DEF sample
<1>4. Extended(t, last.elapsed, u)
  <2>1. Len(t) = n /\ Len(u) = n + 1
    BY FunctionIsSequence
  <2>2. \A k \in 1..n : k \in 1..n + 1 /\ u[k] = t[k]
    BY <1>1
  <2>3. u[n + 1] = last.elapsed
    OBVIOUS
  <2> HIDE DEF t, u, last
  <2> QED  BY <2>1, <2>2, <2>3 DEF Extended
<1> HIDE DEF t, u, last
<1>5. WithElapsed(sample, last) \in {sample, Append(sample, last.elapsed)}
  BY DEF WithElapsed
<1>6. IsSequence(WithElapsed(sample, last)) /\ Drawn(WithElapsed(sample, last), u)
  <2>1. IsSequence(Append(sample, last.elapsed)) /\ Drawn(Append(sample, last.elapsed), u)
    BY <1>2, <1>4, Appended, DrawnNext
  <2>2. Drawn(sample, u)
    BY <1>2, <1>4, DrawnLonger
  <2> QED  BY <1>2, <1>5, <2>1, <2>2
<1> QED  BY <1>3, <1>6 DEF u

LEMMA Reported == \A n \in Nat : ReportedOf(n)
<1>1. ReportedOf(0)
  <2> SUFFICES ASSUME NEW results, DOMAIN results = 1..0
               PROVE  /\ IsSequence(FoldLeft(WithElapsed, <<>>, results))
                      /\ Drawn(FoldLeft(WithElapsed, <<>>, results), [k \in 1..0 |-> results[k].elapsed])
    BY DEF ReportedOf
  <2>1. FoldLeft(WithElapsed, <<>>, results) = <<>>
    BY ReportingFolded, Reporting!FoldEmpty
  <2> QED  BY <2>1, EmptySequence, DrawnEmpty
<1> QED  BY <1>1, ReportedNext, Reporting!Induction

-----------------------------------------------------------------------------
(* The invariant *)

ResolvedOf(n, task) == Effective(Config(n), task.request)
Threshold(n, task)  == ResolvedOf(n, task).overrides["stream_cut"]
Fast(n, task)       == ResolvedOf(n, task).overrides["fast_status"]

\* Whether a transfer has enough with its first m chunks, and that it goes on.
Enough(n, task, reply, m) == Reached(ResolvedOf(n, task), reply.encoding, Begun(reply, m))
GoesOn(n, task, reply, m) ==
    LET enough == Enough(n, task, reply, m) IN enough # Invalid /\ ~enough

\* fragment may be what a transfer that has ended received.
Fetched(n, task, reply, got, fragment) ==
    IF Fast(n, task) THEN fragment = <<>>
    ELSE \/ fragment = reply.chunks /\ got = Len(reply.chunks)
         \/ /\ Threshold(n, task) # Unset
            /\ got \in 1..Len(reply.chunks)
            /\ Enough(n, task, reply, got) # Invalid /\ Enough(n, task, reply, got)
            /\ fragment = Begun(reply, got)

Verdict(n, task, reply, fragment) ==
    Evaluated(ResolvedOf(n, task), Campaigns[n].predicate, Response(reply, fragment))

Failed(result) == result.status = Unset /\ result.error # Unset /\ ~result.matched

\* A transfer that ended with a response: what it received decides.
Answered(n, task, j) ==
    /\ j.reply \in Replies /\ ~j.reply.refused
    /\ j.result.status = j.reply.status /\ j.result.error = Unset
    /\ \E fragment \in {<<>>, j.reply.chunks, Begun(j.reply, j.got)} :
          /\ Fetched(n, task, j.reply, j.got, fragment)
          /\ Verdict(n, task, j.reply, fragment) # Invalid
          /\ j.result.matched = Verdict(n, task, j.reply, fragment)

\* A transfer that goes on.
Streams(n, task, j) ==
    /\ j.reply \in Replies /\ ~j.reply.refused
    /\ Threshold(n, task) # Unset /\ ~Fast(n, task)
    /\ j.got <= Len(j.reply.chunks)
    /\ \A m \in 1..j.got : GoesOn(n, task, j.reply, m)

\* A transfer read on only as long as it had not enough, and its result is that of
\* what it received.
Sound(n, task, j) ==
    /\ j.got \in Nat
    /\ Threshold(n, task) # Unset => \A m \in 1..j.got - 1 : GoesOn(n, task, j.reply, m)
    /\ j.got # 0 => j.reply \in Replies /\ j.got <= Len(j.reply.chunks)
    /\ j.at = "waiting" => j.got = 0
    /\ j.at = "open" => Streams(n, task, j)
    /\ j.at = "done" => /\ Failed(j.result) \/ Answered(n, task, j)
                       /\ j.result.elapsed \in Nat

TransferInv ==
    /\ DOMAIN job \subseteq DOMAIN batch
    /\ \A k \in DOMAIN job : Sound(campaign, batch[k], job[k])

\* Whose transfer a line of the log is.
Belongs(n, e) ==
    /\ e.task.request \in PreparedOf(n)
    /\ e.job.at = "done"
    /\ e.job.result.source_id = e.task.id /\ e.job.result.meta = e.task.request.meta

LogInv ==
    /\ IsSequence(log)
    /\ \A i \in DOMAIN log : Sound(campaign, log[i].task, log[i].job) /\ Belongs(campaign, log[i])

\* The rows written are the results that matched.
RowsInv ==
    /\ \A i \in DOMAIN out : \E l \in DOMAIN log : out[i] = log[l].job.result /\ out[i].matched
    /\ \A l \in DOMAIN log : log[l].job.result.matched => \E i \in DOMAIN out : out[i] = log[l].job.result

ColumnOf(field) == [l \in DOMAIN log |-> log[l].job.result[field]]

\* The collector and the counters are those of the transfers run.
TallyInv ==
    /\ built = skipped + Len(log) + Len(batch)
    /\ metrics.total = Len(log) /\ metrics.matched = Len(out) /\ matched = Len(out)
    /\ Tallies(metrics.by_status, ColumnOf("status"), Len(log))
    /\ Tallies(metrics.errors, ColumnOf("error"), Len(log))
    /\ Drawn(metrics.latencies, ColumnOf("elapsed"))

\* The file is exported when the campaign is over.
ExportInv ==
    csv # Unset =>
        /\ phase \in {"returned", "raised"}
        /\ csv = [columns |-> BaseFields \o MetaColumns(out),
                  rows    |-> [k \in DOMAIN out |->
                                  [c \in DOMAIN (BaseFields \o MetaColumns(out)) |->
                                      Cell(out[k], (BaseFields \o MetaColumns(out))[c])]]]

\* What run() returned is the snapshot of the collector as it still is.
SummaryInv == summary # Unset => phase = "returned" /\ summary = Snapshot(metrics)

RecordInv == TransferInv /\ LogInv /\ RowsInv /\ TallyInv /\ ExportInv /\ SummaryInv

-----------------------------------------------------------------------------
(* The transfers *)

LEMMA EntrySound ==
  ASSUME NEW n, NEW task, NEW j, DOMAIN j = JobFields, j.at = "waiting", j.got = 0
  PROVE  Sound(n, task, j)
  BY DEF Sound

\* What a transfer may end with.
Ends(n, task, reply, got, response) ==
    /\ got \in Nat /\ (got # 0 => reply \in Replies /\ got <= Len(reply.chunks))
    /\ Threshold(n, task) # Unset => \A m \in 1..got - 1 : GoesOn(n, task, reply, m)
    /\ \/ response.status = Unset /\ response.error # Unset
       \/ /\ reply \in Replies /\ ~reply.refused
          /\ \E fragment \in {<<>>, reply.chunks, Begun(reply, got)} :
                Fetched(n, task, reply, got, fragment) /\ response = Response(reply, fragment)

\* The outcome of a step for transfer k: nothing, or a sound record.
Steps(k) == UNCHANGED job \/ \E j : Sound(campaign, batch[k], j) /\ job' = [job EXCEPT ![k] = j]

LEMMA FailureIs ==
  ASSUME NEW error \in {"CurlError", "http3_unavailable"}
  PROVE  Failure(error).status = Unset /\ Failure(error).error # Unset
<1>1. error # Unset
  BY ReplyAssumption
<1> QED  BY <1>1 DEF Failure

LEMMA FailureEnds ==
  ASSUME NEW n, NEW task, NEW reply, NEW got \in Nat, NEW error \in {"CurlError", "http3_unavailable"},
         got # 0 => /\ reply \in Replies /\ got <= Len(reply.chunks)
                    /\ Threshold(n, task) # Unset => \A m \in 1..got - 1 : GoesOn(n, task, reply, m)
  PROVE  Ends(n, task, reply, got, Failure(error))
<1>1. got = 0 => 1..got - 1 = {}
  OBVIOUS
<1> QED  BY <1>1, FailureIs DEF Ends

LEMMA CompleteSteps ==
  ASSUME NEW k \in DOMAIN job, NEW reply, NEW got, NEW response, NEW elapsed,
         Ends(campaign, batch[k], reply, got, response), elapsed \in Nat,
         Complete(k, reply, got, response, elapsed)
  PROVE  Steps(k)
<1> DEFINE n       == campaign
           task    == batch[k]
           verdict == Evaluated(Resolved(k), Campaigns[n].predicate, response)
           result  == Result(k, response, verdict, elapsed)
           j       == [at |-> "done", reply |-> reply, got |-> got, result |-> result]
<1>1. \/ UNCHANGED job
      \/ verdict # Invalid /\ job' = [job EXCEPT ![k] = j]
  BY DEF Complete
<1>2. /\ result.status = response.status /\ result.error = response.error
      /\ result.matched = verdict /\ result.elapsed = elapsed
  BY DEF Result
<1>3. Resolved(k) = ResolvedOf(n, task)
  BY DEF Resolved, ResolvedOf, config
<1>4. j.at = "done" /\ j.reply = reply /\ j.got = got /\ j.result = result
  OBVIOUS
<1> HIDE DEF j, result
<1>5. ASSUME response.status = Unset, response.error # Unset
      PROVE  Failed(result)
  <2>1. verdict = FALSE
    BY <1>5 DEF Evaluated
  <2> QED  BY <1>2, <1>5, <2>1 DEF Failed
<1>6. ASSUME verdict # Invalid, reply \in Replies, ~reply.refused,
             NEW fragment \in {<<>>, reply.chunks, Begun(reply, got)},
             Fetched(n, task, reply, got, fragment), response = Response(reply, fragment)
      PROVE  Answered(n, task, j)
  <2>1. response.status = reply.status /\ response.error = Unset
    BY <1>6 DEF Response
  <2>2. verdict = Verdict(n, task, reply, fragment)
    BY <1>3, <1>6 DEF Verdict
  <2> HIDE DEF n, task, verdict
  <2> QED  BY <1>2, <1>4, <1>6, <2>1, <2>2 DEF Answered
<1> HIDE DEF n, task, verdict
<1>7. Ends(n, task, reply, got, response)
  BY DEF n, task
<1>8. verdict # Invalid => Sound(n, task, j)
  BY <1>2, <1>4, <1>5, <1>6, <1>7 DEF Ends, Sound
<1> QED  BY <1>1, <1>8 DEF Steps, n, task

LEMMA AnswerSteps ==
  ASSUME DataInv, TransferInv, phase = "sending", NEW k \in DOMAIN job, job[k].at = "waiting",
         job[k].got = 0, NEW reply \in Replies, Answer(k, reply)
  PROVE  Steps(k)
<1> DEFINE n     == campaign
           task  == batch[k]
           whole == Len(reply.chunks)
<1>1. Resolved(k) = ResolvedOf(n, task)
  BY DEF Resolved, ResolvedOf, config
<1>2. whole \in Nat /\ reply.elapsed \in Nat
  BY ReplyAssumption, SequenceIs
<1>3. CASE reply.refused
  <2>1. Complete(k, reply, 0, Failure("CurlError"), reply.elapsed)
    BY <1>3 DEF Answer
  <2>2. Ends(n, task, reply, 0, Failure("CurlError"))
    BY FailureEnds
  <2> QED  BY <1>2, <2>1, <2>2, CompleteSteps
<1>4. CASE ~reply.refused /\ Fast(n, task)
  <2>1. Complete(k, reply, 0, Response(reply, <<>>), reply.elapsed)
    BY <1>1, <1>4 DEF Answer, Fast
  <2>2. Ends(n, task, reply, 0, Response(reply, <<>>))
    BY <1>4 DEF Ends, Fetched
  <2> QED  BY <1>2, <2>1, <2>2, CompleteSteps
<1>5. CASE ~reply.refused /\ ~Fast(n, task) /\ Threshold(n, task) # Unset
  <2> DEFINE j == [job[k] EXCEPT !.at = "open", !.reply = reply]
  <2>1. job' = [job EXCEPT ![k] = j]
    BY <1>1, <1>5 DEF Answer, Fast, Threshold
  <2>2. DOMAIN job[k] = JobFields
    BY DEF DataInv, ControlInv
  <2>3. j.at = "open" /\ j.reply = reply /\ j.got = 0
    BY <2>2 DEF JobFields
  <2> HIDE DEF j
  <2>4. Sound(n, task, j)
    BY <1>2, <1>5, <2>3 DEF Sound, Streams
  <2> QED  BY <2>1, <2>4 DEF Steps
<1>6. CASE ~reply.refused /\ ~Fast(n, task) /\ Threshold(n, task) = Unset
  <2>1. \/ Complete(k, reply, whole, Failure("CurlError"), reply.elapsed)
        \/ Complete(k, reply, whole, Response(reply, reply.chunks), reply.elapsed)
    BY <1>1, <1>6 DEF Answer, Fast, Threshold
  <2>2. whole <= Len(reply.chunks) /\ whole = Len(reply.chunks)
    BY <1>2
  <2> HIDE DEF whole
  <2>3. Ends(n, task, reply, whole, Failure("CurlError"))
    BY <1>2, <1>6, <2>2, FailureEnds
  <2>4. Ends(n, task, reply, whole, Response(reply, reply.chunks))
    BY <1>2, <1>6, <2>2 DEF Ends, Fetched
  <2> QED  BY <1>2, <2>1, <2>3, <2>4, CompleteSteps
<1> QED  BY <1>3, <1>4, <1>5, <1>6

LEMMA ReceiveSteps ==
  ASSUME DataInv, TransferInv, NEW k \in DOMAIN job, Receive(k)
  PROVE  Steps(k)
<1> DEFINE n     == campaign
           task  == batch[k]
           j     == job[k]
           reply == j.reply
           got   == j.got
           whole == Len(reply.chunks)
<1>1. Resolved(k) = ResolvedOf(n, task)
  BY DEF Resolved, ResolvedOf, config
<1>2. j.at = "open" /\ DOMAIN j = JobFields
  BY DEF Receive, DataInv, ControlInv
<1>3. Sound(n, task, j)
  BY DEF TransferInv
<1>4. /\ got \in Nat /\ got <= whole /\ reply \in Replies /\ ~reply.refused
      /\ Threshold(n, task) # Unset /\ ~Fast(n, task)
      /\ \A m \in 1..got : GoesOn(n, task, reply, m)
  BY <1>2, <1>3 DEF Sound, Streams
<1>5. whole \in Nat /\ reply.elapsed \in Nat
  BY <1>4, ReplyAssumption, SequenceIs
<1>6. \/ /\ got + 1 > whole
         /\ \/ Complete(k, reply, got, Failure("CurlError"), reply.elapsed)
            \/ Complete(k, reply, got, Response(reply, reply.chunks), reply.elapsed)
      \/ UNCHANGED job
      \/ /\ got + 1 <= whole
         /\ Enough(n, task, reply, got + 1) # Invalid /\ Enough(n, task, reply, got + 1)
         /\ Complete(k, reply, got + 1, Response(reply, Begun(reply, got + 1)), reply.elapsed)
      \/ /\ got + 1 <= whole
         /\ GoesOn(n, task, reply, got + 1)
         /\ job' = [job EXCEPT ![k].got = got + 1]
  BY <1>1, <1>4, <1>5 DEF Receive, Enough, GoesOn, Begun
<1>7. (\A m \in 1..got - 1 : m \in 1..got) /\ (\A m \in 1..(got + 1) - 1 : m \in 1..got)
  BY <1>4
<1>7a. got <= Len(reply.chunks) /\ (got + 1 > whole => got = Len(reply.chunks))
  BY <1>4, <1>5
<1> HIDE DEF whole, got, reply, n, task
<1>8. Ends(n, task, reply, got, Failure("CurlError"))
  BY <1>4, <1>7, <1>7a, FailureEnds
<1>9. ASSUME got + 1 > whole PROVE Ends(n, task, reply, got, Response(reply, reply.chunks))
  BY <1>9, <1>4, <1>7, <1>7a DEF Ends, Fetched
<1>10. ASSUME got + 1 <= whole, Enough(n, task, reply, got + 1) # Invalid,
              Enough(n, task, reply, got + 1)
       PROVE  Ends(n, task, reply, got + 1, Response(reply, Begun(reply, got + 1)))
  <2>1. got + 1 \in Nat /\ got + 1 \in 1..Len(reply.chunks)
    BY <1>4, <1>5, <1>10 DEF whole
  <2>2. Fetched(n, task, reply, got + 1, Begun(reply, got + 1))
    BY <1>4, <1>10, <2>1 DEF Fetched
  <2> QED  BY <1>4, <1>7, <2>1, <2>2 DEF Ends
<1>11. ASSUME got + 1 <= whole, GoesOn(n, task, reply, got + 1), job' = [job EXCEPT ![k].got = got + 1]
       PROVE  Steps(k)
  <2> DEFINE new == [j EXCEPT !.got = got + 1]
  <2>1. job' = [job EXCEPT ![k] = new]
    BY <1>11
  <2>2. new.at = "open" /\ new.reply = reply /\ new.got = got + 1
    BY <1>2 DEF JobFields, reply
  <2> HIDE DEF new
  <2>3. got + 1 \in Nat /\ \A m \in 1..got + 1 : m \in 1..got \/ m = got + 1
    BY <1>4
  <2>4. \A m \in 1..got + 1 : GoesOn(n, task, reply, m)
    BY <1>4, <1>11, <2>3
  <2>5. Sound(n, task, new)
    BY <1>4, <1>7, <1>11, <2>2, <2>3, <2>4 DEF Sound, Streams, whole
  <2> QED  BY <2>1, <2>5 DEF Steps, n, task
<1> QED  BY <1>5, <1>6, <1>8, <1>9, <1>10, <1>11, CompleteSteps DEF Steps, n, task

LEMMA SendSteps ==
  ASSUME DataInv, TransferInv, NEW k \in DOMAIN job, Send(k)
  PROVE  Steps(k)
<1>1. phase = "sending" /\ job[k].at = "waiting" /\ job[k].got = 0
  BY DEF Send, TransferInv, Sound
<1>2. \/ Complete(k, NoReply, 0, Failure("http3_unavailable"), 0)
      \/ \E reply \in Replies : Answer(k, reply)
  BY DEF Send
<1>3. Ends(campaign, batch[k], NoReply, 0, Failure("http3_unavailable"))
  BY FailureEnds
<1> QED  BY <1>1, <1>2, <1>3, AnswerSteps, CompleteSteps

LEMMA StepsTransfers ==
  ASSUME TransferInv, NEW k \in DOMAIN job, Steps(k), UNCHANGED <<campaign, batch>>
  PROVE  TransferInv'
<1>1. CASE UNCHANGED job
  BY <1>1 DEF TransferInv
<1>2. ASSUME NEW j, Sound(campaign, batch[k], j), job' = [job EXCEPT ![k] = j]
      PROVE  TransferInv'
  <2>1. DOMAIN job' = DOMAIN job
    BY <1>2
  <2>2. \A i \in DOMAIN job : job'[i] = IF i = k THEN j ELSE job[i]
    BY <1>2
  <2> QED  BY <1>2, <2>1, <2>2 DEF TransferInv
<1> QED  BY <1>1, <1>2 DEF Steps

\* Every transfer is sound in every state.
LEMMA TransfersKept ==
  ASSUME DataInv, TransferInv, [Next]_vars
  PROVE  TransferInv'
<1>1. CASE ReadRow
  <2>1. job = <<>>
    BY <1>1 DEF DataInv, ControlInv, ReadRow
  <2>2. DOMAIN job' = {}
    BY <1>1, <2>1 DEF ReadRow
  <2> QED  BY <2>2 DEF TransferInv
<1>2. CASE RunBatch
  <2>1. job' = [k \in DOMAIN batch |-> Waiting] /\ UNCHANGED <<campaign, batch>>
    BY <1>2 DEF RunBatch
  <2>2. DOMAIN Waiting = JobFields /\ Waiting.at = "waiting" /\ Waiting.got = 0
    BY DEF Waiting, JobFields
  <2>3. \A k \in DOMAIN batch : Sound(campaign, batch[k], Waiting)
    BY <2>2, EntrySound
  <2> HIDE DEF Waiting
  <2> QED  BY <2>1, <2>3 DEF TransferInv
<1>3. ASSUME NEW k \in DOMAIN job, Send(k) PROVE TransferInv'
  BY <1>3, SendSteps, StepsTransfers DEF Send
<1>4. ASSUME NEW k \in DOMAIN job, Receive(k) PROVE TransferInv'
  BY <1>4, ReceiveSteps, StepsTransfers DEF Receive
<1>5. CASE FinishBatch
  <2>1. DOMAIN job' = {}
    BY <1>5 DEF FinishBatch
  <2> QED  BY <2>1 DEF TransferInv
<1>6. CASE Return \/ Export \/ UNCHANGED vars
  <2>1. UNCHANGED <<campaign, batch, job>>
    BY <1>6 DEF Return, Export, vars
  <2> QED  BY <2>1 DEF TransferInv
<1> QED  BY <1>1, <1>2, <1>3, <1>4, <1>5, <1>6 DEF Next

-----------------------------------------------------------------------------
(* The records *)

LEMMA RecordsStay ==
  ASSUME [Next]_vars, ~FinishBatch
  PROVE  UNCHANGED <<campaign, log, out, metrics, matched>>
  BY DEF Next, ReadRow, RunBatch, Send, Receive, Return, Export, vars

LEMMA CampaignStays ==
  ASSUME [Next]_vars
  PROVE  UNCHANGED campaign
  BY DEF Next, ReadRow, RunBatch, Send, Receive, FinishBatch, Return, Export, vars

\* What the end of a batch adds: its results, its matches and its entries.
Ended == [k \in DOMAIN batch |-> [task |-> batch[k], job |-> job[k]]]

LEMMA BatchEnds ==
  ASSUME DataInv, TransferInv, LogInv, FinishBatch
  PROVE  /\ Len(batch) \in Nat /\ Len(log) \in Nat /\ DOMAIN log = 1..Len(log)
         /\ IsSequence(Ended) /\ Len(Ended) = Len(batch)
         /\ IsSequence(log') /\ DOMAIN log' = 1..Len(log) + Len(batch)
         /\ Len(log') = Len(log) + Len(batch)
         /\ \A l \in 1..Len(log) : log'[l] = log[l]
         /\ \A k \in 1..Len(batch) : /\ log'[Len(log) + k] = Ended[k]
                                   /\ Sound(campaign, Ended[k].task, Ended[k].job)
                                   /\ Belongs(campaign, Ended[k])
                                   /\ Ended[k].job.result = Results[k]
<1>1. /\ Len(batch) \in Nat /\ DOMAIN batch = 1..Len(batch) /\ DOMAIN job = DOMAIN batch
      /\ \A k \in DOMAIN batch : batch[k].request \in PreparedOf(campaign)
  BY BatchTasks DEF DataInv, ControlInv, FinishBatch
<1>2. /\ phase = "sending" /\ (\A k \in DOMAIN batch : job[k].at = "done")
      /\ log' = log \o Ended
  BY DEF FinishBatch, Ended
<1>3. IsSequence(Ended) /\ Len(Ended) = Len(batch)
  BY <1>1, FunctionIsSequence DEF Ended
<1>4. /\ IsSequence(log') /\ DOMAIN log' = 1..Len(log) + Len(batch)
      /\ Len(log') = Len(log) + Len(batch)
      /\ \A l \in 1..Len(log) : log'[l] = log[l]
      /\ \A k \in 1..Len(batch) : log'[Len(log) + k] = Ended[k]
  <2>1. IsSequence(log)
    BY DEF LogInv
  <2>2. IsSequence(log') /\ DOMAIN log' = 1..Len(log) + Len(Ended) /\ InTurn(log, Ended, log')
    BY <1>2, <1>3, <2>1, JoinedIs
  <2> QED  BY <1>3, <2>2 DEF InTurn
<1>5. Len(log) \in Nat /\ DOMAIN log = 1..Len(log)
  BY SequenceIs DEF LogInv
<1>6. ASSUME NEW k \in 1..Len(batch)
      PROVE  /\ Sound(campaign, Ended[k].task, Ended[k].job)
             /\ Belongs(campaign, Ended[k])
             /\ Ended[k].job.result = Results[k]
  <2>1. Ended[k].task = batch[k] /\ Ended[k].job = job[k] /\ Results[k] = job[k].result
    BY <1>1 DEF Ended, Results
  <2>2. Sound(campaign, batch[k], job[k])
    BY <1>1 DEF TransferInv
  <2>3. job[k].at = "done" /\ batch[k].request \in PreparedOf(campaign)
    BY <1>1, <1>2
  <2>4. job[k].result.source_id = batch[k].id /\ job[k].result.meta = batch[k].request.meta
    BY <1>1, <1>2 DEF DataInv, ResultInv
  <2> QED  BY <2>1, <2>2, <2>3, <2>4 DEF Belongs
<1> QED  BY <1>1, <1>3, <1>4, <1>5, <1>6

LEMMA Halves ==
  ASSUME NEW n \in Nat, NEW m \in Nat, NEW l \in 1..n + m
  PROVE  l \in 1..n \/ \E k \in 1..m : l = n + k
<1> SUFFICES ASSUME l \notin 1..n PROVE l - n \in 1..m /\ l = n + (l - n)
  OBVIOUS
<1> QED  OBVIOUS

LEMMA LogKept ==
  ASSUME DataInv, TransferInv, LogInv, [Next]_vars
  PROVE  LogInv'
<1>1. CASE FinishBatch
  <2> DEFINE n == Len(log)
             m == Len(batch)
             Fine(e) == Sound(campaign, e.task, e.job) /\ Belongs(campaign, e)
  <2>1. /\ n \in Nat /\ m \in Nat /\ IsSequence(log') /\ DOMAIN log' = 1..n + m
        /\ (\A l \in 1..n : log'[l] = log[l] /\ Fine(log[l]))
        /\ \A k \in 1..m : log'[n + k] = Ended[k] /\ Fine(Ended[k])
    BY <1>1, BatchEnds DEF LogInv
  <2> HIDE DEF n, m, Fine
  <2>2. ASSUME NEW l \in 1..n + m PROVE Fine(log'[l])
    <3>1. l \in 1..n \/ \E k \in 1..m : l = n + k
      BY <2>1, Halves
    <3> QED  BY <2>1, <3>1
  <2> QED  BY <2>1, <2>2, CampaignStays DEF LogInv, Fine
<1>2. CASE ~FinishBatch
  BY <1>2, RecordsStay DEF LogInv
<1> QED  BY <1>1, <1>2

LEMMA RowsKept ==
  ASSUME DataInv, TransferInv, LogInv, RowsInv, [Next]_vars
  PROVE  RowsInv'
<1>1. CASE FinishBatch
  <2> DEFINE n    == Len(log)
             m    == Len(batch)
             p    == Len(out)
             rows == Matching(Results)
             q    == Len(rows)
  <2>1. /\ n \in Nat /\ m \in Nat /\ DOMAIN log = 1..n /\ DOMAIN log' = 1..n + m
        /\ (\A l \in 1..n : log'[l] = log[l])
        /\ \A k \in 1..m : log'[n + k].job.result = Results[k]
    BY <1>1, BatchEnds
  <2>2. DOMAIN Results = 1..m /\ m \in Nat
    BY <2>1, BatchTasks DEF Results, DataInv
  <2>3. PICK at : Selects(rows, Results, m, at)
    BY <2>2, MatchingSelects DEF Selected
  <2>4. /\ p \in Nat /\ q \in Nat /\ DOMAIN out = 1..p /\ DOMAIN out' = 1..p + q
        /\ (\A i \in 1..p : out'[i] = out[i])
        /\ \A i \in 1..q : out'[p + i] = rows[i]
    <3>1. out' = out \o rows
      BY <1>1 DEF FinishBatch
    <3>2. IsSequence(out) /\ IsSequence(rows)
      BY <2>3 DEF DataInv, OutInv, Selects
    <3> HIDE DEF rows
    <3> QED  BY <3>1, <3>2, SequenceIs, Joined
  <2> HIDE DEF n, m, p, rows, q
  <2>5. /\ \A i \in 1..q : rows[i] = Results[at[i]] /\ Results[at[i]].matched /\ at[i] \in 1..m
        /\ \A k \in 1..m : Results[k].matched => \E i \in 1..q : at[i] = k
    BY <2>3 DEF Selects, q
  <2>6. (\A l \in 1..n : l \in 1..n + m) /\ (\A k \in 1..m : n + k \in 1..n + m)
    BY <2>1
  <2>7. (\A i \in 1..p : i \in 1..p + q) /\ (\A i \in 1..q : p + i \in 1..p + q)
    BY <2>4
  <2>8. ASSUME NEW i \in 1..p + q
        PROVE  \E l \in 1..n + m : out'[i] = log'[l].job.result /\ out'[i].matched
    <3>1. CASE i \in 1..p
      <4>1. PICK l \in 1..n : out[i] = log[l].job.result /\ out[i].matched
        BY <2>1, <2>4, <3>1 DEF RowsInv
      <4>2. out'[i] = out[i] /\ log'[l] = log[l] /\ l \in 1..n + m
        BY <2>1, <2>4, <2>6, <3>1
      <4> QED  BY <4>1, <4>2
    <3>2. ASSUME NEW k \in 1..q, i = p + k
          PROVE  \E l \in 1..n + m : out'[i] = log'[l].job.result /\ out'[i].matched
      <4>1. out'[i] = rows[k]
        BY <2>4, <3>2
      <4>2. rows[k] = Results[at[k]] /\ Results[at[k]].matched /\ at[k] \in 1..m
        BY <2>5
      <4>3. out'[i] = Results[at[k]] /\ out'[i].matched /\ at[k] \in 1..m
        BY <4>1, <4>2
      <4>4. log'[n + at[k]].job.result = Results[at[k]] /\ n + at[k] \in 1..n + m
        BY <2>1, <2>6, <4>3
      <4> QED  BY <4>3, <4>4
    <3> QED  BY <2>4, <3>1, <3>2, Halves
  <2>9. ASSUME NEW l \in 1..n + m, log'[l].job.result.matched
        PROVE  \E i \in 1..p + q : out'[i] = log'[l].job.result
    <3>1. CASE l \in 1..n
      <4>1. PICK i \in 1..p : out[i] = log[l].job.result
        BY <2>1, <2>4, <2>9, <3>1 DEF RowsInv
      <4> QED  BY <2>1, <2>4, <2>7, <3>1, <4>1
    <3>2. ASSUME NEW k \in 1..m, l = n + k
          PROVE  \E i \in 1..p + q : out'[i] = log'[l].job.result
      <4>1. log'[l].job.result = Results[k]
        BY <2>1, <3>2
      <4>2. PICK i \in 1..q : at[i] = k
        BY <2>5, <2>9, <4>1
      <4>3. out'[p + i] = Results[k]
        BY <2>4, <2>5, <4>2
      <4> QED  BY <2>7, <4>1, <4>3
    <3> QED  BY <2>1, <3>1, <3>2, Halves
  <2> QED  BY <2>1, <2>4, <2>8, <2>9 DEF RowsInv
<1>2. CASE ~FinishBatch
  BY <1>2, RecordsStay DEF RowsInv
<1> QED  BY <1>1, <1>2

\* The results of the batch under a name of one of their fields.
ResultsOf(field) == [k \in 1..Len(batch) |-> Results[k][field]]

LEMMA SameSequence ==
  ASSUME NEW n \in Nat, NEW u, NEW w, u = [k \in 1..n |-> u[k]], w = [k \in 1..n |-> w[k]],
         \A k \in 1..n : u[k] = w[k]
  PROVE  u = w
<1>1. [k \in 1..n |-> u[k]] = [k \in 1..n |-> w[k]]
  OBVIOUS
<1> QED  BY <1>1

LEMMA ColumnGrows ==
  ASSUME DataInv, TransferInv, LogInv, FinishBatch, NEW field
  PROVE  /\ Len(log) \in Nat /\ Len(batch) \in Nat
         /\ IsSequence(ColumnOf(field)) /\ Len(ColumnOf(field)) = Len(log)
         /\ IsSequence(ResultsOf(field)) /\ Len(ResultsOf(field)) = Len(batch)
         /\ \A l \in 1..Len(log) : ColumnOf(field)'[l] = ColumnOf(field)[l]
         /\ \A k \in 1..Len(batch) : ColumnOf(field)'[Len(log) + k] = ResultsOf(field)[k]
         /\ ColumnOf(field)' = ColumnOf(field) \o ResultsOf(field)
<1> DEFINE n   == Len(log)
           m   == Len(batch)
           col == ColumnOf(field)
           new == ColumnOf(field)'
           add == ResultsOf(field)
<1>1. /\ n \in Nat /\ m \in Nat /\ DOMAIN log = 1..n /\ DOMAIN log' = 1..n + m
      /\ (\A l \in 1..n : log'[l] = log[l])
      /\ \A k \in 1..m : log'[n + k].job.result = Results[k]
  BY BatchEnds
<1>2. /\ col = [l \in 1..n |-> log[l].job.result[field]]
      /\ new = [l \in 1..n + m |-> log'[l].job.result[field]]
      /\ add = [k \in 1..m |-> Results[k][field]]
  BY <1>1 DEF ColumnOf, ResultsOf
<1>3. (\A l \in 1..n : l \in 1..n + m) /\ (\A k \in 1..m : n + k \in 1..n + m) /\ n + m \in Nat
  BY <1>1
<1> HIDE DEF n, m, col, new, add
<1>4. (\A l \in 1..n : new[l] = col[l]) /\ (\A k \in 1..m : new[n + k] = add[k])
  BY <1>1, <1>2, <1>3
<1>5. /\ IsSequence(col) /\ Len(col) = n
      /\ IsSequence(add) /\ Len(add) = m
  <2>1. col = [l \in 1..n |-> col[l]] /\ add = [k \in 1..m |-> add[k]]
    BY <1>2
  <2> QED  BY <1>1, <2>1, FunctionIsSequence
<1>6. new = col \o add
  <2> DEFINE both == col \o add
  <2>1. IsSequence(both) /\ InTurn(col, add, both)
    BY <1>5, JoinedIs
  <2> HIDE DEF both
  <2>2. Len(both) = n + m /\ (\A l \in 1..n : both[l] = col[l]) /\ (\A k \in 1..m : both[n + k] = add[k])
    BY <1>5, <2>1 DEF InTurn
  <2>3. both = [l \in 1..n + m |-> both[l]] /\ new = [l \in 1..n + m |-> new[l]]
    BY <1>2, <2>1, <2>2, SequenceIsFunction
  <2>4. ASSUME NEW l \in 1..n + m PROVE new[l] = both[l]
    <3>1. l \in 1..n \/ \E k \in 1..m : l = n + k
      BY <1>1, Halves
    <3> QED  BY <1>4, <2>2, <3>1
  <2>5. new = both
    BY <1>3, <2>3, <2>4, SameSequence
  <2> QED  BY <2>5 DEF both
<1> QED  BY <1>1, <1>4, <1>5, <1>6 DEF n, m, col, new, add

LEMMA CountedTallies ==
  ASSUME NEW results, NEW n \in Nat, DOMAIN results = 1..n, NEW field
  PROVE  Tallies(Counted(field, results), [k \in 1..n |-> results[k][field]], n)
<1> DEFINE values == [k \in 1..n |-> results[k][field]]
<1>1. Counted(field, results) = FoldLeft(Tallied, EmptyBag, values)
  BY DEF Counted
<1>2. DOMAIN values = 1..n
  OBVIOUS
<1> HIDE DEF values
<1>3. Tallies(FoldLeft(Tallied, EmptyBag, values), values, n)
  BY <1>2, TallyCounts DEF TalliesAll
<1> QED  BY <1>1, <1>3 DEF values

\* What the collector has counted and sampled after a batch.
LEMMA BatchTallied ==
  ASSUME DataInv, TransferInv, LogInv, TallyInv, FinishBatch
  PROVE  /\ metrics'.total = Len(log) + Len(batch)
         /\ metrics'.matched = Len(out) + Len(Matching(Results))
         /\ Tallies(metrics'.by_status, ColumnOf("status")', Len(log) + Len(batch))
         /\ Tallies(metrics'.errors, ColumnOf("error")', Len(log) + Len(batch))
         /\ Drawn(metrics'.latencies, ColumnOf("elapsed")')
<1> DEFINE n     == Len(log)
           m     == Len(batch)
           rows  == Matching(Results)
           stats == BatchStats(Results)
<1>1. n \in Nat /\ m \in Nat /\ DOMAIN Results = 1..m
  BY BatchTasks, BatchEnds DEF Results, DataInv
<1>2. IsSequence(Results) /\ Len(Results) = m
  BY <1>1, FunctionIsSequence DEF Results
<1>3. IsSequence(rows) /\ Len(rows) \in Nat
  <2>1. IsSequence(rows)
    BY <1>1, MatchingSelects DEF Selected, Selects
  <2> QED  BY <2>1, SequenceIs
<1>4. /\ stats.total = m /\ stats.matched = Len(rows)
      /\ stats.by_status = Counted("status", Results) /\ stats.errors = Counted("error", Results)
      /\ stats.latencies = FoldLeft(WithElapsed, <<>>, Results)
  BY <1>2 DEF BatchStats
<1>5. IsSequence(stats.latencies) /\ Drawn(stats.latencies, ResultsOf("elapsed"))
  <2>1. ReportedOf(m)
    BY <1>1, Reported
  <2>2. ResultsOf("elapsed") = [k \in 1..m |-> Results[k].elapsed]
    BY DEF ResultsOf
  <2> QED  BY <1>1, <1>4, <2>1, <2>2 DEF ReportedOf
<1> HIDE DEF rows, stats
<1>6. metrics' \in Merged(metrics, stats) /\ IsCollector(metrics)
  BY DEF FinishBatch, DataInv, CountInv, stats
<1>7. {stats.total, stats.matched} \subseteq Nat
  BY <1>1, <1>3, <1>4
<1>8. /\ metrics'.total = metrics.total + stats.total
      /\ metrics'.matched = metrics.matched + stats.matched
      /\ metrics'.by_status = metrics.by_status (+) stats.by_status
      /\ metrics'.errors = metrics.errors (+) stats.errors
      /\ Drawn(metrics'.latencies, metrics.latencies \o stats.latencies)
  BY <1>5, <1>6, <1>7, MergedIs
<1>9. ASSUME NEW field, NEW counter, Tallies(counter, ColumnOf(field), n)
      PROVE  Tallies(counter (+) Counted(field, Results), ColumnOf(field)', n + m)
  <2>1. Tallies(Counted(field, Results), ResultsOf(field), m)
    BY <1>1, CountedTallies DEF ResultsOf
  <2>2. /\ \A l \in 1..n : ColumnOf(field)'[l] = ColumnOf(field)[l]
        /\ \A k \in 1..m : ColumnOf(field)'[n + k] = ResultsOf(field)[k]
    BY ColumnGrows
  <2> HIDE DEF n, m
  <2> QED  BY <1>1, <1>9, <2>1, <2>2, TalliesJoined
<1>10. Drawn(metrics'.latencies, ColumnOf("elapsed")')
  <2> DEFINE col == ColumnOf("elapsed")
             add == ResultsOf("elapsed")
  <2>1. IsSequence(col) /\ IsSequence(add) /\ ColumnOf("elapsed")' = col \o add
    BY ColumnGrows
  <2>2. IsSequence(metrics.latencies) /\ Drawn(metrics.latencies, col)
    BY <1>6 DEF IsCollector, TallyInv
  <2> HIDE DEF col, add
  <2>3. Drawn(metrics.latencies \o stats.latencies, col \o add)
    BY <1>5, <2>1, <2>2, DrawnJoined DEF add
  <2>4. Drawn(metrics'.latencies, col \o add)
    BY <1>8, <2>3, DrawnFrom
  <2> QED  BY <2>1, <2>4
<1>11. /\ metrics.total = n /\ metrics.matched = Len(out)
       /\ Tallies(metrics.by_status, ColumnOf("status"), n)
       /\ Tallies(metrics.errors, ColumnOf("error"), n)
  BY DEF TallyInv
<1> QED  BY <1>4, <1>8, <1>9, <1>10, <1>11 DEF rows

LEMMA TallyKept ==
  ASSUME DataInv, TransferInv, LogInv, TallyInv, [Next]_vars
  PROVE  TallyInv'
<1>1. CASE FinishBatch
  <2>1. /\ Len(log) \in Nat /\ Len(batch) \in Nat /\ Len(log') = Len(log) + Len(batch)
    BY <1>1, BatchEnds
  <2>2. IsSequence(out) /\ IsSequence(Matching(Results))
    <3>1. DOMAIN Results = 1..Len(batch)
      BY BatchTasks DEF Results, DataInv
    <3> QED  BY <2>1, <3>1, MatchingSelects DEF Selected, Selects, DataInv, OutInv
  <2>3. Len(out') = Len(out) + Len(Matching(Results))
    BY <1>1, <2>2, Joined DEF FinishBatch
  <2>4. /\ matched' = matched + Len(Matching(Results))
        /\ batch' = <<>> /\ UNCHANGED <<built, skipped>>
    BY <1>1 DEF FinishBatch
  <2>5. built' = skipped' + Len(log') + Len(batch')
    <3>1. Len(batch') = 0
      BY <2>4, EmptySequence
    <3>2. built = skipped + Len(log) + Len(batch) /\ skipped \in Int
      BY DEF TallyInv, DataInv, ControlInv
    <3> QED  BY <2>1, <2>4, <3>1, <3>2
  <2>6. matched = Len(out)
    BY DEF TallyInv
  <2> QED  BY <1>1, <2>1, <2>3, <2>4, <2>5, <2>6, BatchTallied DEF TallyInv
<1>2. CASE ~FinishBatch
  <2>1. UNCHANGED <<log, out, metrics, matched>>
    BY <1>2, RecordsStay
  <2>2. built' = skipped' + Len(log') + Len(batch')
    <3>1. built = skipped + Len(log) + Len(batch)
      BY DEF TallyInv
    <3>2. CASE UNCHANGED <<built, skipped, batch>>
      BY <2>1, <3>1, <3>2
    <3>3. ASSUME NEW task, built' = built + 1,
                 \/ batch' = Append(batch, task) /\ UNCHANGED skipped
                 \/ skipped' = skipped + 1 /\ UNCHANGED batch
          PROVE  built' = skipped' + Len(log') + Len(batch')
      <4>1. skipped \in Int /\ Len(log) \in Nat /\ Len(batch) \in Nat
        BY BatchTasks, SequenceIs DEF DataInv, ControlInv, LogInv
      <4>2. Len(Append(batch, task)) = Len(batch) + 1
        <5>1. IsSequence(batch)
          BY SequenceOfAny DEF DataInv, ControlInv
        <5> QED  BY <5>1, Appended
      <4> QED  BY <2>1, <3>1, <3>3, <4>1, <4>2
    <3>4. \/ UNCHANGED <<built, skipped, batch>>
          \/ /\ built' = built + 1
             /\ \E task : \/ batch' = Append(batch, task) /\ UNCHANGED skipped
                          \/ skipped' = skipped + 1 /\ UNCHANGED batch
      BY <1>2 DEF Next, ReadRow, Admit, RunBatch, Send, Receive, Return, Export, vars
    <3> QED  BY <3>2, <3>3, <3>4
  <2>3. ColumnOf("status")' = ColumnOf("status") /\ ColumnOf("error")' = ColumnOf("error")
        /\ ColumnOf("elapsed")' = ColumnOf("elapsed")
    BY <2>1 DEF ColumnOf
  <2> QED  BY <2>1, <2>2, <2>3 DEF TallyInv
<1> QED  BY <1>1, <1>2

LEMMA ExportKept ==
  ASSUME DataInv, ExportInv, [Next]_vars
  PROVE  ExportInv'
<1>1. CASE Export
  BY <1>1 DEF Export, ExportInv
<1>2. CASE ~Export
  <2>1. UNCHANGED csv
    BY <1>2 DEF Next, ReadRow, RunBatch, Send, Receive, FinishBatch, Return, vars
  <2>2. phase \in {"returned", "raised"} => UNCHANGED <<phase, out>>
    BY <1>2 DEF Next, ReadRow, RunBatch, Send, Receive, FinishBatch, Return, vars
  <2> QED  BY <2>1, <2>2 DEF ExportInv
<1> QED  BY <1>1, <1>2

LEMMA SummaryKept ==
  ASSUME SummaryInv, [Next]_vars
  PROVE  SummaryInv'
<1>1. CASE Return
  <2>1. phase' = "returned" /\ summary' = Snapshot(metrics) /\ UNCHANGED metrics
    BY <1>1 DEF Return
  <2>2. Snapshot(metrics)' = Snapshot(metrics)
    BY <2>1 DEF Snapshot
  <2> QED  BY <2>1, <2>2 DEF SummaryInv
<1>2. CASE ~Return
  <2>1. UNCHANGED summary
    BY <1>2 DEF Next, ReadRow, RunBatch, Send, Receive, FinishBatch, Export, vars
  <2>2. phase = "returned" => UNCHANGED <<phase, metrics>>
    BY <1>2 DEF Next, ReadRow, RunBatch, Send, Receive, FinishBatch, Export, vars
  <2>3. phase = "returned" => Snapshot(metrics)' = Snapshot(metrics)
    BY <2>2 DEF Snapshot
  <2> QED  BY <2>1, <2>2, <2>3 DEF SummaryInv
<1> QED  BY <1>1, <1>2

LEMMA InitRecords == Init => RecordInv
<1> SUFFICES ASSUME Init PROVE RecordInv
  OBVIOUS
<1> USE DEF Init
<1>1. /\ IsSequence(log) /\ Len(log) = 0 /\ DOMAIN log = {} /\ DOMAIN job = {} /\ DOMAIN out = {}
      /\ Len(out) = 0 /\ Len(batch) = 0
  BY EmptySequence
<1>2. TransferInv /\ LogInv /\ RowsInv /\ ExportInv /\ SummaryInv
  BY <1>1 DEF TransferInv, LogInv, RowsInv, ExportInv, SummaryInv
<1>3. ASSUME NEW values PROVE Tallies(EmptyBag, values, 0)
  <2>1. DOMAIN EmptyBag = {}
    BY DEF EmptyBag, SetToBag
  <2> QED  BY <2>1 DEF Tallies
<1>4. TallyInv
  <2>1. Drawn(<<>>, ColumnOf("elapsed"))
    BY DrawnEmpty
  <2> QED  BY <1>1, <1>3, <2>1 DEF TallyInv, NoMetrics
<1> QED  BY <1>2, <1>4 DEF RecordInv

LEMMA RecordInvariant == Spec => [](DataInv /\ RecordInv)
<1>1. Init => DataInv /\ RecordInv
  BY InitData, InitRecords
<1>2. DataInv /\ DataInv' /\ RecordInv /\ [Next]_vars => RecordInv'
  BY TransfersKept, LogKept, RowsKept, TallyKept, ExportKept, SummaryKept DEF RecordInv
<1> QED  BY <1>1, <1>2, DataInvariant, PTL DEF Spec

-----------------------------------------------------------------------------
(* The theorems *)

\* The collector counts every task once, by the status or the error it ended with,
\* and counts nothing else (MetricsExact), whatever the batches.
THEOREM CountsExact == Spec => []MetricsExact
<1>1. DataInv /\ RecordInv => MetricsExact
  <2> SUFFICES ASSUME DataInv, RecordInv PROVE MetricsExact
    OBVIOUS
  <2>1. LogInv /\ TallyInv
    BY DEF RecordInv
  <2>2. DOMAIN log = 1..Len(log) /\ Len(log) \in Nat
    BY <2>1, SequenceIs DEF LogInv
  <2>3. ASSUME NEW e \in ToSet(log)
        PROVE  (e.job.result.status = Unset) # (e.job.result.error = Unset)
    <3>1. Failed(e.job.result) \/ Answered(campaign, e.task, e.job)
      BY <2>1 DEF LogInv, Sound, Belongs, ToSet
    <3>2. CASE Failed(e.job.result)
      BY <3>2 DEF Failed
    <3>3. CASE Answered(campaign, e.task, e.job)
      <4>1. e.job.result.status # Unset /\ e.job.result.error = Unset
        BY <3>3, ReplyAssumption DEF Answered
      <4> QED  BY <4>1
    <3> QED  BY <3>1, <3>2, <3>3
  <2>4. ASSUME NEW field, NEW counter, Tallies(counter, ColumnOf(field), Len(log))
        PROVE  ExactlyTallies(counter, field)
    <3>1. \A l \in 1..Len(log) : ColumnOf(field)[l] = log[l].job.result[field]
      BY <2>2 DEF ColumnOf
    <3>2. {ColumnOf(field)[l] : l \in 1..Len(log)} = {e.job.result[field] : e \in ToSet(log)}
      BY <2>2, <3>1 DEF ToSet
    <3>3. \A v : {l \in 1..Len(log) : ColumnOf(field)[l] = v}
                 = {l \in DOMAIN log : log[l].job.result[field] = v}
      BY <2>2, <3>1
    <3>4. \A v : Times(ColumnOf(field), Len(log), v) = Occurring(field, v)
      BY <3>3 DEF Times, Occurring
    <3> QED  BY <2>4, <3>2, <3>4 DEF Tallies, ExactlyTallies
  <2> QED  BY <2>1, <2>3, <2>4 DEF TallyInv, MetricsExact
<1> QED  BY <1>1, RecordInvariant, PTL

\* The reservoir is as full as it can be and holds no latency more often than it
\* was measured (ReservoirSampled), whatever random() draws.
THEOREM SampleOfMeasured == Spec => []ReservoirSampled
<1>1. DataInv /\ RecordInv => ReservoirSampled
  <2> SUFFICES ASSUME DataInv, RecordInv PROVE ReservoirSampled
    OBVIOUS
  <2>1. IsCollector(metrics) /\ LogInv /\ Drawn(metrics.latencies, ColumnOf("elapsed"))
    BY DEF DataInv, CountInv, RecordInv, TallyInv
  <2>2. IsSequence(metrics.latencies)
    BY <2>1 DEF IsCollector
  <2>3. IsSequence(ColumnOf("elapsed"))
    <3>1. Len(log) \in Nat /\ DOMAIN log = 1..Len(log)
      BY <2>1, SequenceIs DEF LogInv
    <3>2. ColumnOf("elapsed") = [l \in 1..Len(log) |-> ColumnOf("elapsed")[l]]
      BY <3>1 DEF ColumnOf
    <3> QED  BY <3>1, <3>2, FunctionIsSequence
  <2>4. ToBag(metrics.latencies) \sqsubseteq ToBag(ColumnOf("elapsed"))
    BY <2>1, <2>2, <2>3, DrawnBag
  <2>5. ColumnOf("elapsed") = [l \in DOMAIN log |-> log[l].job.result.elapsed]
    BY DEF ColumnOf
  <2> QED  BY <2>1, <2>4, <2>5 DEF IsCollector, ReservoirSampled
<1> QED  BY <1>1, RecordInvariant, PTL
-----------------------------------------------------------------------------
(* The exported file *)

\* A request has finitely many metadata keys.
Countable(r) == Shaped(r) /\ (r # Invalid => IsFiniteSet(DOMAIN r.meta))

Keys == INSTANCE FoldLeftFacts WITH Op <- WithField, Good <- Countable

LEMMA KeysFolded ==
  ASSUME NEW r, NEW fields
  PROVE  FoldLeft(WithField, r, fields) = Keys!Fold(r, fields)
  BY DEF Keys!Fold, Keys!FoldLeft, Keys!MapThenFoldSet, Keys!Max, FoldLeft, MapThenFoldSet, Max

LEMMA FieldMeta ==
  ASSUME NEW r, IsRequest(r), NEW field, WithField(r, field) # Invalid
  PROVE  \/ WithField(r, field).meta = r.meta
         \/ \E v : WithField(r, field).meta = Updated(r.meta, field.key, v)
         \/ WithField(r, field).meta = UpdatedBy(r.meta, field.value.entries)
<1> DEFINE new == WithField(r, field)
           key == field.key
<1>1. CASE r = Invalid
  BY <1>1 DEF WithField
<1>2. CASE r # Invalid /\ key \in Overrides
  <2>1. key \notin {"url", "method"}
    BY <1>2 DEF Overrides, StrFields, IntFields, FloatFields, BoolFields
  <2> QED  BY <1>2, <2>1 DEF WithField, IsRequest, RequestFields
<1>3. CASE r # Invalid /\ key \notin Overrides
  <2>1. CASE key \in {"url", "method", "body", "expected_status"}
    BY <1>3, <2>1 DEF WithField, IsRequest, RequestFields, DictFields
  <2>2. CASE key \in DictFields
    BY <1>3, <2>2 DEF WithField, IsRequest, RequestFields, DictFields
  <2>3. CASE key \in {"needle", "needles"}
    BY <1>3, <2>3 DEF WithField, IsRequest, RequestFields, DictFields
  <2>4. CASE key = "meta"
    BY <1>3, <2>4 DEF WithField, IsRequest, RequestFields, DictFields
  <2>5. CASE key \notin {"url", "method", "body", "expected_status", "needle", "needles", "meta"}
                       \cup DictFields
    BY <1>3, <2>5 DEF WithField, IsRequest, RequestFields
  <2> QED  BY <2>1, <2>2, <2>3, <2>4, <2>5
<1> QED  BY <1>1, <1>2, <1>3

LEMMA FieldCountable ==
  ASSUME NEW r, Countable(r), NEW field, IsFiniteSet(DOMAIN field.value.entries)
  PROVE  Countable(WithField(r, field))
<1>1. Shaped(WithField(r, field))
  BY FieldKeepsShape DEF Countable
<1>2. CASE WithField(r, field) # Invalid
  <2>1. r # Invalid
    BY <1>2 DEF WithField
  <2>2. IsRequest(r) /\ IsFiniteSet(DOMAIN r.meta)
    BY <2>1 DEF Countable, Shaped
  <2>3. \A v : DOMAIN Updated(r.meta, field.key, v) = DOMAIN r.meta \cup {field.key}
    BY DEF Updated
  <2>4. DOMAIN UpdatedBy(r.meta, field.value.entries) = DOMAIN r.meta \cup DOMAIN field.value.entries
    BY DEF UpdatedBy
  <2>5. IsFiniteSet(DOMAIN r.meta \cup {field.key})
    BY <2>2, FS_AddElement
  <2>6. IsFiniteSet(DOMAIN r.meta \cup DOMAIN field.value.entries)
    BY <2>2, FS_Union
  <2>7. IsFiniteSet(DOMAIN WithField(r, field).meta)
    BY <1>2, <2>2, <2>3, <2>4, <2>5, <2>6, FieldMeta
  <2> QED  BY <1>1, <2>7 DEF Countable
<1> QED  BY <1>1, <1>2 DEF Countable

LEMMA BuiltCountable ==
  ASSUME NEW fields, IsSequence(fields),
         \A k \in DOMAIN fields : IsFiniteSet(DOMAIN fields[k].value.entries),
         NEW meta, IsFiniteSet(DOMAIN meta), BuildRequest(fields, meta) # Invalid
  PROVE  IsFiniteSet(DOMAIN BuildRequest(fields, meta).meta)
<1> DEFINE base == [NoRequest EXCEPT !.meta = meta]
           last == FoldLeft(WithField, base, fields)
<1>1. Countable(base)
  <2>1. IsRequest(base) /\ base.meta = meta
    BY DEF NoRequest, IsRequest, RequestFields, Overrides, IntFields
  <2> HIDE DEF base
  <2> QED  BY <2>1 DEF Countable, Shaped
<1>2. BuildRequest(fields, meta) = IF last = Invalid THEN Invalid
                                   ELSE IF ValidRequest(last) THEN last ELSE Invalid
  BY DEF BuildRequest
<1> HIDE DEF base
<1>3. Countable(Keys!Fold(base, fields))
  <2>1. Len(fields) \in Nat /\ DOMAIN fields = 1..Len(fields)
    BY SequenceIs
  <2>2. \A value : \A k \in 1..Len(fields) : Countable(value) => Countable(WithField(value, fields[k]))
    BY <2>1, FieldCountable
  <2> QED  BY <1>1, <2>1, <2>2, Keys!FoldKeeps
<1>4. Countable(last)
  BY <1>3, KeysFolded
<1> HIDE DEF last
<1> QED  BY <1>2, <1>4 DEF Countable

HasKeys(meta) == IsFiniteSet(DOMAIN meta)

Kept == INSTANCE FoldLeftFacts WITH Op <- WithColumn, Good <- HasKeys

LEMMA KeptFolded ==
  ASSUME NEW meta, NEW kept
  PROVE  FoldLeft(WithColumn, meta, kept) = Kept!Fold(meta, kept)
  BY DEF Kept!Fold, Kept!FoldLeft, Kept!MapThenFoldSet, Kept!Max, FoldLeft, MapThenFoldSet, Max

LEMMA CsvKeys ==
  ASSUME NEW source, WellFormed(source), source.kind = "csv", NEW row
  PROVE  IsFiniteSet(DOMAIN CsvMeta(source, row))
<1> DEFINE kept == [a \in DOMAIN source.keep |-> [name  |-> ColumnName(source, source.keep[a]),
                                                  value |-> row[source.keep[a] + 1]]]
<1>1. Len(source.keep) \in Nat /\ DOMAIN kept = 1..Len(source.keep)
  BY SequenceIs DEF WellFormed
<1>2. CsvMeta(source, row) = FoldLeft(WithColumn, <<>>, kept)
  BY DEF CsvMeta
<1> HIDE DEF kept
<1>3. HasKeys(<<>>)
  BY EmptySequence, FS_EmptySet DEF HasKeys
<1>4. ASSUME NEW meta, HasKeys(meta), NEW k PROVE HasKeys(WithColumn(meta, kept[k]))
  <2>1. DOMAIN WithColumn(meta, kept[k]) = DOMAIN meta \cup {kept[k].name}
    BY DEF WithColumn, Updated
  <2> QED  BY <1>4, <2>1, FS_AddElement DEF HasKeys
<1>5. HasKeys(Kept!Fold(<<>>, kept))
  BY <1>1, <1>3, <1>4, Kept!FoldKeeps
<1> QED  BY <1>2, <1>5, KeptFolded DEF HasKeys

LEMMA YieldedKeys ==
  ASSUME NEW n \in DOMAIN Campaigns, NEW r \in RequestsOf(n)
  PROVE  IsFiniteSet(DOMAIN r.meta)
<1> DEFINE source == Source(n)
<1>1. WellFormed(source)
  BY CampaignAssumption
<1> HIDE DEF source
<1>2. PICK k \in FirstRow(source)..Len(source.rows) : r = RequestFrom(source, source.rows[k])
  BY DEF RequestsOf, source
<1>3. r # Skipped /\ r # Invalid
  BY DEF RequestsOf
<1>4. IsSequence(source.rows) /\ FirstRow(source) \in {1, 2}
  BY <1>1 DEF WellFormed, FirstRow
<1>5. k \in DOMAIN source.rows
  BY <1>4, SequenceIs
<1> DEFINE row == source.rows[k]
<1>6. row \in ToSet(source.rows)
  BY <1>5 DEF ToSet
<1> HIDE DEF row
<1>7. r = RequestFrom(source, row)
  BY <1>2 DEF row
<1>8. IsFiniteSet(DOMAIN <<>>) /\ \A text : IsFiniteSet(DOMAIN Text(text).entries)
  BY EmptySequence, FS_EmptySet DEF Text
<1>9. CASE source.kind = "csv"
  <2> DEFINE fields == CsvFields(source, row)
  <2>1. r = BuildRequest(fields, CsvMeta(source, row))
    BY <1>3, <1>7, <1>9 DEF RequestFrom, CsvRequest
  <2>2. IsSequence(fields)
    <3>1. Len(source.mapping) \in Nat /\ DOMAIN source.mapping = 1..Len(source.mapping)
      BY <1>1, <1>9, SequenceIs DEF WellFormed
    <3>2. fields = [a \in 1..Len(source.mapping) |-> fields[a]]
      BY <3>1 DEF CsvFields
    <3> QED  BY <3>1, <3>2, FunctionIsSequence
  <2>3. \A a \in DOMAIN fields : fields[a].value = Text(row[source.mapping[a].column + 1])
    BY DEF CsvFields
  <2>4. IsFiniteSet(DOMAIN CsvMeta(source, row))
    BY <1>1, <1>9, CsvKeys
  <2> HIDE DEF fields
  <2>5. \A a \in DOMAIN fields : IsFiniteSet(DOMAIN fields[a].value.entries)
    BY <1>8, <2>3
  <2> QED  BY <1>3, <2>1, <2>2, <2>4, <2>5, BuiltCountable
<1>10. CASE source.kind = "jsonl"
  <2>1. row.kind = "object" /\ r = BuildRequest(row.fields, <<>>)
    BY <1>3, <1>7, <1>10 DEF RequestFrom, JsonRequest
  <2>2. IsSequence(row.fields)
    BY <1>1, <1>6, <1>10, <2>1 DEF WellFormed
  <2>3. \A a \in DOMAIN row.fields : IsFiniteSet(DOMAIN row.fields[a].value.entries)
    BY <1>1, <1>6, <1>10, <2>1 DEF WellFormed, ToSet
  <2> QED  BY <1>3, <1>8, <2>1, <2>2, <2>3, BuiltCountable
<1>11. CASE source.kind \in {"text", "memory"}
  <2> DEFINE fields == <<[key |-> "url", value |-> Text(row)]>>
  <2>1. r = BuildRequest(fields, <<>>)
    <3>1. r = UrlRequest(row)
      BY <1>3, <1>7, <1>11 DEF RequestFrom, TextRequest
    <3> QED  BY <3>1 DEF UrlRequest
  <2>2. IsSequence(fields) /\ \A a \in DOMAIN fields : fields[a].value = Text(row)
    BY DEF IsSequence, ToSet
  <2> HIDE DEF fields
  <2>3. \A a \in DOMAIN fields : IsFiniteSet(DOMAIN fields[a].value.entries)
    BY <1>8, <2>2
  <2> QED  BY <1>3, <1>8, <2>1, <2>2, <2>3, BuiltCountable
<1> QED  BY <1>1, <1>9, <1>10, <1>11 DEF WellFormed

LEMMA RowKeys ==
  ASSUME DataInv, RecordInv, NEW i \in DOMAIN out
  PROVE  IsFiniteSet(DOMAIN out[i].meta)
<1>1. campaign \in DOMAIN Campaigns /\ LogInv /\ RowsInv
  BY DEF DataInv, ControlInv, RecordInv
<1>2. PICK l \in DOMAIN log : out[i] = log[l].job.result
  BY <1>1 DEF RowsInv
<1>3. log[l].task.request \in PreparedOf(campaign) /\ out[i].meta = log[l].task.request.meta
  BY <1>1, <1>2 DEF LogInv, Belongs
<1>4. PICK r \in RequestsOf(campaign) :
          log[l].task.request = Prepared(Config(campaign), Campaigns[campaign].needle, r)
  BY <1>3 DEF PreparedOf
<1>5. out[i].meta = AnnotatedMeta(Config(campaign), r.meta)
  BY <1>1, <1>3, <1>4, YieldedIsRequest, PreparedIs
<1>6. IsFiniteSet(DOMAIN r.meta)
  BY <1>1, YieldedKeys
<1>7. \A v : DOMAIN Updated(r.meta, "authorization", v) = DOMAIN r.meta \cup {"authorization"}
  BY DEF Updated
<1>8. IsFiniteSet(DOMAIN r.meta \cup {"authorization"})
  BY <1>6, FS_AddElement
<1> QED  BY <1>5, <1>6, <1>7, <1>8 DEF AnnotatedMeta

\* A finite set as a sequence.
LEMMA InSequence ==
  ASSUME NEW S, IsFiniteSet(S)
  PROVE  IsSequence(SetToSeq(S)) /\ ToSet(SetToSeq(S)) = S
<1> DEFINE n == Cardinality(S)
           f == SetToSeq(S)
<1>1. n \in Nat /\ ExistsBijection(1..n, S)
  BY FS_CardinalityType
<1>2. \E g \in [1..n -> S] : IsInjective(g)
  BY <1>1 DEF ExistsBijection, Bijection, Injection
<1>3. f \in [1..n -> S] /\ IsInjective(f)
  BY <1>2 DEF SetToSeq
<1> HIDE DEF f
<1>4. f \in Surjection(1..n, S)
  <2>1. f \in Injection(1..n, S)
    BY <1>3 DEF Injection
  <2>2. Cardinality(1..n) = Cardinality(S)
    <3>1. Cardinality(1..n) = IF 1 > n THEN 0 ELSE n - 1 + 1
      BY <1>1, FS_Interval
    <3> QED  BY <1>1, <3>1
  <2> HIDE DEF n
  <2> QED  BY <2>1, <2>2, FS_Injection
<1>5. ToSet(f) = S
  BY <1>3, <1>4 DEF Surjection, ToSet
<1>6. IsSequence(f)
  BY <1>1, <1>3, <1>5 DEF IsSequence
<1> QED  BY <1>5, <1>6 DEF f

\* The columns of n rows hold every key of them.
ColumnsOf(n) ==
    \A rows : DOMAIN rows = 1..n /\ (\A k \in 1..n : HasKeys(rows[k].meta)) =>
        LET columns == FoldLeft(WithKeys, <<>>, rows)
        IN IsSequence(columns) /\ \A k \in 1..n : DOMAIN rows[k].meta \subseteq ToSet(columns)

Gathered == INSTANCE FoldLeftFacts WITH Op <- WithKeys, Good <- ColumnsOf

LEMMA GatheredFolded ==
  ASSUME NEW columns, NEW rows
  PROVE  FoldLeft(WithKeys, columns, rows) = Gathered!Fold(columns, rows)
  BY DEF Gathered!Fold, Gathered!FoldLeft, Gathered!MapThenFoldSet, Gathered!Max, FoldLeft,
         MapThenFoldSet, Max

LEMMA JoinedSets ==
  ASSUME NEW s, IsSequence(s), NEW t, IsSequence(t)
  PROVE  IsSequence(s \o t) /\ ToSet(s) \subseteq ToSet(s \o t) /\ ToSet(t) \subseteq ToSet(s \o t)
<1> DEFINE u == s \o t
<1>1. IsSequence(u) /\ DOMAIN u = 1..Len(s) + Len(t) /\ InTurn(s, t, u)
  BY JoinedIs
<1>2. Len(s) \in Nat /\ DOMAIN s = 1..Len(s) /\ Len(t) \in Nat /\ DOMAIN t = 1..Len(t)
  BY SequenceIs
<1> HIDE DEF u
<1>3. \A k \in DOMAIN s : k \in DOMAIN u /\ u[k] = s[k]
  BY <1>1, <1>2 DEF InTurn
<1>4. \A k \in DOMAIN t : Len(s) + k \in DOMAIN u /\ u[Len(s) + k] = t[k]
  BY <1>1, <1>2 DEF InTurn
<1>5. ToSet(s) \subseteq ToSet(u) /\ ToSet(t) \subseteq ToSet(u)
  BY <1>3, <1>4 DEF ToSet
<1> QED  BY <1>1, <1>5 DEF u

LEMMA ColumnsNext ==
  ASSUME NEW n \in Nat, ColumnsOf(n)
  PROVE  ColumnsOf(n + 1)
<1> SUFFICES ASSUME NEW rows, DOMAIN rows = 1..n + 1,
                    \A k \in 1..n + 1 : HasKeys(rows[k].meta)
             PROVE  LET columns == FoldLeft(WithKeys, <<>>, rows)
                    IN /\ IsSequence(columns)
                       /\ \A k \in 1..n + 1 : DOMAIN rows[k].meta \subseteq ToSet(columns)
  BY DEF ColumnsOf
<1> DEFINE front == [k \in 1..n |-> rows[k]]
           old   == FoldLeft(WithKeys, <<>>, front)
           keys  == DOMAIN rows[n + 1].meta
           more  == keys \ ToSet(old)
           all   == FoldLeft(WithKeys, <<>>, rows)
<1>1. DOMAIN front = 1..n /\ \A k \in 1..n : front[k] = rows[k] /\ HasKeys(front[k].meta)
  OBVIOUS
<1>2. IsFiniteSet(keys)
  <2>1. n + 1 \in 1..n + 1
    OBVIOUS
  <2> QED  BY <2>1 DEF HasKeys
<1> HIDE DEF front
<1>3. IsSequence(old) /\ \A k \in 1..n : DOMAIN rows[k].meta \subseteq ToSet(old)
  BY <1>1 DEF ColumnsOf
<1>4. all = WithKeys(old, rows[n + 1])
  <2>1. Gathered!Fold(<<>>, rows) = WithKeys(Gathered!Fold(<<>>, front), rows[n + 1])
    BY <1>1, Gathered!FoldNext
  <2> QED  BY <2>1, GatheredFolded
<1> HIDE DEF old, all
<1>5. all = old \o SetToSeq(more)
  BY <1>4 DEF WithKeys
<1>6. IsFiniteSet(more)
  BY <1>2, FS_Subset
<1>7. IsSequence(SetToSeq(more)) /\ ToSet(SetToSeq(more)) = more
  BY <1>6, InSequence
<1>8. IsSequence(all) /\ ToSet(old) \subseteq ToSet(all) /\ more \subseteq ToSet(all)
  BY <1>3, <1>5, <1>7, JoinedSets
<1>9. keys \subseteq ToSet(all)
  BY <1>8
<1>10. \A k \in 1..n + 1 : k \in 1..n \/ k = n + 1
  OBVIOUS
<1> HIDE DEF more
<1> QED  BY <1>3, <1>8, <1>9, <1>10 DEF all

LEMMA ColumnsGathered == \A n \in Nat : ColumnsOf(n)
<1>1. ColumnsOf(0)
  <2> SUFFICES ASSUME NEW rows, DOMAIN rows = 1..0
               PROVE  IsSequence(FoldLeft(WithKeys, <<>>, rows))
    BY DEF ColumnsOf
  <2>1. FoldLeft(WithKeys, <<>>, rows) = <<>>
    BY GatheredFolded, Gathered!FoldEmpty
  <2> QED  BY <2>1, EmptySequence
<1> QED  BY <1>1, ColumnsNext, Gathered!Induction

\* The export has every field of every record, and every metadata value but those
\* under a name of a field, which export_csv replaces by the field's
\* (ExportKeepsAll).
THEOREM ExportIsComplete == Spec => []ExportKeepsAll
<1>1. DataInv /\ RecordInv => ExportKeepsAll
  <2> SUFFICES ASSUME DataInv, RecordInv, csv # Unset
               PROVE  /\ Len(csv.rows) = Len(out)
                      /\ \A k \in DOMAIN out :
                            /\ \A c \in DOMAIN BaseFields : csv.rows[k][c] = out[k][csv.columns[c]]
                            /\ \A key \in DOMAIN out[k].meta \ ToSet(BaseFields) :
                                  \E c \in DOMAIN csv.columns : /\ csv.columns[c] = key
                                                                /\ csv.rows[k][c] = out[k].meta[key]
    BY DEF ExportKeepsAll
  <2> DEFINE base == BaseFields
             keys == MetaColumns(out)
             all  == base \o keys
  <2>1. csv.columns = all /\ csv.rows = [k \in DOMAIN out |-> [c \in DOMAIN all |-> Cell(out[k], all[c])]]
    BY DEF RecordInv, ExportInv
  <2>2. IsSequence(out) /\ Len(out) \in Nat /\ DOMAIN out = 1..Len(out)
    BY SequenceIs DEF DataInv, OutInv
  <2>3. IsSequence(base)
    BY DEF BaseFields, IsSequence, ToSet
  <2>4. IsSequence(keys) /\ \A k \in DOMAIN out : DOMAIN out[k].meta \subseteq ToSet(keys)
    <3>1. \A k \in DOMAIN out : HasKeys(out[k].meta)
      BY RowKeys DEF HasKeys
    <3>2. ColumnsOf(Len(out))
      BY <2>2, ColumnsGathered
    <3> QED  BY <2>2, <3>1, <3>2 DEF ColumnsOf, MetaColumns
  <2> HIDE DEF base, keys
  <2>5. DOMAIN all = 1..Len(base) + Len(keys) /\ InTurn(base, keys, all)
    BY <2>3, <2>4, JoinedIs
  <2>6. /\ Len(base) \in Nat /\ DOMAIN base = 1..Len(base)
        /\ Len(keys) \in Nat /\ DOMAIN keys = 1..Len(keys)
    BY <2>3, <2>4, SequenceIs
  <2> HIDE DEF all
  <2>7. Len(csv.rows) = Len(out)
    <3>1. csv.rows = [k \in 1..Len(out) |-> csv.rows[k]]
      BY <2>1, <2>2
    <3> QED  BY <2>2, <3>1, FunctionIsSequence
  <2>8. ASSUME NEW k \in DOMAIN out, NEW c \in DOMAIN base
        PROVE  csv.rows[k][c] = out[k][csv.columns[c]]
    <3>1. c \in DOMAIN all /\ all[c] = base[c]
      BY <2>5, <2>6 DEF InTurn
    <3>2. all[c] \in ToSet(BaseFields)
      BY <3>1 DEF base, ToSet
    <3>3. Cell(out[k], all[c]) = out[k][all[c]]
      BY <3>2 DEF Cell
    <3> QED  BY <2>1, <3>1, <3>3
  <2>9. ASSUME NEW k \in DOMAIN out, NEW key \in DOMAIN out[k].meta \ ToSet(BaseFields)
        PROVE  \E c \in DOMAIN csv.columns : csv.columns[c] = key /\ csv.rows[k][c] = out[k].meta[key]
    <3>1. PICK m \in DOMAIN keys : keys[m] = key
      BY <2>4 DEF ToSet
    <3>2. Len(base) + m \in DOMAIN all /\ all[Len(base) + m] = key
      BY <2>5, <2>6, <3>1 DEF InTurn
    <3>3. Cell(out[k], key) = out[k].meta[key]
      BY DEF Cell
    <3> QED  BY <2>1, <3>2, <3>3
  <2> QED  BY <2>7, <2>8, <2>9 DEF base
<1> QED  BY <1>1, RecordInvariant, PTL

-----------------------------------------------------------------------------
(* Bytes that grow with their chunks *)

IsBytes(s)        == IsSequence(s) /\ \A k \in DOMAIN s : s[k] \in DOMAIN Yields
AreChunks(chunks) == IsSequence(chunks) /\ \A k \in DOMAIN chunks : IsBytes(chunks[k])

LEMMA RepliesHaveChunks ==
  ASSUME NEW reply \in Replies
  PROVE  AreChunks(reply.chunks) /\ IsSequence(reply.encoding)
  BY ReplyAssumption DEF AreChunks, IsBytes, ToSet

LEMMA FirstOf ==
  ASSUME NEW s, IsSequence(s), NEW m \in 0..Len(s)
  PROVE  LET first == SubSeq(s, 1, m)
         IN /\ IsSequence(first) /\ Len(first) = m /\ DOMAIN first = 1..m
            /\ \A k \in 1..m : first[k] = s[k] /\ k \in DOMAIN s
<1> DEFINE first == SubSeq(s, 1, m)
<1>1. Len(s) \in Nat /\ DOMAIN s = 1..Len(s)
  BY SequenceIs
<1>2. 1 \in 1..Len(s) + 1 /\ m \in 1 - 1..Len(s) /\ m - 1 + 1 = m
  BY <1>1
<1>3. first = [k \in 1..m - 1 + 1 |-> s[1 + k - 1]] /\ Len(first) = m - 1 + 1
  BY <1>1, <1>2, SubSequence
<1>4. first = [k \in 1..m |-> s[k]] /\ Len(first) = m
  BY <1>2, <1>3
<1> HIDE DEF first
<1>5. DOMAIN first = 1..m /\ \A k \in 1..m : first[k] = s[k] /\ k \in DOMAIN s
  BY <1>1, <1>4
<1>6. IsSequence(first)
  BY <1>1, <1>2, <1>4, <1>5, FunctionIsSequence
<1> QED  BY <1>4, <1>5, <1>6 DEF first

\* t starts with s.
Starts(s, t) ==
    /\ IsSequence(s) /\ IsSequence(t) /\ Len(s) <= Len(t)
    /\ \A k \in 1..Len(s) : t[k] = s[k]

LEMMA StartsItself ==
  ASSUME NEW s, IsSequence(s)
  PROVE  Starts(s, s)
  BY SequenceIs DEF Starts

LEMMA StartsOn ==
  ASSUME NEW s, NEW t, NEW u, Starts(s, t), Starts(t, u)
  PROVE  Starts(s, u)
<1>1. Len(s) \in Nat /\ Len(t) \in Nat /\ Len(u) \in Nat /\ Len(s) <= Len(t) /\ Len(t) <= Len(u)
  BY SequenceIs DEF Starts
<1>2. \A k \in 1..Len(s) : k \in 1..Len(t)
  BY <1>1
<1> QED  BY <1>1, <1>2 DEF Starts

LEMMA StartsJoined ==
  ASSUME NEW s, IsSequence(s), NEW t, IsSequence(t)
  PROVE  Starts(s, s \o t)
<1> DEFINE u == s \o t
<1>1. IsSequence(u) /\ InTurn(s, t, u)
  BY JoinedIs
<1>2. Len(s) \in Nat /\ Len(t) \in Nat
  BY SequenceIs
<1> HIDE DEF u
<1>3. Starts(s, u)
  BY <1>1, <1>2 DEF InTurn, Starts
<1> QED  BY <1>3 DEF u

\* A sequence is as long as its beginning only if it is its beginning.
LEMMA StartsAll ==
  ASSUME NEW s, NEW t, Starts(s, t), Len(s) = Len(t)
  PROVE  s = t
<1>1. s = [k \in 1..Len(s) |-> s[k]] /\ t = [k \in 1..Len(t) |-> t[k]]
  BY SequenceIsFunction DEF Starts
<1>2. [k \in 1..Len(s) |-> s[k]] = [k \in 1..Len(t) |-> t[k]]
  BY DEF Starts
<1> QED  BY <1>1, <1>2

LEMMA StartsFirst ==
  ASSUME NEW s, NEW t, Starts(s, t), NEW n \in 0..Len(t), NEW m \in 0..Len(s), m <= n
  PROVE  Starts(SubSeq(s, 1, m), SubSeq(t, 1, n))
<1> DEFINE a == SubSeq(s, 1, m)
           b == SubSeq(t, 1, n)
<1>1. IsSequence(a) /\ Len(a) = m /\ \A k \in 1..m : a[k] = s[k]
  BY FirstOf DEF Starts
<1>2. IsSequence(b) /\ Len(b) = n /\ \A k \in 1..n : b[k] = t[k]
  BY FirstOf DEF Starts
<1>3. Len(s) \in Nat /\ Len(t) \in Nat
  BY SequenceIs DEF Starts
<1> HIDE DEF a, b
<1>4. \A k \in 1..m : k \in 1..n /\ k \in 1..Len(s)
  BY <1>3
<1>5. \A k \in 1..m : b[k] = a[k]
  BY <1>1, <1>2, <1>4 DEF Starts
<1>6. Starts(a, b)
  BY <1>1, <1>2, <1>5 DEF Starts
<1> QED  BY <1>6 DEF a, b

LEMMA AllOf ==
  ASSUME NEW s, IsSequence(s)
  PROVE  SubSeq(s, 1, Len(s)) = s /\ Len(s) \in 0..Len(s) /\ 0 \in 0..Len(s)
<1>1. Len(s) \in 0..Len(s) /\ 0 \in 0..Len(s) /\ Len(s) \in Nat
  BY SequenceIs
<1> DEFINE all == SubSeq(s, 1, Len(s))
<1>2. IsSequence(all) /\ Len(all) = Len(s) /\ \A k \in 1..Len(s) : all[k] = s[k]
  BY <1>1, FirstOf
<1> HIDE DEF all
<1>3. Starts(all, s)
  BY <1>1, <1>2 DEF Starts
<1>4. all = s
  BY <1>2, <1>3, StartsAll
<1> QED  BY <1>1, <1>4 DEF all

LEMMA StartsIs ==
  ASSUME NEW s, NEW t, Starts(s, t)
  PROVE  s = SubSeq(t, 1, Len(s)) /\ Len(s) \in 0..Len(t)
<1>1. Len(s) \in Nat /\ Len(t) \in Nat /\ Len(s) <= Len(t)
  BY SequenceIs DEF Starts
<1>2. Len(s) \in 0..Len(t) /\ Len(s) \in 0..Len(s)
  BY <1>1
<1>3. Starts(SubSeq(s, 1, Len(s)), SubSeq(t, 1, Len(s)))
  BY <1>1, <1>2, StartsFirst
<1>4. SubSeq(s, 1, Len(s)) = s
  BY AllOf DEF Starts
<1>5. Len(SubSeq(t, 1, Len(s))) = Len(s)
  BY <1>2, FirstOf DEF Starts
<1> QED  BY <1>2, <1>3, <1>4, <1>5, StartsAll

LEMMA FirstChunks ==
  ASSUME NEW chunks, AreChunks(chunks), NEW m \in 0..Len(chunks)
  PROVE  AreChunks(SubSeq(chunks, 1, m))
<1> DEFINE first == SubSeq(chunks, 1, m)
<1>1. IsSequence(first) /\ DOMAIN first = 1..m /\ \A k \in 1..m : first[k] = chunks[k] /\ k \in DOMAIN chunks
  BY FirstOf DEF AreChunks
<1> HIDE DEF first
<1>2. AreChunks(first)
  BY <1>1 DEF AreChunks
<1> QED  BY <1>2 DEF first

Flat == INSTANCE FoldLeftFacts WITH Op <- WithChunk, Good <- IsBytes

LEMMA ChunksFolded ==
  ASSUME NEW bytes, NEW chunks
  PROVE  FoldLeft(WithChunk, bytes, chunks) = Flat!Fold(bytes, chunks)
  BY DEF Flat!Fold, Flat!FoldLeft, Flat!MapThenFoldSet, Flat!Max, FoldLeft, MapThenFoldSet, Max

LEMMA ChunkAdded ==
  ASSUME NEW s, IsBytes(s), NEW t, IsBytes(t)
  PROVE  IsBytes(WithChunk(s, t))
<1> DEFINE u == WithChunk(s, t)
<1>1. IsSequence(u) /\ DOMAIN u = 1..Len(s) + Len(t) /\ InTurn(s, t, u)
  BY JoinedIs DEF IsBytes, WithChunk
<1>2. Len(s) \in Nat /\ DOMAIN s = 1..Len(s) /\ Len(t) \in Nat /\ DOMAIN t = 1..Len(t)
  BY SequenceIs DEF IsBytes
<1> HIDE DEF u
<1>3. ASSUME NEW k \in 1..Len(s) + Len(t) PROVE u[k] \in DOMAIN Yields
  <2>1. CASE k <= Len(s)
    <3>1. k \in DOMAIN s /\ u[k] = s[k]
      BY <1>1, <1>2, <2>1 DEF InTurn
    <3> QED  BY <3>1 DEF IsBytes
  <2>2. CASE k > Len(s)
    <3>1. k - Len(s) \in 1..Len(t) /\ Len(s) + (k - Len(s)) = k
      BY <1>2, <2>2
    <3>2. u[k] = t[k - Len(s)] /\ k - Len(s) \in DOMAIN t
      BY <1>1, <1>2, <3>1 DEF InTurn
    <3> QED  BY <3>2 DEF IsBytes
  <2> QED  BY <1>2, <2>1, <2>2
<1>4. IsBytes(u)
  BY <1>1, <1>3 DEF IsBytes
<1> QED  BY <1>4 DEF u

LEMMA EmptyBytes == IsBytes(<<>>)
  BY EmptySequence DEF IsBytes

LEMMA BytesOfChunks ==
  ASSUME NEW chunks, AreChunks(chunks)
  PROVE  IsBytes(BytesOf(chunks))
<1>1. Len(chunks) \in Nat /\ DOMAIN chunks = 1..Len(chunks)
  BY SequenceIs DEF AreChunks
<1>2. \A bytes : \A k \in 1..Len(chunks) : IsBytes(bytes) => IsBytes(WithChunk(bytes, chunks[k]))
  BY <1>1, ChunkAdded DEF AreChunks
<1>3. IsBytes(Flat!Fold(<<>>, chunks))
  BY <1>1, <1>2, EmptyBytes, Flat!FoldKeeps
<1> QED  BY <1>3, ChunksFolded DEF BytesOf

\* With d more chunks there are the bytes that were there, and more.
GrowsBy(d) ==
    \A chunks : AreChunks(chunks) =>
        \A m \in Nat : m + d <= Len(chunks) =>
            Starts(BytesOf(SubSeq(chunks, 1, m)), BytesOf(SubSeq(chunks, 1, m + d)))

Growth == INSTANCE FoldLeftFacts WITH Op <- WithChunk, Good <- GrowsBy

LEMMA GrowsNext ==
  ASSUME NEW chunks, AreChunks(chunks), NEW n \in Nat, n + 1 <= Len(chunks)
  PROVE  Starts(BytesOf(SubSeq(chunks, 1, n)), BytesOf(SubSeq(chunks, 1, n + 1)))
<1> DEFINE front == SubSeq(chunks, 1, n)
           first == SubSeq(chunks, 1, n + 1)
           last  == chunks[n + 1]
<1>1. Len(chunks) \in Nat /\ DOMAIN chunks = 1..Len(chunks)
  BY SequenceIs DEF AreChunks
<1>2. n \in 0..Len(chunks) /\ n + 1 \in 0..Len(chunks) /\ n + 1 \in DOMAIN chunks
  BY <1>1
<1>3. DOMAIN front = 1..n /\ \A k \in 1..n : front[k] = chunks[k]
  BY <1>2, FirstOf DEF AreChunks
<1>4. DOMAIN first = 1..n + 1 /\ \A k \in 1..n + 1 : first[k] = chunks[k]
  BY <1>2, FirstOf DEF AreChunks
<1>5. AreChunks(front)
  BY <1>2, FirstChunks
<1> HIDE DEF front, first
<1>6. (\A k \in 1..n : front[k] = first[k]) /\ first[n + 1] = last
  BY <1>3, <1>4
<1>7. IsSequence(last)
  BY <1>2 DEF AreChunks, IsBytes
<1> HIDE DEF last
<1>8. BytesOf(first) = BytesOf(front) \o last
  <2>1. Flat!Fold(<<>>, first) = WithChunk(Flat!Fold(<<>>, front), first[n + 1])
    BY <1>3, <1>4, <1>6, Flat!FoldNext
  <2> QED  BY <1>6, <2>1, ChunksFolded DEF BytesOf, WithChunk
<1>9. IsSequence(BytesOf(front))
  BY <1>5, BytesOfChunks DEF IsBytes
<1>10. Starts(BytesOf(front), BytesOf(first))
  BY <1>7, <1>8, <1>9, StartsJoined
<1> QED  BY <1>10 DEF front, first

LEMMA Grows == \A d \in Nat : GrowsBy(d)
<1>1. GrowsBy(0)
  <2> SUFFICES ASSUME NEW chunks, AreChunks(chunks), NEW m \in Nat, m + 0 <= Len(chunks)
               PROVE  Starts(BytesOf(SubSeq(chunks, 1, m)), BytesOf(SubSeq(chunks, 1, m + 0)))
    BY DEF GrowsBy
  <2>1. m + 0 = m /\ Len(chunks) \in Nat
    BY SequenceIs DEF AreChunks
  <2>2. AreChunks(SubSeq(chunks, 1, m))
    BY <2>1, FirstChunks
  <2>3. IsSequence(BytesOf(SubSeq(chunks, 1, m)))
    BY <2>2, BytesOfChunks DEF IsBytes
  <2> QED  BY <2>1, <2>3, StartsItself
<1>2. ASSUME NEW d \in Nat, GrowsBy(d) PROVE GrowsBy(d + 1)
  <2> SUFFICES ASSUME NEW chunks, AreChunks(chunks), NEW m \in Nat, m + (d + 1) <= Len(chunks)
               PROVE  Starts(BytesOf(SubSeq(chunks, 1, m)), BytesOf(SubSeq(chunks, 1, m + (d + 1))))
    BY DEF GrowsBy
  <2>1. Len(chunks) \in Nat
    BY SequenceIs DEF AreChunks
  <2>2. m + (d + 1) = (m + d) + 1 /\ m + d \in Nat /\ m + d <= Len(chunks) /\ (m + d) + 1 <= Len(chunks)
    BY <2>1
  <2>3. Starts(BytesOf(SubSeq(chunks, 1, m)), BytesOf(SubSeq(chunks, 1, m + d)))
    BY <1>2, <2>2 DEF GrowsBy
  <2>4. Starts(BytesOf(SubSeq(chunks, 1, m + d)), BytesOf(SubSeq(chunks, 1, (m + d) + 1)))
    BY <2>2, GrowsNext
  <2>5. Starts(BytesOf(SubSeq(chunks, 1, m)), BytesOf(SubSeq(chunks, 1, (m + d) + 1)))
    BY <2>3, <2>4, StartsOn
  <2> QED  BY <2>2, <2>5
<1> QED  BY <1>1, <1>2, Growth!Induction

LEMMA LongerBody ==
  ASSUME NEW chunks, AreChunks(chunks), NEW n \in 0..Len(chunks), NEW m \in 0..n
  PROVE  /\ Starts(BytesOf(SubSeq(chunks, 1, m)), BytesOf(SubSeq(chunks, 1, n)))
         /\ WireLength(SubSeq(chunks, 1, m)) <= WireLength(SubSeq(chunks, 1, n))
         /\ WireLength(SubSeq(chunks, 1, m)) \in Nat /\ WireLength(SubSeq(chunks, 1, n)) \in Nat
<1>1. Len(chunks) \in Nat
  BY SequenceIs DEF AreChunks
<1>2. m \in Nat /\ n - m \in Nat /\ m + (n - m) = n /\ n <= Len(chunks)
  BY <1>1
<1>3. GrowsBy(n - m)
  BY <1>2, Grows
<1>4. Starts(BytesOf(SubSeq(chunks, 1, m)), BytesOf(SubSeq(chunks, 1, n)))
  BY <1>2, <1>3 DEF GrowsBy
<1> QED  BY <1>4, SequenceIs DEF Starts, WireLength

LEMMA BytesGrow ==
  ASSUME NEW s, NEW t, AreChunks(t), Starts(s, t)
  PROVE  Starts(BytesOf(s), BytesOf(t))
<1>1. s = SubSeq(t, 1, Len(s)) /\ Len(s) \in 0..Len(t)
  BY StartsIs
<1>2. t = SubSeq(t, 1, Len(t)) /\ Len(t) \in 0..Len(t)
  BY AllOf DEF AreChunks
<1>3. Starts(BytesOf(SubSeq(t, 1, Len(s))), BytesOf(SubSeq(t, 1, Len(t))))
  BY <1>1, <1>2, LongerBody
<1> QED  BY <1>1, <1>2, <1>3

-----------------------------------------------------------------------------
(* What the bytes decode to *)

PartsOf(bytes) == [k \in DOMAIN bytes |-> Yields[bytes[k]]]

LEMMA PartsAre ==
  ASSUME NEW bytes, IsBytes(bytes)
  PROVE  AreChunks(PartsOf(bytes)) /\ Len(PartsOf(bytes)) = Len(bytes)
<1> DEFINE parts == PartsOf(bytes)
<1>1. Len(bytes) \in Nat /\ DOMAIN bytes = 1..Len(bytes)
  BY SequenceIs DEF IsBytes
<1>2. parts = [k \in 1..Len(bytes) |-> Yields[bytes[k]]]
  BY <1>1 DEF PartsOf
<1>3. \A k \in 1..Len(bytes) : parts[k] = Yields[bytes[k]]
  BY <1>2
<1>4. parts = [k \in 1..Len(bytes) |-> parts[k]]
  BY <1>2
<1> HIDE DEF parts
<1>5. IsSequence(parts) /\ Len(parts) = Len(bytes)
  BY <1>1, <1>4, FunctionIsSequence
<1>6. \A byte \in DOMAIN Yields : IsBytes(Yields[byte])
  BY ByteAssumption DEF IsBytes, ToSet
<1>7. \A k \in DOMAIN parts : IsBytes(parts[k])
  BY <1>1, <1>3, <1>4, <1>6 DEF IsBytes
<1> QED  BY <1>5, <1>7 DEF AreChunks, parts

LEMMA StartOfBytes ==
  ASSUME NEW s, NEW t, IsBytes(t), Starts(s, t)
  PROVE  IsBytes(s)
<1>1. DOMAIN s = 1..Len(s) /\ DOMAIN t = 1..Len(t) /\ Len(s) \in Nat /\ Len(t) \in Nat
  BY SequenceIs DEF Starts
<1>2. \A k \in 1..Len(s) : k \in 1..Len(t) /\ s[k] = t[k]
  BY <1>1 DEF Starts
<1> QED  BY <1>1, <1>2 DEF IsBytes, Starts

LEMMA YieldedGrows ==
  ASSUME NEW s, NEW t, IsBytes(t), Starts(s, t)
  PROVE  IsBytes(Yielded(t)) /\ Starts(Yielded(s), Yielded(t))
<1>1. IsBytes(s)
  BY StartOfBytes
<1>2. /\ AreChunks(PartsOf(s)) /\ Len(PartsOf(s)) = Len(s)
      /\ AreChunks(PartsOf(t)) /\ Len(PartsOf(t)) = Len(t)
  BY <1>1, PartsAre
<1>3. /\ DOMAIN s = 1..Len(s) /\ DOMAIN t = 1..Len(t) /\ Len(s) \in Nat /\ Len(t) \in Nat
      /\ Len(s) <= Len(t) /\ \A k \in 1..Len(s) : t[k] = s[k]
  BY SequenceIs DEF Starts
<1>4. \A k \in 1..Len(s) : PartsOf(t)[k] = PartsOf(s)[k]
  <2>1. \A k \in 1..Len(s) : k \in DOMAIN s /\ k \in DOMAIN t
    BY <1>3
  <2> QED  BY <1>3, <2>1 DEF PartsOf
<1>5. Starts(PartsOf(s), PartsOf(t))
  BY <1>2, <1>3, <1>4 DEF Starts, AreChunks
<1>6. Starts(BytesOf(PartsOf(s)), BytesOf(PartsOf(t))) /\ IsBytes(BytesOf(PartsOf(t)))
  BY <1>2, <1>5, BytesGrow, BytesOfChunks
<1> QED  BY <1>6 DEF Yielded, PartsOf

\* A decoder fails at none of the first n bytes.
Intact(decoder, bytes, n) ==
    n \in 0..Len(bytes) /\ \A k \in 1..n : bytes[k] \notin Failing[decoder]

LEMMA FailureFound ==
  ASSUME NEW bytes, IsSequence(bytes), NEW decoder
  PROVE  LET failure == FirstFailure(decoder, bytes)
         IN \/ failure = 0 /\ Intact(decoder, bytes, Len(bytes))
            \/ /\ failure \in 1..Len(bytes) /\ Intact(decoder, bytes, failure - 1)
               /\ bytes[failure] \in Failing[decoder]
<1> DEFINE I == {k \in 1..Len(bytes) : bytes[k] \in Failing[decoder]}
           failure == FirstFailure(decoder, bytes)
<1>1. Len(bytes) \in Nat
  BY SequenceIs
<1>2. failure = IF I # {} THEN Min(I) ELSE 0
  BY DEF FirstFailure, SelectInSeq
<1>3. CASE I = {}
  BY <1>1, <1>2, <1>3 DEF Intact
<1>4. CASE I # {}
  <2>1. \E x \in I : \A y \in I : x <= y
    <3>1. I \subseteq Nat
      OBVIOUS
    <3> HIDE DEF I
    <3> QED  BY <1>4, <3>1, Fields!LeastOfNat
  <2>2. failure \in I /\ \A y \in I : failure <= y
    <3> HIDE DEF I, failure
    <3> QED  BY <1>2, <1>4, <2>1 DEF Min
  <2> HIDE DEF failure
  <2>3. failure \in 1..Len(bytes) /\ bytes[failure] \in Failing[decoder] /\ failure - 1 \in 0..Len(bytes)
    BY <1>1, <2>2
  <2>4. \A k \in 1..failure - 1 : k \in 1..Len(bytes) /\ k < failure
    BY <1>1, <2>3
  <2>5. \A k \in 1..failure - 1 : bytes[k] \notin Failing[decoder]
    BY <1>1, <2>2, <2>3, <2>4
  <2> QED  BY <2>3, <2>5 DEF Intact, failure
<1> QED  BY <1>3, <1>4

\* A decoder for the coding can read the first n bytes.
Legible(coding, bytes, n) == \E d \in DecodersFor(coding) : Intact(d, bytes, n)

LEMMA GreatestUpTo ==
  ASSUME NEW n \in Nat, NEW S \in SUBSET (0..n), S # {}
  PROVE  \E x \in S : \A y \in S : y <= x
<1> DEFINE T == {n - i : i \in S}
<1>1. T \subseteq Nat /\ T # {}
  <2>1. \A i \in S : n - i \in Nat
    OBVIOUS
  <2>2. PICK i \in S : TRUE
    OBVIOUS
  <2> QED  BY <2>1, <2>2
<1>2. PICK x \in T : \A y \in T : x <= y
  <2> HIDE DEF T
  <2> QED  BY <1>1, Fields!LeastOfNat
<1>3. PICK m \in S : x = n - m
  OBVIOUS
<1>4. \A j \in S : n - m <= n - j
  BY <1>2, <1>3
<1>5. \A j \in S : j \in 0..n
  OBVIOUS
<1>6. m \in Int /\ \A j \in S : j \in Int
  BY <1>5
<1> HIDE DEF T
<1> QED  BY <1>4, <1>6

LEMMA LegibleIs ==
  ASSUME NEW coding \in KnownCodings, NEW bytes, IsSequence(bytes)
  PROVE  /\ LegibleTo(bytes, coding) \in 0..Len(bytes)
         /\ Legible(coding, bytes, LegibleTo(bytes, coding))
         /\ \A n : Legible(coding, bytes, n) => n <= LegibleTo(bytes, coding)
<1> DEFINE legible == {n \in 0..Len(bytes) :
                          \E d \in DecodersFor(coding) : \A k \in 1..n : bytes[k] \notin Failing[d]}
           most == CHOOSE n \in legible : \A other \in legible : other <= n
<1>1. Len(bytes) \in Nat
  BY SequenceIs
<1>2. DecodersFor(coding) # {}
  BY DEF DecodersFor
<1>3. legible \in SUBSET (0..Len(bytes)) /\ 0 \in legible
  BY <1>1, <1>2
<1>4. \A n : n \in legible <=> Legible(coding, bytes, n)
  BY <1>1 DEF Legible, Intact
<1>5. LegibleTo(bytes, coding) = most
  BY DEF LegibleTo
<1>6. most \in legible /\ \A other \in legible : other <= most
  <2> HIDE DEF legible
  <2>1. \E x \in legible : \A y \in legible : y <= x
    BY <1>1, <1>3, GreatestUpTo
  <2> QED  BY <2>1
<1> HIDE DEF legible, most
<1> QED  BY <1>3, <1>4, <1>5, <1>6

LEMMA LegibleOn ==
  ASSUME NEW coding, NEW s, NEW t, Starts(s, t), NEW n, Legible(coding, s, n)
  PROVE  Legible(coding, t, n)
<1>1. PICK d \in DecodersFor(coding) : Intact(d, s, n)
  BY DEF Legible
<1>2. Len(s) \in Nat /\ Len(t) \in Nat /\ Len(s) <= Len(t)
  BY SequenceIs DEF Starts
<1>3. n \in 0..Len(t) /\ \A k \in 1..n : k \in 1..Len(s)
  BY <1>1, <1>2 DEF Intact
<1>4. Intact(d, t, n)
  BY <1>1, <1>3 DEF Intact, Starts
<1> QED  BY <1>4 DEF Legible

\* What undoing a coding comes to: the yield of legible bytes, of all if they are.
Comes(coding, bytes, result) ==
    /\ \E n : Legible(coding, bytes, n) /\ result = Yielded(SubSeq(bytes, 1, n))
    /\ Legible(coding, bytes, Len(bytes)) => result = Yielded(bytes)

LEMMA YieldedNothing ==
  ASSUME NEW bytes, IsBytes(bytes)
  PROVE  SubSeq(bytes, 1, 0) = <<>> /\ Yielded(<<>>) = <<>>
<1>1. SubSeq(bytes, 1, 0) = <<>>
  BY AllOf, FirstOf, EmptySequence DEF IsBytes, IsSequence
<1>2. DOMAIN [k \in DOMAIN <<>> |-> Yields[<<>>[k]]] = {}
  BY EmptySequence
<1>3. Yielded(<<>>) = <<>>
  BY <1>2, ChunksFolded, Flat!FoldEmpty DEF Yielded, BytesOf
<1> QED  BY <1>1, <1>3

LEMMA InflatedIs ==
  ASSUME NEW bytes, IsBytes(bytes), NEW d
  PROVE  /\ Intact(d, bytes, Len(bytes)) => Inflated(d, bytes) = Yielded(bytes)
         /\ ~Intact(d, bytes, Len(bytes)) => Inflated(d, bytes) = <<>>
<1>1. Len(bytes) \in Nat
  BY SequenceIs DEF IsBytes
<1>2. FirstFailure(d, bytes) = 0 <=> Intact(d, bytes, Len(bytes))
  <2> DEFINE failure == FirstFailure(d, bytes)
  <2>1. \/ failure = 0 /\ Intact(d, bytes, Len(bytes))
        \/ failure \in 1..Len(bytes) /\ bytes[failure] \in Failing[d]
    BY FailureFound DEF IsBytes
  <2> HIDE DEF failure
  <2>2. failure = 0 <=> Intact(d, bytes, Len(bytes))
    BY <1>1, <2>1 DEF Intact
  <2> QED  BY <2>2 DEF failure
<1> QED  BY <1>2 DEF Inflated

LEMMA InflatedComes ==
  ASSUME NEW bytes, IsBytes(bytes), NEW coding, NEW d, DecodersFor(coding) = {d}
  PROVE  Comes(coding, bytes, Inflated(d, bytes))
<1>1. \A n : Legible(coding, bytes, n) <=> Intact(d, bytes, n)
  BY DEF Legible
<1>2. Intact(d, bytes, 0) /\ SubSeq(bytes, 1, Len(bytes)) = bytes
  BY AllOf DEF Intact, IsBytes
<1>3. SubSeq(bytes, 1, 0) = <<>> /\ Yielded(<<>>) = <<>>
  BY YieldedNothing
<1>4. CASE Intact(d, bytes, Len(bytes))
  BY <1>1, <1>2, <1>4, InflatedIs DEF Comes
<1>5. CASE ~Intact(d, bytes, Len(bytes))
  BY <1>1, <1>2, <1>3, <1>5, InflatedIs DEF Comes
<1> QED  BY <1>4, <1>5

LEMMA DeflatedComes ==
  ASSUME NEW bytes, IsBytes(bytes)
  PROVE  Comes("deflate", bytes, Deflated(bytes))
<1> DEFINE zlib == Inflated("zlib", bytes)
           raw  == Inflated("raw", bytes)
           all  == Yielded(bytes)
<1>1. \A n : Legible("deflate", bytes, n) <=> Intact("zlib", bytes, n) \/ Intact("raw", bytes, n)
  BY DEF Legible, DecodersFor
<1>2. Intact("zlib", bytes, 0) /\ SubSeq(bytes, 1, Len(bytes)) = bytes
  BY AllOf DEF Intact, IsBytes
<1>3. SubSeq(bytes, 1, 0) = <<>> /\ Yielded(<<>>) = <<>>
  BY YieldedNothing
<1>4. /\ zlib = IF Intact("zlib", bytes, Len(bytes)) THEN all ELSE <<>>
      /\ raw = IF Intact("raw", bytes, Len(bytes)) THEN all ELSE <<>>
  BY InflatedIs
<1>5. Deflated(bytes) = IF zlib # <<>> THEN zlib ELSE raw
  BY DEF Deflated
<1> HIDE DEF zlib, raw, all
<1>6. Legible("deflate", bytes, Len(bytes)) => Deflated(bytes) = all
  BY <1>1, <1>4, <1>5
<1>7. ~Legible("deflate", bytes, Len(bytes)) => Deflated(bytes) = <<>>
  BY <1>1, <1>4, <1>5
<1>8. Legible("deflate", bytes, 0)
  BY <1>1, <1>2
<1> QED  BY <1>2, <1>3, <1>6, <1>7, <1>8 DEF Comes, all

LEMMA PiecedComes ==
  ASSUME NEW bytes, IsBytes(bytes), NEW coding \in {"br", "zstd"}
  PROVE  Comes(coding, bytes, Pieced(coding, bytes))
<1> DEFINE failure == FirstFailure(coding, bytes)
           intact  == IF failure = 0 THEN Len(bytes) ELSE ((failure - 1) \div Piece) * Piece
<1>1. \A n : Legible(coding, bytes, n) <=> Intact(coding, bytes, n)
  BY DEF Legible, DecodersFor
<1>2. Len(bytes) \in Nat /\ SubSeq(bytes, 1, Len(bytes)) = bytes
  BY AllOf, SequenceIs DEF IsBytes
<1>3. Pieced(coding, bytes) = Yielded(SubSeq(bytes, 1, intact))
  BY DEF Pieced
<1>4. \/ failure = 0 /\ Intact(coding, bytes, Len(bytes))
      \/ /\ failure \in 1..Len(bytes) /\ Intact(coding, bytes, failure - 1)
         /\ bytes[failure] \in Failing[coding]
  BY FailureFound DEF IsBytes
<1> HIDE DEF failure
<1>5. CASE failure = 0
  <2>1. intact = Len(bytes)
    BY <1>5
  <2>2. Legible(coding, bytes, Len(bytes))
    BY <1>1, <1>2, <1>4, <1>5
  <2>3. Pieced(coding, bytes) = Yielded(SubSeq(bytes, 1, Len(bytes)))
    BY <1>3, <2>1
  <2> QED  BY <1>2, <2>2, <2>3 DEF Comes
<1>6. CASE failure # 0
  <2>1. failure \in 1..Len(bytes) /\ Intact(coding, bytes, failure - 1) /\ bytes[failure] \in Failing[coding]
    BY <1>4, <1>6
  <2>2. intact \in 0..failure - 1
    <3> DEFINE n == failure - 1
               q == n \div Piece
    <3>1. n \in Nat /\ Piece \in Nat /\ Piece > 0
      BY <1>2, <2>1, ByteAssumption
    <3>2. intact = q * Piece
      BY <1>6
    <3> HIDE DEF n
    <3>3. q \in Nat /\ Piece * q <= n
      BY <3>1, SMT
    <3> HIDE DEF q, intact
    <3>4. q * Piece = Piece * q /\ q * Piece \in Nat
      BY <3>1, <3>3, SMT
    <3>5. intact \in Nat /\ intact <= n
      BY <3>2, <3>3, <3>4
    <3> QED  BY <3>1, <3>5 DEF n
  <2> HIDE DEF intact
  <2>3. intact \in 0..Len(bytes) /\ \A k \in 1..intact : k \in 1..failure - 1
    BY <1>2, <2>1, <2>2
  <2>4. Intact(coding, bytes, intact)
    BY <2>1, <2>3 DEF Intact
  <2>5. ~Intact(coding, bytes, Len(bytes))
    BY <2>1 DEF Intact
  <2> QED  BY <1>1, <1>3, <2>4, <2>5 DEF Comes
<1> QED  BY <1>5, <1>6

LEMMA UndoneComes ==
  ASSUME NEW bytes, IsBytes(bytes), NEW coding \in KnownCodings \ NoCoding
  PROVE  Comes(coding, bytes, Undone(bytes, coding))
<1>1. CASE coding \in {"gzip", "x-gzip"}
  <2>1. DecodersFor(coding) = {"gzip"} /\ Undone(bytes, coding) = Inflated("gzip", bytes)
    BY <1>1 DEF DecodersFor, Undone, NoCoding
  <2> QED  BY <2>1, InflatedComes
<1>2. CASE coding = "deflate"
  <2>1. Undone(bytes, coding) = Deflated(bytes)
    BY <1>2 DEF Undone, NoCoding
  <2> QED  BY <1>2, <2>1, DeflatedComes
<1>3. CASE coding \in {"br", "zstd"}
  <2>1. Undone(bytes, coding) = Pieced(coding, bytes)
    BY <1>3 DEF Undone, NoCoding
  <2> QED  BY <1>3, <2>1, PiecedComes
<1> QED  BY <1>1, <1>2, <1>3 DEF KnownCodings, NoCoding

\* Text that was decoded of a beginning, what can be read of it, and what can be
\* read of more: each is how the last begins, and the first two are the same when
\* there is no damage.
Follows(decoded, part, more) ==
    /\ IsBytes(decoded) /\ IsBytes(part.text) /\ IsBytes(more.text)
    /\ Starts(decoded, more.text) /\ Starts(part.text, more.text)
    /\ part.undamaged => decoded = part.text

LEMMA ReadIs ==
  ASSUME NEW coding \in KnownCodings \ NoCoding, NEW reading
  PROVE  /\ Read(reading, coding).text = Yielded(SubSeq(reading.text, 1, LegibleTo(reading.text, coding)))
         /\ Read(reading, coding).undamaged =
                (reading.undamaged /\ LegibleTo(reading.text, coding) = Len(reading.text))
  BY DEF Read

\* Whatever legible bytes of a beginning yield, the whole yields first.
LEMMA ReadBegins ==
  ASSUME NEW coding \in KnownCodings \ NoCoding, NEW s, NEW t, IsBytes(t), Starts(s, t),
         NEW n, Legible(coding, s, n)
  PROVE  LET whole == Yielded(SubSeq(t, 1, LegibleTo(t, coding)))
             part  == Yielded(SubSeq(s, 1, n))
         IN IsBytes(whole) /\ IsBytes(part) /\ Starts(part, whole)
<1> DEFINE most == LegibleTo(t, coding)
<1>1. Legible(coding, t, n) /\ IsSequence(t)
  BY LegibleOn DEF IsBytes
<1>2. most \in 0..Len(t) /\ n <= most
  BY <1>1, LegibleIs
<1>3. n \in 0..Len(s)
  BY DEF Legible, Intact
<1> HIDE DEF most
<1>4. Starts(SubSeq(s, 1, n), SubSeq(t, 1, most))
  BY <1>2, <1>3, StartsFirst
<1>5. IsBytes(SubSeq(t, 1, most))
  <2>1. Len(t) \in 0..Len(t) /\ SubSeq(t, 1, Len(t)) = t /\ Starts(t, t) /\ most <= Len(t)
    BY <1>1, <1>2, AllOf, StartsItself, SequenceIs
  <2>2. Starts(SubSeq(t, 1, most), SubSeq(t, 1, Len(t)))
    BY <1>2, <2>1, StartsFirst
  <2> QED  BY <2>1, <2>2, StartOfBytes
<1>6. IsBytes(SubSeq(s, 1, n))
  BY <1>4, <1>5, StartOfBytes
<1>7. Starts(SubSeq(s, 1, n), SubSeq(s, 1, n))
  BY <1>4, StartsItself DEF Starts
<1> QED  BY <1>4, <1>5, <1>6, <1>7, YieldedGrows DEF most

LEMMA FollowsOn ==
  ASSUME NEW coding \in KnownCodings, NEW decoded, NEW part, NEW more, Follows(decoded, part, more)
  PROVE  Follows(Undone(decoded, coding), Read(part, coding), Read(more, coding))
<1>1. CASE coding \in NoCoding
  <2>1. Undone(decoded, coding) = decoded /\ Read(part, coding) = part /\ Read(more, coding) = more
    BY <1>1 DEF Undone, Read, KnownCodings, NoCoding
  <2> QED  BY <2>1
<1>2. CASE coding \notin NoCoding
  <2> DEFINE undone == Undone(decoded, coding)
             upto   == LegibleTo(part.text, coding)
  <2>1. coding \in KnownCodings \ NoCoding
    BY <1>2
  <2>2. /\ IsBytes(decoded) /\ IsBytes(part.text) /\ IsBytes(more.text)
        /\ Starts(decoded, more.text) /\ Starts(part.text, more.text)
    BY DEF Follows
  <2>3. Comes(coding, decoded, undone)
    BY <2>1, <2>2, UndoneComes
  <2>4. PICK n : Legible(coding, decoded, n) /\ undone = Yielded(SubSeq(decoded, 1, n))
    BY <2>3 DEF Comes
  <2>5. upto \in 0..Len(part.text) /\ Legible(coding, part.text, upto)
    BY <2>2, LegibleIs DEF IsBytes
  <2>6. /\ IsBytes(undone) /\ IsBytes(Read(more, coding).text)
        /\ Starts(undone, Read(more, coding).text)
    BY <2>1, <2>2, <2>4, ReadBegins, ReadIs
  <2>7. IsBytes(Read(part, coding).text) /\ Starts(Read(part, coding).text, Read(more, coding).text)
    BY <2>1, <2>2, <2>5, ReadBegins, ReadIs
  <2>8. ASSUME Read(part, coding).undamaged PROVE undone = Read(part, coding).text
    <3>1. part.undamaged /\ upto = Len(part.text)
      BY <2>1, <2>8, ReadIs
    <3>2. decoded = part.text
      BY <3>1 DEF Follows
    <3>3. undone = Yielded(decoded)
      BY <2>3, <2>5, <3>1, <3>2 DEF Comes
    <3>4. Read(part, coding).text = Yielded(SubSeq(part.text, 1, Len(part.text)))
      BY <2>1, <3>1, ReadIs
    <3>5. SubSeq(part.text, 1, Len(part.text)) = part.text
      BY <2>2, AllOf DEF IsBytes
    <3> QED  BY <3>2, <3>3, <3>4, <3>5
  <2> QED  BY <2>6, <2>7, <2>8 DEF Follows
<1> QED  BY <1>1, <1>2

\* It stays so when n codings are undone, one after the other.
FollowsAlong(n) ==
    \A codings : DOMAIN codings = 1..n /\ (\A k \in 1..n : codings[k] \in KnownCodings) =>
        \A decoded, part, more : Follows(decoded, part, more) =>
            Follows(FoldLeft(Undone, decoded, codings), FoldLeft(Read, part, codings),
                    FoldLeft(Read, more, codings))

Undoing == INSTANCE FoldLeftFacts WITH Op <- Undone, Good <- FollowsAlong
Readings == INSTANCE FoldLeftFacts WITH Op <- Read, Good <- FollowsAlong

LEMMA UndoingFolded ==
  ASSUME NEW bytes, NEW codings
  PROVE  FoldLeft(Undone, bytes, codings) = Undoing!Fold(bytes, codings)
  BY DEF Undoing!Fold, Undoing!FoldLeft, Undoing!MapThenFoldSet, Undoing!Max, FoldLeft,
         MapThenFoldSet, Max

LEMMA ReadingsFolded ==
  ASSUME NEW reading, NEW codings
  PROVE  FoldLeft(Read, reading, codings) = Readings!Fold(reading, codings)
  BY DEF Readings!Fold, Readings!FoldLeft, Readings!MapThenFoldSet, Readings!Max, FoldLeft,
         MapThenFoldSet, Max

LEMMA NothingUndone ==
  ASSUME NEW codings, DOMAIN codings = {}
  PROVE  /\ \A bytes : FoldLeft(Undone, bytes, codings) = bytes
         /\ \A reading : FoldLeft(Read, reading, codings) = reading
<1>1. \A bytes : Undoing!Fold(bytes, codings) = bytes
  BY Undoing!FoldEmpty
<1>2. \A reading : Readings!Fold(reading, codings) = reading
  BY Readings!FoldEmpty
<1> QED  BY <1>1, <1>2, UndoingFolded, ReadingsFolded

LEMMA OneMoreUndone ==
  ASSUME NEW n \in Nat, NEW codings, DOMAIN codings = 1..n + 1,
         NEW front, DOMAIN front = 1..n, \A k \in 1..n : front[k] = codings[k]
  PROVE  /\ \A bytes : FoldLeft(Undone, bytes, codings) =
                           Undone(FoldLeft(Undone, bytes, front), codings[n + 1])
         /\ \A reading : FoldLeft(Read, reading, codings) =
                             Read(FoldLeft(Read, reading, front), codings[n + 1])
<1>1. \A bytes : Undoing!Fold(bytes, codings) = Undone(Undoing!Fold(bytes, front), codings[n + 1])
  BY Undoing!FoldNext
<1>2. \A reading : Readings!Fold(reading, codings) = Read(Readings!Fold(reading, front), codings[n + 1])
  BY Readings!FoldNext
<1>3. \A bytes : FoldLeft(Undone, bytes, codings) =
                     Undone(FoldLeft(Undone, bytes, front), codings[n + 1])
  BY <1>1, UndoingFolded
<1>4. \A reading : FoldLeft(Read, reading, codings) =
                       Read(FoldLeft(Read, reading, front), codings[n + 1])
  BY <1>2, ReadingsFolded
<1> QED  BY <1>3, <1>4

LEMMA AllFollow == \A n \in Nat : FollowsAlong(n)
<1>1. FollowsAlong(0)
  <2>1. 1..0 = {}
    OBVIOUS
  <2> QED  BY <2>1, NothingUndone DEF FollowsAlong
<1>2. ASSUME NEW n \in Nat, FollowsAlong(n) PROVE FollowsAlong(n + 1)
  <2> SUFFICES ASSUME NEW codings, DOMAIN codings = 1..n + 1,
                      \A k \in 1..n + 1 : codings[k] \in KnownCodings,
                      NEW decoded, NEW part, NEW more, Follows(decoded, part, more)
               PROVE  Follows(FoldLeft(Undone, decoded, codings), FoldLeft(Read, part, codings),
                              FoldLeft(Read, more, codings))
    BY DEF FollowsAlong
  <2> DEFINE front == [k \in 1..n |-> codings[k]]
  <2>1. DOMAIN front = 1..n /\ \A k \in 1..n : front[k] = codings[k] /\ k \in 1..n + 1
    OBVIOUS
  <2> HIDE DEF front
  <2>2. n + 1 \in 1..n + 1 /\ \A k \in 1..n : front[k] \in KnownCodings
    BY <2>1
  <2>3. Follows(FoldLeft(Undone, decoded, front), FoldLeft(Read, part, front), FoldLeft(Read, more, front))
    BY <1>2, <2>1, <2>2 DEF FollowsAlong
  <2>4. /\ FoldLeft(Undone, decoded, codings) = Undone(FoldLeft(Undone, decoded, front), codings[n + 1])
        /\ FoldLeft(Read, part, codings) = Read(FoldLeft(Read, part, front), codings[n + 1])
        /\ FoldLeft(Read, more, codings) = Read(FoldLeft(Read, more, front), codings[n + 1])
    BY <2>1, OneMoreUndone
  <2>5. codings[n + 1] \in KnownCodings
    BY <2>2
  <2> QED  BY <2>3, <2>4, <2>5, FollowsOn
<1> QED  BY <1>1, <1>2, Undoing!Induction

\* What is decoded of the first chunks of a body, and what can be read of them, is
\* how anything that can be read of more chunks begins.
LEMMA DecodedFollows ==
  ASSUME NEW reply \in Replies, NEW chunks, Decoded(reply.encoding, chunks) # Invalid,
         NEW n \in 0..Len(reply.chunks), NEW m \in 0..n
  PROVE  Follows(Decoded(reply.encoding, Begun(reply, m)), Reading(reply, Begun(reply, m)),
                 Reading(reply, Begun(reply, n)))
<1> DEFINE codings == Reverse(reply.encoding)
           bytes(k) == BytesOf(Begun(reply, k))
           start(k) == [text |-> bytes(k), undamaged |-> TRUE]
<1>1. AreChunks(reply.chunks) /\ IsSequence(reply.encoding) /\ Len(reply.chunks) \in Nat
  BY RepliesHaveChunks, SequenceIs DEF AreChunks
<1>2. ToSet(reply.encoding) \subseteq KnownCodings
  BY DEF Decoded
<1>3. Decoded(reply.encoding, Begun(reply, m)) = FoldLeft(Undone, bytes(m), codings)
  BY <1>2 DEF Decoded
<1>4. \A k : Reading(reply, Begun(reply, k)) = FoldLeft(Read, start(k), codings)
  BY DEF Reading
<1>5. DOMAIN codings = 1..Len(reply.encoding) /\ Len(reply.encoding) \in Nat
  BY <1>1, SequenceIs DEF Reverse
<1>6. \A k \in 1..Len(reply.encoding) : codings[k] \in KnownCodings
  <2> SUFFICES ASSUME NEW k \in 1..Len(reply.encoding) PROVE codings[k] \in KnownCodings
    OBVIOUS
  <2>1. (Len(reply.encoding) - k) + 1 \in DOMAIN reply.encoding
    BY <1>1, SequenceIs
  <2>2. codings[k] = reply.encoding[(Len(reply.encoding) - k) + 1]
    BY DEF Reverse
  <2> QED  BY <1>2, <2>1, <2>2 DEF ToSet
<1>7. Follows(bytes(m), start(m), start(n))
  <2>1. m \in 0..Len(reply.chunks)
    BY <1>1
  <2>2. AreChunks(Begun(reply, m)) /\ AreChunks(Begun(reply, n))
    BY <1>1, <2>1, FirstChunks DEF Begun
  <2>3. IsBytes(bytes(m)) /\ IsBytes(bytes(n))
    BY <2>2, BytesOfChunks
  <2>4. Starts(bytes(m), bytes(n))
    BY <1>1, LongerBody DEF Begun
  <2>5. start(m).text = bytes(m) /\ start(n).text = bytes(n)
    OBVIOUS
  <2> HIDE DEF start, bytes
  <2> QED  BY <2>3, <2>4, <2>5 DEF Follows
<1>8. FollowsAlong(Len(reply.encoding))
  BY <1>5, AllFollow
<1> HIDE DEF codings, bytes, start
<1> QED  BY <1>3, <1>4, <1>5, <1>6, <1>7, <1>8 DEF FollowsAlong

LEMMA EmptyChunks ==
  ASSUME NEW chunks, AreChunks(chunks)
  PROVE  SubSeq(chunks, 1, 0) = <<>> /\ 0 \in 0..Len(chunks)
<1>1. Len(chunks) \in Nat
  BY SequenceIs DEF AreChunks
<1>2. IsSequence(SubSeq(chunks, 1, 0)) /\ Len(SubSeq(chunks, 1, 0)) = 0
  BY <1>1, FirstOf DEF AreChunks
<1> QED  BY <1>1, <1>2 DEF IsSequence

LEMMA FetchedReceived ==
  ASSUME NEW n, NEW task, NEW reply \in Replies, NEW got, NEW fragment,
         Fetched(n, task, reply, got, fragment)
  PROVE  \E m \in 0..Len(reply.chunks) : fragment = Begun(reply, m)
<1>1. AreChunks(reply.chunks) /\ Len(reply.chunks) \in Nat
  BY RepliesHaveChunks, SequenceIs DEF AreChunks
<1>2. reply.chunks = Begun(reply, Len(reply.chunks)) /\ Len(reply.chunks) \in 0..Len(reply.chunks)
  BY <1>1, AllOf DEF Begun, AreChunks
<1>3. <<>> = Begun(reply, 0) /\ 0 \in 0..Len(reply.chunks)
  BY <1>1, EmptyChunks DEF Begun
<1>4. \A m \in 1..Len(reply.chunks) : m \in 0..Len(reply.chunks)
  BY <1>1
<1> QED  BY <1>2, <1>3, <1>4 DEF Fetched

\* What was received decodes to how the readable body begins.
LEMMA FragmentStarts ==
  ASSUME NEW reply \in Replies, NEW m \in 0..Len(reply.chunks),
         Decoded(reply.encoding, Begun(reply, m)) # Invalid
  PROVE  Starts(Decoded(reply.encoding, Begun(reply, m)), Reading(reply, reply.chunks).text)
<1>1. IsSequence(reply.chunks)
  BY RepliesHaveChunks DEF AreChunks
<1>2. Begun(reply, Len(reply.chunks)) = reply.chunks /\ Len(reply.chunks) \in 0..Len(reply.chunks)
  BY <1>1, AllOf DEF Begun
<1> QED  BY <1>2, DecodedFollows DEF Follows

-----------------------------------------------------------------------------
(* Needles *)

LEMMA OccursSpells ==
  ASSUME NEW text, IsSequence(text), NEW needle, Spelling[needle] # <<>>, Occurs(needle, text)
  PROVE  Spells(text, needle) /\ IsSequence(Spelling[needle])
<1> DEFINE word == Spelling[needle]
<1>1. Len(text) \in Nat /\ DOMAIN text = 1..Len(text)
  BY SequenceIs
<1>2. PICK i \in 0..Len(text), j \in 0..Len(text) : word = SubSeq(text, i + 1, j)
  BY DEF Occurs, SubSeqs
<1>3. i < j
  <2> SUFFICES ASSUME j <= i PROVE FALSE
    BY <1>1, <1>2
  <2>1. SubSeq(text, i + 1, j) = <<>>
    BY <1>1, <1>2 DEF IsSequence
  <2> QED  BY <1>2, <2>1
<1>4. i + 1 \in 1..Len(text) + 1 /\ j \in (i + 1) - 1..Len(text) /\ i + 1 \in DOMAIN text
  BY <1>1, <1>2, <1>3
<1>5. word = [k \in 1..j - (i + 1) + 1 |-> text[(i + 1) + k - 1]] /\ Len(word) = j - (i + 1) + 1
  BY <1>2, <1>4, SubSequence
<1>6. Len(word) \in Nat /\ (i + 1) + Len(word) - 1 = j
  BY <1>1, <1>4, <1>5
<1> HIDE DEF word
<1>7. IsSequence(word)
  <2>1. word = [k \in 1..Len(word) |-> word[k]]
    BY <1>5
  <2> QED  BY <1>6, <2>1, FunctionIsSequence
<1>8. (i + 1) + Len(word) - 1 <= Len(text) /\ SubSeq(text, i + 1, (i + 1) + Len(word) - 1) = word
  BY <1>1, <1>2, <1>6
<1> QED  BY <1>4, <1>7, <1>8 DEF Spells, word

LEMMA SpellsOccurs ==
  ASSUME NEW text, IsSequence(text), NEW needle, IsSequence(Spelling[needle]), Spells(text, needle)
  PROVE  Occurs(needle, text)
<1> DEFINE word == Spelling[needle]
<1>1. Len(text) \in Nat /\ DOMAIN text = 1..Len(text) /\ Len(word) \in Nat
  BY SequenceIs
<1>2. PICK n \in DOMAIN text : /\ n + Len(word) - 1 <= Len(text)
                              /\ SubSeq(text, n, n + Len(word) - 1) = word
  BY DEF Spells
<1> HIDE DEF word
<1>3. n - 1 \in 0..Len(text) /\ n + Len(word) - 1 \in 0..Len(text) /\ (n - 1) + 1 = n
  BY <1>1, <1>2
<1>4. word = SubSeq(text, (n - 1) + 1, n + Len(word) - 1)
  BY <1>2, <1>3
<1>5. word \in SubSeqs(text)
  <2> DEFINE i == n - 1
             j == n + Len(word) - 1
  <2>1. i \in 0..Len(text) /\ j \in 0..Len(text) /\ word = SubSeq(text, i + 1, j)
    BY <1>3, <1>4
  <2> HIDE DEF i, j
  <2> QED  BY <2>1 DEF SubSeqs
<1> QED  BY <1>5 DEF Occurs, word

LEMMA SpellsOn ==
  ASSUME NEW text, NEW longer, Starts(text, longer),
         NEW needle, IsSequence(Spelling[needle]), Spells(text, needle)
  PROVE  Spells(longer, needle)
<1> DEFINE word == Spelling[needle]
<1>1. /\ IsSequence(text) /\ Len(text) \in Nat /\ DOMAIN text = 1..Len(text)
      /\ IsSequence(longer) /\ Len(longer) \in Nat /\ DOMAIN longer = 1..Len(longer)
      /\ Len(text) <= Len(longer) /\ Len(word) \in Nat
  BY SequenceIs DEF Starts
<1>2. PICK n \in DOMAIN text : /\ n + Len(word) - 1 <= Len(text)
                              /\ SubSeq(text, n, n + Len(word) - 1) = word
  BY DEF Spells
<1> HIDE DEF word
<1> DEFINE e == n + Len(word) - 1
<1>3. n \in 1..Len(text) + 1 /\ e \in n - 1..Len(text)
  BY <1>1, <1>2
<1>4. n \in 1..Len(longer) + 1 /\ e \in n - 1..Len(longer) /\ n \in DOMAIN longer /\ e <= Len(longer)
  BY <1>1, <1>2
<1> HIDE DEF e
<1>5. \A k \in 1..e - n + 1 : n + k - 1 \in 1..Len(text)
  <2>1. n \in Int /\ e \in Int /\ 1 <= n /\ e <= Len(text)
    BY <1>1, <1>3
  <2> QED  BY <1>1, <2>1
<1>6. SubSeq(text, n, e) = [k \in 1..e - n + 1 |-> text[n + k - 1]]
  BY <1>1, <1>3, SubSequence
<1>7. SubSeq(longer, n, e) = [k \in 1..e - n + 1 |-> longer[n + k - 1]]
  BY <1>1, <1>4, SubSequence
<1>8. \A k \in 1..e - n + 1 : longer[n + k - 1] = text[n + k - 1]
  BY <1>5 DEF Starts
<1>9. SubSeq(longer, n, e) = SubSeq(text, n, e)
  BY <1>6, <1>7, <1>8
<1> QED  BY <1>2, <1>4, <1>9 DEF Spells, word, e

-----------------------------------------------------------------------------
(* What a task's settings are *)

LEMMA CutSettings ==
  ASSUME NEW n \in DOMAIN Campaigns, NEW task, task.request \in PreparedOf(n)
  PROVE  /\ Threshold(n, task) # Unset => Threshold(n, task) \in Int /\ Threshold(n, task) >= 1
         /\ ResolvedOf(n, task).overrides["cut_on"] \in CutOnValues
<1> DEFINE r == task.request
           o == ResolvedOf(n, task).overrides
           d == Config(n).defaults
<1>1. IsRequest(r) /\ ValidRequest(r)
  BY PreparedRequest
<1>2. ValidConfig(Config(n)) /\ d["stream_cut"] \in Int \cup {Unset}
  BY CampaignAssumption
<1>3. {"stream_cut", "cut_on"} \subseteq Overrides /\ {"stream_cut", "cut_on"} \subseteq Inherited
  BY DEF Inherited, Overrides, StrFields, IntFields
<1>4. \A s \in {"stream_cut", "cut_on"} : o[s] = IF r.overrides[s] = Unset THEN d[s] ELSE r.overrides[s]
  BY <1>1, <1>3, EffectiveIs DEF ResolvedOf
<1>5. r.overrides["stream_cut"] \in Int \cup {Unset} /\ r.overrides["cut_on"] \in CutOnValues \cup {Unset}
  BY <1>1 DEF IsRequest, ValidRequest
<1>6. d["cut_on"] \in CutOnValues
  BY <1>2 DEF ValidConfig
<1>7. AtLeast(1, r.overrides["stream_cut"]) /\ AtLeast(1, d["stream_cut"])
  BY <1>1, <1>2 DEF ValidRequest, ValidConfig
<1> HIDE DEF o, r, d
<1>8. /\ o["stream_cut"] # Unset => o["stream_cut"] \in Int /\ AtLeast(1, o["stream_cut"])
      /\ o["cut_on"] \in CutOnValues
  BY <1>2, <1>4, <1>5, <1>6, <1>7
<1>9. o["stream_cut"] # Unset => o["stream_cut"] >= 1
  BY <1>8 DEF AtLeast
<1> QED  BY <1>8, <1>9 DEF Threshold, o

LEMMA TaskRequest ==
  ASSUME NEW n \in DOMAIN Campaigns, NEW task, task.request \in PreparedOf(n)
  PROVE  /\ ResolvedOf(n, task).needles = task.request.needles
         /\ ResolvedOf(n, task).expected = task.request.expected
<1>1. IsRequest(task.request)
  BY PreparedRequest
<1>2. \A f \in RequestFields \ {"overrides"} : ResolvedOf(n, task)[f] = task.request[f]
  BY <1>1, EffectiveIs DEF ResolvedOf
<1> QED  BY <1>2 DEF RequestFields

\* As long as a transfer goes on the threshold has not been reached.
LEMMA BelowThreshold ==
  ASSUME NEW n \in DOMAIN Campaigns, NEW task, task.request \in PreparedOf(n),
         Threshold(n, task) # Unset, NEW reply \in Replies, NEW m \in 0..Len(reply.chunks),
         GoesOn(n, task, reply, m)
  PROVE  IF ResolvedOf(n, task).overrides["cut_on"] = "wire"
         THEN WireLength(Begun(reply, m)) < Threshold(n, task)
         ELSE Reading(reply, Begun(reply, m)).undamaged =>
                  Len(Reading(reply, Begun(reply, m)).text) < Threshold(n, task)
<1> DEFINE begun  == Begun(reply, m)
           cut    == Threshold(n, task)
           on     == ResolvedOf(n, task).overrides["cut_on"]
           length == Len(Decoded(reply.encoding, begun))
<1>1. cut \in Int /\ on \in {"wire", "decoded"}
  BY CutSettings DEF CutOnValues
<1>2. IF on = "decoded" THEN Decoded(reply.encoding, begun) # Invalid /\ ~(length >= cut)
                        ELSE ~(WireLength(begun) >= cut)
  <2>1. ResolvedOf(n, task).overrides["stream_cut"] = cut
    BY DEF Threshold
  <2> QED  BY <2>1 DEF GoesOn, Enough, Reached
<1>3. AreChunks(reply.chunks)
  BY RepliesHaveChunks
<1>4. AreChunks(begun)
  BY <1>3, FirstChunks DEF Begun
<1>5. CASE on = "wire"
  <2>1. WireLength(begun) \in Nat
    BY <1>4, BytesOfChunks, SequenceIs DEF IsBytes, WireLength
  <2>2. WireLength(begun) < cut
    <3> HIDE DEF begun, cut, on
    <3> QED  BY <1>1, <1>2, <1>5, <2>1
  <2> QED  BY <1>5, <2>2
<1>6. CASE on = "decoded"
  <2>1. Decoded(reply.encoding, begun) # Invalid /\ ~(length >= cut)
    BY <1>2, <1>6
  <2>2. m \in 0..m
    BY <1>3, SequenceIs DEF AreChunks
  <2>3. Follows(Decoded(reply.encoding, begun), Reading(reply, begun), Reading(reply, begun))
    BY <2>1, <2>2, DecodedFollows
  <2>4. length \in Nat
    BY <2>3, SequenceIs DEF Follows, IsBytes
  <2>5. length < cut
    <3> HIDE DEF begun, cut, on, length
    <3> QED  BY <1>1, <2>1, <2>4
  <2>6. Reading(reply, begun).undamaged => Decoded(reply.encoding, begun) = Reading(reply, begun).text
    BY <2>3 DEF Follows
  <2> QED  BY <1>6, <2>5, <2>6
<1> QED  BY <1>1, <1>5, <1>6

\* "reads until a byte threshold and then aborts" (NoOverread): a transfer reads no
\* chunk once those before it have enough bytes, or decode without damage to enough
\* text, however the chunks come and whatever codings they have.
THEOREM NeverOverread == Spec => []NoOverread
<1>1. DataInv /\ RecordInv => NoOverread
  <2> SUFFICES ASSUME DataInv, RecordInv PROVE NoOverread
    OBVIOUS
  <2> DEFINE entries == ToSet(log) \cup {[task |-> batch[k], job |-> job[k]] : k \in DOMAIN job}
  <2>1. campaign \in DOMAIN Campaigns /\ ControlInv /\ TransferInv /\ LogInv
    BY DEF DataInv, ControlInv, RecordInv
  <2>2. ASSUME NEW e \in entries
        PROVE  Sound(campaign, e.task, e.job) /\ e.task.request \in PreparedOf(campaign)
    <3>1. CASE e \in ToSet(log)
      BY <2>1, <3>1 DEF LogInv, Belongs, ToSet
    <3>2. ASSUME NEW k \in DOMAIN job, e = [task |-> batch[k], job |-> job[k]]
          PROVE  Sound(campaign, e.task, e.job) /\ e.task.request \in PreparedOf(campaign)
      <4>1. e.task = batch[k] /\ e.job = job[k] /\ k \in DOMAIN batch
        BY <2>1, <3>2 DEF TransferInv
      <4> QED  BY <2>1, <4>1, BatchTasks DEF TransferInv
    <3> QED  BY <3>1, <3>2
  <2> HIDE DEF entries
  <2>3. ASSUME NEW e \in entries, Threshold(campaign, e.task) # Unset, NEW m \in 1..e.job.got - 1
        PROVE  IF ResolvedOf(campaign, e.task).overrides["cut_on"] = "wire"
               THEN WireLength(Begun(e.job.reply, m)) < Threshold(campaign, e.task)
               ELSE Reading(e.job.reply, Begun(e.job.reply, m)).undamaged =>
                        Len(Reading(e.job.reply, Begun(e.job.reply, m)).text) < Threshold(campaign, e.task)
    <3> DEFINE reply == e.job.reply
               got   == e.job.got
    <3>1. /\ got \in Nat /\ (got # 0 => reply \in Replies /\ got <= Len(reply.chunks))
          /\ GoesOn(campaign, e.task, reply, m)
      BY <2>2, <2>3 DEF Sound
    <3>2. e.task.request \in PreparedOf(campaign)
      BY <2>2
    <3>3. m \in 1..got - 1
      OBVIOUS
    <3> HIDE DEF reply, got
    <3>4. got # 0
      BY <3>1, <3>3
    <3>5. reply \in Replies /\ Len(reply.chunks) \in Nat
      BY <3>1, <3>4, ReplyAssumption, SequenceIs
    <3>6. m \in 0..Len(reply.chunks)
      BY <3>1, <3>3, <3>4, <3>5
    <3> QED  BY <2>1, <2>3, <3>1, <3>2, <3>5, <3>6, BelowThreshold DEF reply, got
  <2>4. \A e : SettingsOf(e) = ResolvedOf(campaign, e.task).overrides
    BY DEF SettingsOf, ResolvedOf, config
  <2>5. \A e : SettingsOf(e)["stream_cut"] = Threshold(campaign, e.task)
    BY <2>4 DEF Threshold
  <2> QED  BY <2>3, <2>4, <2>5 DEF NoOverread, Begun, entries
<1> QED  BY <1>1, RecordInvariant, PTL

-----------------------------------------------------------------------------
(* Verdicts *)

\* What the conditions look for in a text.
Meets(task, text) ==
    \/ task.request.needles = <<>>
    \/ \E needle \in ToSet(task.request.needles) : Spelling[needle] # <<>> /\ Spells(text, needle)

LEMMA PositiveVerdict ==
  ASSUME NEW n \in DOMAIN Campaigns, NEW task, task.request \in PreparedOf(n), NEW reply \in Replies,
         NEW m \in 0..Len(reply.chunks), NEW fragment, fragment = Begun(reply, m),
         Verdict(n, task, reply, fragment) # Invalid, Verdict(n, task, reply, fragment)
  PROVE  /\ StatusMatches(reply.status, task.request.expected)
         /\ Meets(task, Reading(reply, reply.chunks).text)
         /\ Decoded(reply.encoding, fragment) # Invalid
         /\ Judged(Campaigns[n].predicate, Response(reply, fragment), Decoded(reply.encoding, fragment))
<1> DEFINE response == Response(reply, fragment)
           text     == Decoded(reply.encoding, fragment)
           needles  == task.request.needles
           verdict  == Verdict(n, task, reply, fragment)
           judged   == Judged(Campaigns[n].predicate, response, text)
           body     == Reading(reply, reply.chunks).text
<1>1. /\ response.error = Unset /\ response.status = reply.status
      /\ response.encoding = reply.encoding /\ response.fragment = fragment
  BY DEF Response
<1>2. ResolvedOf(n, task).needles = needles /\ ResolvedOf(n, task).expected = task.request.expected
  BY TaskRequest
<1> HIDE DEF response
<1>3. verdict =
        IF ~StatusMatches(reply.status, task.request.expected) THEN FALSE
        ELSE IF text = Invalid THEN Invalid
        ELSE IF needles = <<>> THEN judged
        ELSE IF NoAutomaton(needles) THEN Invalid
        ELSE IF ~Search(needles, text) THEN FALSE
        ELSE judged
  BY <1>1, <1>2 DEF Verdict, Evaluated, response
<1>4. verdict # Invalid /\ verdict
  OBVIOUS
<1> HIDE DEF verdict, text, needles, judged, body
<1>5. /\ StatusMatches(reply.status, task.request.expected) /\ text # Invalid /\ judged
      /\ needles = <<>> \/ Search(needles, text)
  BY <1>3, <1>4
<1>6. Starts(text, body)
  BY <1>5, FragmentStarts DEF text, body
<1>7. ASSUME Search(needles, text) PROVE Meets(task, body)
  <2>1. PICK k \in DOMAIN needles : Spelling[needles[k]] # <<>> /\ Occurs(needles[k], text)
    BY <1>7 DEF Search
  <2>2. Spells(text, needles[k]) /\ IsSequence(Spelling[needles[k]])
    BY <1>6, <2>1, OccursSpells DEF Starts
  <2>3. Spells(body, needles[k])
    BY <1>6, <2>2, SpellsOn
  <2>4. needles[k] \in ToSet(needles)
    BY <2>1 DEF ToSet
  <2> QED  BY <2>1, <2>3, <2>4 DEF Meets, needles
<1>8. Meets(task, body)
  BY <1>5, <1>7 DEF Meets, needles
<1> QED  BY <1>5, <1>8 DEF judged, response, body, text

\* The task's needles are spelled with symbols.
LEMMA NeedlesSpelled ==
  ASSUME NEW n \in DOMAIN Campaigns, NEW task, task.request \in PreparedOf(n),
         NEW needle \in ToSet(task.request.needles)
  PROVE  IsSequence(Spelling[needle])
<1>1. PICK r \in RequestsOf(n) : task.request = Prepared(Config(n), Campaigns[n].needle, r)
  BY DEF PreparedOf
<1> QED  BY <1>1, NeedleAssumption

\* Without a predicate a response that meets the conditions matches.
LEMMA VerdictPositive ==
  ASSUME NEW n \in DOMAIN Campaigns, NEW task, task.request \in PreparedOf(n), NEW reply \in Replies,
         NEW m \in 0..Len(reply.chunks), NEW fragment, fragment = Begun(reply, m),
         Verdict(n, task, reply, fragment) # Invalid, Campaigns[n].predicate = "none",
         StatusMatches(reply.status, task.request.expected),
         NEW promised, Meets(task, promised),
         Decoded(reply.encoding, fragment) # Invalid =>
             Starts(promised, Decoded(reply.encoding, fragment))
  PROVE  Verdict(n, task, reply, fragment)
<1> DEFINE response == Response(reply, fragment)
           text     == Decoded(reply.encoding, fragment)
           needles  == task.request.needles
           verdict  == Verdict(n, task, reply, fragment)
<1>1. /\ response.error = Unset /\ response.status = reply.status
      /\ response.encoding = reply.encoding /\ response.fragment = fragment
  BY DEF Response
<1>2. ResolvedOf(n, task).needles = needles /\ ResolvedOf(n, task).expected = task.request.expected
  BY TaskRequest
<1> HIDE DEF response
<1>3. Judged(Campaigns[n].predicate, response, text) = TRUE
  BY DEF Judged
<1>4. verdict =
        IF text = Invalid THEN Invalid
        ELSE IF needles = <<>> THEN TRUE
        ELSE IF NoAutomaton(needles) THEN Invalid
        ELSE IF ~Search(needles, text) THEN FALSE
        ELSE TRUE
  BY <1>1, <1>2, <1>3 DEF Verdict, Evaluated, response
<1>5. verdict # Invalid
  OBVIOUS
<1>6. text # Invalid => Starts(promised, text)
  OBVIOUS
<1> HIDE DEF verdict, text
<1>7. ASSUME NEW needle \in ToSet(needles), Spelling[needle] # <<>>, Spells(promised, needle),
             text # Invalid
      PROVE  Search(needles, text)
  <2>1. IsSequence(Spelling[needle])
    BY <1>7, NeedlesSpelled
  <2>2. Spells(text, needle) /\ IsSequence(text)
    BY <1>6, <1>7, <2>1, SpellsOn DEF Starts
  <2>3. Occurs(needle, text)
    BY <2>1, <2>2, SpellsOccurs
  <2>4. PICK k \in DOMAIN needles : needle = needles[k]
    BY <1>7 DEF ToSet
  <2> QED  BY <1>7, <2>3, <2>4 DEF Search
<1>8. needles = <<>> \/ \E needle \in ToSet(needles) : Spelling[needle] # <<>> /\ Spells(promised, needle)
  BY DEF Meets
<1> HIDE DEF needles
<1>9. verdict = TRUE
  BY <1>4, <1>5, <1>7, <1>8
<1> QED  BY <1>9 DEF verdict

\* JSON data is at the beginning of what can be read of a reply.
JsonBegins(reply) ==
    LET text == Reading(reply, reply.chunks).text
    IN reply.mime = "json" /\ \E n \in 0..Len(text) : SubSeq(text, 1, n) \in JsonTexts

\* A row is written only of a task whose complete response, read up to its first
\* damage, meets every condition set (MatchedSound), although evaluate() sees only
\* what the decoders make of the part received.
THEOREM RowsAreMatches == Spec => []MatchedSound
<1>1. DataInv /\ RecordInv => MatchedSound
  <2> SUFFICES ASSUME DataInv, RecordInv, NEW row \in ToSet(out)
               PROVE  \E e \in ToSet(log) :
                         /\ e.task.id = row.source_id
                         /\ e.job.reply # NoReply
                         /\ ~e.job.reply.refused
                         /\ AsExpected(e)
                         /\ HasNeedle(e, Reading(e.job.reply, e.job.reply.chunks).text)
                         /\ Campaigns[campaign].predicate = "data" =>
                                JsonBegins(e.job.reply)
    BY DEF MatchedSound, JsonBegins
  <2>1. campaign \in DOMAIN Campaigns /\ LogInv /\ RowsInv
    BY DEF DataInv, ControlInv, RecordInv
  <2>2. PICK i \in DOMAIN out : row = out[i]
    BY DEF ToSet
  <2>3. PICK l \in DOMAIN log : row = log[l].job.result /\ row.matched
    BY <2>1, <2>2 DEF RowsInv
  <2> DEFINE e == log[l]
  <2>4. e \in ToSet(log)
    BY DEF ToSet
  <2>5. /\ e.task.request \in PreparedOf(campaign) /\ e.job.result.source_id = e.task.id
        /\ Failed(e.job.result) \/ Answered(campaign, e.task, e.job)
    BY <2>1 DEF LogInv, Belongs, Sound
  <2> HIDE DEF e
  <2>6. Answered(campaign, e.task, e.job)
    BY <2>3, <2>5 DEF Failed, e
  <2> DEFINE reply == e.job.reply
  <2>7. PICK fragment : /\ Fetched(campaign, e.task, reply, e.job.got, fragment)
                        /\ Verdict(campaign, e.task, reply, fragment) # Invalid
                        /\ e.job.result.matched = Verdict(campaign, e.task, reply, fragment)
    BY <2>6 DEF Answered
  <2>8. reply \in Replies /\ ~reply.refused
    BY <2>6 DEF Answered
  <2>9. Verdict(campaign, e.task, reply, fragment)
    BY <2>3, <2>7 DEF e
  <2>10. PICK m \in 0..Len(reply.chunks) : fragment = Begun(reply, m)
    BY <2>7, <2>8, FetchedReceived
  <2>11. /\ StatusMatches(reply.status, e.task.request.expected)
         /\ Meets(e.task, Reading(reply, reply.chunks).text)
         /\ Decoded(reply.encoding, fragment) # Invalid
         /\ Judged(Campaigns[campaign].predicate, Response(reply, fragment),
                   Decoded(reply.encoding, fragment))
    BY <2>1, <2>5, <2>7, <2>8, <2>9, <2>10, PositiveVerdict
  <2>12. reply # NoReply
    BY <2>8, ReplyAssumption
  <2>13. AsExpected(e)
    BY <2>11 DEF AsExpected, StatusMatches
  <2>14. HasNeedle(e, Reading(reply, reply.chunks).text)
    BY <2>11 DEF HasNeedle, Meets
  <2>15. ASSUME Campaigns[campaign].predicate = "data" PROVE JsonBegins(reply)
    <3> DEFINE text == Decoded(reply.encoding, fragment)
               body == Reading(reply, reply.chunks).text
    <3>1. Response(reply, fragment).mime = "json" /\ text \in JsonTexts
      BY <2>11, <2>15 DEF Judged, Context
    <3>2. Starts(text, body)
      BY <2>8, <2>10, <2>11, FragmentStarts
    <3> HIDE DEF text, body
    <3>3. text = SubSeq(body, 1, Len(text)) /\ Len(text) \in 0..Len(body)
      BY <3>2, StartsIs
    <3> QED  BY <3>1, <3>3 DEF JsonBegins, Response, body
  <2>16. e.task.id = row.source_id
    BY <2>3, <2>5 DEF e
  <2> QED  BY <2>4, <2>8, <2>12, <2>13, <2>14, <2>15, <2>16
<1> QED  BY <1>1, RecordInvariant, PTL

-----------------------------------------------------------------------------
(* What a cut transfer is promised to search *)

LEMMA StartsCut ==
  ASSUME NEW s, NEW t, Starts(s, t), NEW c \in 0..Len(s)
  PROVE  Starts(SubSeq(t, 1, c), s)
<1> DEFINE cut == SubSeq(t, 1, c)
<1>1. /\ IsSequence(s) /\ IsSequence(t) /\ Len(s) \in Nat /\ Len(t) \in Nat /\ Len(s) <= Len(t)
      /\ \A k \in 1..Len(s) : t[k] = s[k]
  BY SequenceIs DEF Starts
<1>2. 1 \in 1..Len(t) + 1 /\ c \in 1 - 1..Len(t) /\ c - 1 + 1 = c /\ c \in Nat
  BY <1>1
<1>3. cut = [k \in 1..c - 1 + 1 |-> t[1 + k - 1]] /\ Len(cut) = c - 1 + 1
  BY <1>1, <1>2, SubSequence
<1> HIDE DEF cut
<1>4. cut = [k \in 1..c |-> t[k]] /\ Len(cut) = c
  BY <1>2, <1>3
<1>5. cut = [k \in 1..c |-> cut[k]]
  BY <1>4
<1>6. IsSequence(cut)
  BY <1>2, <1>5, FunctionIsSequence
<1>7. \A k \in 1..c : k \in 1..Len(s) /\ cut[k] = s[k]
  BY <1>1, <1>4
<1>8. Starts(cut, s)
  BY <1>1, <1>4, <1>6, <1>7 DEF Starts
<1> QED  BY <1>8 DEF cut

LEMMA PromiseDecoded ==
  ASSUME NEW text, NEW body, Starts(body, text), NEW cut \in Int, cut >= 1,
         body = text \/ Len(body) >= cut
  PROVE  Starts(SubSeq(text, 1, IF cut < Len(text) THEN cut ELSE Len(text)), body)
<1> DEFINE c == IF cut < Len(text) THEN cut ELSE Len(text)
<1>1. Len(body) \in Nat /\ Len(text) \in Nat /\ Len(body) <= Len(text)
  BY SequenceIs DEF Starts
<1>2. c \in 0..Len(body)
  <2>1. CASE body = text
    BY <1>1, <2>1
  <2>2. CASE Len(body) >= cut
    BY <1>1, <2>2
  <2> QED  BY <2>1, <2>2
<1> HIDE DEF c
<1>3. Starts(SubSeq(text, 1, c), body)
  BY <1>2, StartsCut
<1> QED  BY <1>3 DEF c

\* The most chunks that are begun when each is only read below the threshold.
LEMMA MostIs ==
  ASSUME NEW chunks, AreChunks(chunks), NEW cut
  PROVE  /\ MostBegun(chunks, cut) \in 0..Len(chunks)
         /\ MostBegun(chunks, cut) > 0 =>
                WireLength(SubSeq(chunks, 1, MostBegun(chunks, cut) - 1)) < cut
<1> DEFINE begun == {n \in 0..Len(chunks) : n > 0 => WireLength(SubSeq(chunks, 1, n - 1)) < cut}
<1>1. Len(chunks) \in Nat
  BY SequenceIs DEF AreChunks
<1>2. begun \in SUBSET (0..Len(chunks)) /\ 0 \in begun
  BY <1>1
<1> DEFINE most == CHOOSE n \in begun : \A other \in begun : other <= n
<1>3. most \in begun
  <2> HIDE DEF begun
  <2>1. \E x \in begun : \A y \in begun : y <= x
    BY <1>1, <1>2, GreatestUpTo
  <2> QED  BY <2>1
<1>4. MostBegun(chunks, cut) = most
  BY DEF MostBegun
<1> HIDE DEF most
<1>5. most \in 0..Len(chunks) /\ (most > 0 => WireLength(SubSeq(chunks, 1, most - 1)) < cut)
  BY <1>3
<1> QED  BY <1>4, <1>5

LEMMA PromiseOnWire ==
  ASSUME NEW reply \in Replies, NEW cut \in Int, NEW m \in 0..Len(reply.chunks),
         m = Len(reply.chunks) \/ WireLength(Begun(reply, m)) >= cut,
         Decoded(reply.encoding, Begun(reply, m)) # Invalid
  PROVE  Starts(Reading(reply, Begun(reply, MostBegun(reply.chunks, cut))).text,
                Reading(reply, Begun(reply, m)).text)
<1> DEFINE chunks == reply.chunks
           most   == MostBegun(chunks, cut)
<1>1. AreChunks(chunks)
  BY RepliesHaveChunks
<1>2. /\ Len(chunks) \in Nat /\ most \in 0..Len(chunks)
      /\ most > 0 => WireLength(SubSeq(chunks, 1, most - 1)) < cut
  BY <1>1, MostIs, SequenceIs DEF AreChunks
<1> HIDE DEF most
<1>3. most <= m
  <2> SUFFICES ASSUME m < most PROVE FALSE
    BY <1>2
  <2>1. most > 0 /\ most - 1 \in 0..Len(chunks) /\ m \in 0..most - 1 /\ m # Len(chunks)
    BY <1>2
  <2>2. /\ WireLength(SubSeq(chunks, 1, m)) <= WireLength(SubSeq(chunks, 1, most - 1))
        /\ WireLength(SubSeq(chunks, 1, m)) \in Nat /\ WireLength(SubSeq(chunks, 1, most - 1)) \in Nat
    BY <1>1, <2>1, LongerBody
  <2>3. WireLength(SubSeq(chunks, 1, m)) >= cut
    BY <2>1 DEF Begun
  <2>4. WireLength(SubSeq(chunks, 1, most - 1)) < cut
    BY <1>2, <2>1
  <2> DEFINE a == WireLength(SubSeq(chunks, 1, m))
             b == WireLength(SubSeq(chunks, 1, most - 1))
  <2>5. a <= b /\ a \in Nat /\ b \in Nat /\ a >= cut /\ b < cut
    BY <2>2, <2>3, <2>4
  <2> HIDE DEF a, b
  <2> QED  BY <2>5
<1>4. most \in 0..m
  BY <1>2, <1>3
<1> QED  BY <1>4, DecodedFollows DEF Follows, most

\* What a transfer received is at least what its task is promised.
LEMMA PromiseReceived ==
  ASSUME DataInv, NEW e, e.task.request \in PreparedOf(campaign), e.job.reply \in Replies,
         NEW fragment, Fetched(campaign, e.task, e.job.reply, e.job.got, fragment),
         Decoded(e.job.reply.encoding, fragment) # Invalid,
         Reading(e.job.reply, Begun(e.job.reply, e.job.got)).undamaged
  PROVE  Starts(PromisedText(e), Decoded(e.job.reply.encoding, fragment))
<1> DEFINE n       == campaign
           task    == e.task
           reply   == e.job.reply
           got     == e.job.got
           cut     == Threshold(n, task)
           on      == ResolvedOf(n, task).overrides["cut_on"]
           text    == Reading(reply, reply.chunks).text
           decoded == Decoded(reply.encoding, fragment)
<1>1. campaign \in DOMAIN Campaigns
  BY DEF DataInv, ControlInv
<1>2. /\ SettingsOf(e)["fast_status"] = Fast(n, task) /\ SettingsOf(e)["stream_cut"] = cut
      /\ SettingsOf(e)["cut_on"] = on
  BY DEF SettingsOf, Fast, Threshold, ResolvedOf, config
<1>3. PromisedText(e) =
        IF Fast(n, task) THEN <<>>
        ELSE IF cut = Unset THEN text
        ELSE IF on = "decoded" THEN SubSeq(text, 1, IF cut < Len(text) THEN cut ELSE Len(text))
        ELSE Reading(reply, Begun(reply, MostBegun(reply.chunks, cut))).text
  BY <1>2 DEF PromisedText
<1>4. /\ IsSequence(reply.chunks) /\ reply.chunks = Begun(reply, Len(reply.chunks))
      /\ Len(reply.chunks) \in 0..Len(reply.chunks) /\ Len(reply.chunks) \in Nat
  BY RepliesHaveChunks, AllOf, SequenceIs DEF Begun, AreChunks
<1>5. (cut # Unset => cut \in Int /\ cut >= 1) /\ on \in {"wire", "decoded"}
  BY <1>1, CutSettings DEF CutOnValues
<1>6. PICK m \in 0..Len(reply.chunks) : fragment = Begun(reply, m)
  BY FetchedReceived
<1>7. Starts(decoded, text)
  BY <1>6, FragmentStarts
<1>8. CASE Fast(n, task)
  <2>1. Starts(<<>>, decoded)
    BY <1>7, EmptySequence, SequenceIs DEF Starts
  <2> QED  BY <1>3, <1>8, <2>1
<1>9. ASSUME ~Fast(n, task)
      PROVE  /\ got \in 0..Len(reply.chunks) /\ fragment = Begun(reply, got)
             /\ decoded = Reading(reply, Begun(reply, got)).text
             /\ \/ got = Len(reply.chunks) /\ decoded = text
                \/ cut # Unset /\ Enough(n, task, reply, got) # Invalid /\ Enough(n, task, reply, got)
  <2>1. \/ fragment = reply.chunks /\ got = Len(reply.chunks)
        \/ /\ cut # Unset /\ got \in 1..Len(reply.chunks)
           /\ Enough(n, task, reply, got) # Invalid /\ Enough(n, task, reply, got)
           /\ fragment = Begun(reply, got)
    BY <1>9 DEF Fetched
  <2>2. got \in 0..Len(reply.chunks) /\ fragment = Begun(reply, got)
    BY <1>4, <2>1
  <2> HIDE DEF got
  <2>3. got \in 0..got
    BY <1>4, <2>2
  <2>4. Follows(Decoded(reply.encoding, Begun(reply, got)), Reading(reply, Begun(reply, got)),
                Reading(reply, Begun(reply, got)))
    BY <2>2, <2>3, DecodedFollows
  <2>5. Reading(reply, Begun(reply, got)).undamaged
    BY DEF got
  <2>6. decoded = Reading(reply, Begun(reply, got)).text
    BY <2>2, <2>4, <2>5 DEF Follows
  <2>7. got = Len(reply.chunks) => decoded = text
    BY <1>4, <2>6
  <2> QED  BY <2>1, <2>2, <2>6, <2>7
<1>10. CASE ~Fast(n, task) /\ cut = Unset
  <2>1. decoded = text
    BY <1>9, <1>10
  <2>2. Starts(decoded, decoded)
    BY <1>7, StartsItself DEF Starts
  <2> QED  BY <1>3, <1>10, <2>1, <2>2
<1>11. CASE ~Fast(n, task) /\ cut # Unset /\ on = "decoded"
  <2>1. decoded = text \/ Len(decoded) >= cut
    <3>1. Enough(n, task, reply, got) =
            IF Decoded(reply.encoding, Begun(reply, got)) = Invalid THEN Invalid
            ELSE Len(Decoded(reply.encoding, Begun(reply, got))) >= cut
      BY <1>11 DEF Enough, Reached, Threshold
    <3> HIDE DEF cut, text
    <3> QED  BY <1>9, <1>11, <3>1
  <2> HIDE DEF decoded, text, cut
  <2>2. Starts(SubSeq(text, 1, IF cut < Len(text) THEN cut ELSE Len(text)), decoded)
    BY <1>5, <1>7, <1>11, <2>1, PromiseDecoded
  <2> QED  BY <1>3, <1>11, <2>2 DEF decoded
<1>12. CASE ~Fast(n, task) /\ cut # Unset /\ on = "wire"
  <2>1. got = Len(reply.chunks) \/ WireLength(Begun(reply, got)) >= cut
    <3>1. Enough(n, task, reply, got) = (WireLength(Begun(reply, got)) >= cut)
      BY <1>12 DEF Enough, Reached, Threshold
    <3> QED  BY <1>9, <1>12, <3>1
  <2>2. cut \in Int
    BY <1>5, <1>12
  <2>3. got \in 0..Len(reply.chunks) /\ decoded = Reading(reply, Begun(reply, got)).text
        /\ Decoded(reply.encoding, Begun(reply, got)) # Invalid
    BY <1>9, <1>12
  <2> HIDE DEF cut, decoded, got
  <2>4. Starts(Reading(reply, Begun(reply, MostBegun(reply.chunks, cut))).text, decoded)
    BY <2>1, <2>2, <2>3, PromiseOnWire
  <2> QED  BY <1>3, <1>12, <2>4 DEF cut, decoded
<1> QED  BY <1>5, <1>8, <1>10, <1>11, <1>12

\* Cutting a transfer loses no match within its threshold (NothingMissed), wherever
\* the chunks end, when what was received of the body is not damaged.
THEOREM NoMatchMissed == Spec => []NothingMissed
<1>1. DataInv /\ RecordInv => NothingMissed
  <2> SUFFICES ASSUME DataInv, RecordInv, Campaigns[campaign].predicate = "none", NEW e \in ToSet(log),
                      e.job.result.error = Unset, AsExpected(e), HasNeedle(e, PromisedText(e)),
                      Reading(e.job.reply, Begun(e.job.reply, e.job.got)).undamaged
               PROVE  \E row \in ToSet(out) : row.source_id = e.task.id
    BY DEF NothingMissed, Promised, Written
  <2>1. campaign \in DOMAIN Campaigns /\ LogInv /\ RowsInv
    BY DEF DataInv, ControlInv, RecordInv
  <2>2. PICK l \in DOMAIN log : e = log[l]
    BY DEF ToSet
  <2>3. /\ e.task.request \in PreparedOf(campaign) /\ e.job.result.source_id = e.task.id
        /\ Failed(e.job.result) \/ Answered(campaign, e.task, e.job)
    BY <2>1, <2>2 DEF LogInv, Belongs, Sound
  <2>4. Answered(campaign, e.task, e.job)
    BY <2>3 DEF Failed
  <2> DEFINE reply == e.job.reply
  <2>5. PICK fragment : /\ Fetched(campaign, e.task, reply, e.job.got, fragment)
                        /\ Verdict(campaign, e.task, reply, fragment) # Invalid
                        /\ e.job.result.matched = Verdict(campaign, e.task, reply, fragment)
    BY <2>4 DEF Answered
  <2>6. reply \in Replies
    BY <2>4 DEF Answered
  <2>7. PICK m \in 0..Len(reply.chunks) : fragment = Begun(reply, m)
    BY <2>5, <2>6, FetchedReceived
  <2>8. Decoded(reply.encoding, fragment) # Invalid =>
            Starts(PromisedText(e), Decoded(reply.encoding, fragment))
    BY <2>3, <2>5, <2>6, PromiseReceived
  <2>9. StatusMatches(reply.status, e.task.request.expected)
    BY <2>6, ReplyAssumption DEF AsExpected, StatusMatches
  <2>10. Meets(e.task, PromisedText(e))
    BY DEF HasNeedle, Meets
  <2> HIDE DEF reply
  <2>11. Verdict(campaign, e.task, reply, fragment)
    BY <2>1, <2>3, <2>5, <2>6, <2>7, <2>8, <2>9, <2>10, VerdictPositive
  <2>12. log[l].job.result.matched
    BY <2>2, <2>5, <2>11
  <2>13. PICK i \in DOMAIN out : out[i] = log[l].job.result
    BY <2>1, <2>12 DEF RowsInv
  <2> QED  BY <2>2, <2>3, <2>13 DEF ToSet
<1> QED  BY <1>1, RecordInvariant, PTL

-----------------------------------------------------------------------------
(* Percentiles *)

\* Values are put in order by a permutation of their places.
InOrder(p, s, n) ==
    p \in Bijection(1..n, 1..n) /\ \A i, j \in 1..n : i < j => s[p[i]] <= s[p[j]]

Sortable(n) == \A s : (\A k \in 1..n : s[k] \in Int) => \E p : InOrder(p, s, n)

Sorting == INSTANCE FoldLeftFacts WITH Op <- WithMatch, Good <- Sortable

LEMMA BijectionIs ==
  ASSUME NEW n \in Nat, NEW p
  PROVE  p \in Bijection(1..n, 1..n) <=>
             /\ p \in [1..n -> 1..n]
             /\ \A i, j \in 1..n : p[i] = p[j] => i = j
             /\ \A k \in 1..n : \E i \in 1..n : p[i] = k
  BY DEF Bijection, Injection, Surjection, IsInjective

\* Some place has a greatest value.
LEMMA GreatestValue ==
  ASSUME NEW n \in Nat, NEW s, \A k \in 1..n + 1 : s[k] \in Int
  PROVE  \E m \in 1..n + 1 : \A k \in 1..n + 1 : s[k] <= s[m]
<1> DEFINE Tops(l) == \E m \in 1..l + 1 : \A k \in 1..l + 1 : s[k] <= s[m]
           S == {l \in 0..n : ~Tops(l)}
<1>0. n \in 0..n
  OBVIOUS
<1> SUFFICES ASSUME ~Tops(n) PROVE FALSE
  OBVIOUS
<1> HIDE DEF Tops
<1>1. PICK l \in S : \A other \in S : l <= other
  <2>1. S \subseteq Nat /\ S # {}
    BY <1>0
  <2> HIDE DEF S
  <2> QED  BY <2>1, Fields!LeastOfNat
<1>2. l \in 0..n /\ ~Tops(l)
  OBVIOUS
<1>3. l # 0
  <2> SUFFICES ASSUME l = 0 PROVE Tops(0)
    BY <1>2
  <2> USE DEF Tops
  <2>1. 1 \in 1..0 + 1 /\ \A k \in 1..0 + 1 : k = 1 /\ k \in 1..n + 1
    OBVIOUS
  <2> QED  BY <2>1
<1>4. l - 1 \in 0..n /\ (l - 1) + 1 = l /\ l - 1 < l
  BY <1>2, <1>3
<1>5. Tops(l - 1)
  <2>1. ~Tops(l - 1) => l - 1 \in S
    BY <1>4
  <2>2. l - 1 \in S => l <= l - 1
    BY <1>1
  <2> HIDE DEF S
  <2> QED  BY <1>2, <2>1, <2>2
<1>6. PICK m \in 1..l : \A k \in 1..l : s[k] <= s[m]
  BY <1>4, <1>5 DEF Tops
<1>7. \A k \in 1..l + 1 : k \in 1..n + 1 /\ (k \in 1..l \/ k = l + 1)
  BY <1>2
<1>8. m \in 1..l + 1 /\ l + 1 \in 1..l + 1
  BY <1>2
<1>9. s[m] \in Int /\ s[l + 1] \in Int /\ \A k \in 1..l + 1 : s[k] \in Int
  BY <1>7, <1>8
<1>10. \E top \in {m, l + 1} : \A k \in 1..l + 1 : s[k] <= s[top]
  <2>1. CASE s[l + 1] <= s[m]
    BY <1>6, <1>7, <1>9, <2>1
  <2>2. CASE s[m] < s[l + 1]
    BY <1>6, <1>7, <1>9, <2>2
  <2> QED  BY <1>9, <2>1, <2>2
<1>11. Tops(l)
  BY <1>8, <1>10 DEF Tops
<1> QED  BY <1>2, <1>11

LEMMA SortableNext ==
  ASSUME NEW n \in Nat, Sortable(n)
  PROVE  Sortable(n + 1)
<1> SUFFICES ASSUME NEW s, \A k \in 1..n + 1 : s[k] \in Int
             PROVE  \E q : InOrder(q, s, n + 1)
  BY DEF Sortable
<1>1. PICK m \in 1..n + 1 : \A k \in 1..n + 1 : s[k] <= s[m]
  BY GreatestValue
<1> DEFINE rest == [k \in 1..n |-> IF k = m THEN s[n + 1] ELSE s[k]]
<1>2. n + 1 \in 1..n + 1 /\ (\A k \in 1..n : k \in 1..n + 1 /\ k # n + 1)
      /\ (\A k \in 1..n + 1 : k \in 1..n \/ k = n + 1)
  OBVIOUS
<1>3. \A k \in 1..n : rest[k] \in Int
  BY <1>2
<1>4. PICK p : InOrder(p, rest, n)
  BY <1>3 DEF Sortable
<1>5. /\ p \in [1..n -> 1..n]
      /\ \A i, j \in 1..n : p[i] = p[j] => i = j
      /\ \A k \in 1..n : \E i \in 1..n : p[i] = k
      /\ \A i, j \in 1..n : i < j => rest[p[i]] <= rest[p[j]]
  BY <1>4, BijectionIs DEF InOrder
<1> DEFINE q == [k \in 1..n + 1 |-> IF k = n + 1 THEN m ELSE IF p[k] = m THEN n + 1 ELSE p[k]]
<1>6. q[n + 1] = m /\ \A k \in 1..n : q[k] = IF p[k] = m THEN n + 1 ELSE p[k]
  BY <1>2
<1>7. ASSUME NEW k \in 1..n PROVE s[q[k]] = rest[p[k]]
  <2>1. p[k] \in 1..n /\ rest[p[k]] = IF p[k] = m THEN s[n + 1] ELSE s[p[k]]
    BY <1>5
  <2>2. q[k] = IF p[k] = m THEN n + 1 ELSE p[k]
    BY <1>6
  <2> HIDE DEF q, rest
  <2> QED  BY <2>1, <2>2
<1>8. q \in [1..n + 1 -> 1..n + 1]
  BY <1>2, <1>5
<1> HIDE DEF q, rest
<1>9. \A i, j \in 1..n + 1 : q[i] = q[j] => i = j
  <2>1. \A k \in 1..n : q[k] # m
    BY <1>2, <1>5, <1>6
  <2>2. ASSUME NEW i \in 1..n, NEW j \in 1..n, q[i] = q[j] PROVE i = j
    <3>1. /\ q[i] = IF p[i] = m THEN n + 1 ELSE p[i]
          /\ q[j] = IF p[j] = m THEN n + 1 ELSE p[j]
      BY <1>6
    <3>2. p[i] # n + 1 /\ p[j] # n + 1
      BY <1>2, <1>5
    <3>3. p[i] = p[j]
      BY <2>2, <3>1, <3>2
    <3> QED  BY <1>5, <3>3
  <2> QED  BY <1>2, <1>6, <2>1, <2>2
<1>10. ASSUME NEW k \in 1..n + 1 PROVE \E i \in 1..n + 1 : q[i] = k
  <2>1. CASE k = m
    BY <1>2, <1>6, <2>1
  <2>2. CASE k # m /\ k # n + 1
    <3>1. PICK i \in 1..n : p[i] = k
      BY <1>2, <1>5, <2>2
    <3> QED  BY <1>2, <1>6, <2>2, <3>1
  <2>3. CASE k # m /\ k = n + 1
    <3>1. PICK i \in 1..n : p[i] = m
      BY <1>2, <1>5, <2>3
    <3> QED  BY <1>2, <1>6, <2>3, <3>1
  <2> QED  BY <2>1, <2>2, <2>3
<1>11. ASSUME NEW i \in 1..n + 1, NEW j \in 1..n + 1, i < j PROVE s[q[i]] <= s[q[j]]
  <2>1. i \in 1..n
    BY <1>11
  <2>2. CASE j = n + 1
    <3>1. q[i] \in 1..n + 1
      BY <1>8
    <3> QED  BY <1>1, <1>6, <2>2, <3>1
  <2>3. CASE j # n + 1
    <3>1. j \in 1..n
      BY <2>3
    <3> QED  BY <1>5, <1>7, <1>11, <2>1, <3>1
  <2> QED  BY <2>2, <2>3
<1>12. n + 1 \in Nat
  OBVIOUS
<1>13. InOrder(q, s, n + 1)
  BY <1>8, <1>9, <1>10, <1>11, <1>12, BijectionIs DEF InOrder
<1> QED  BY <1>13

LEMMA AllSortable == \A n \in Nat : Sortable(n)
<1>1. Sortable(0)
  <2> SUFFICES ASSUME NEW s PROVE \E p : InOrder(p, s, 0)
    BY DEF Sortable
  <2> DEFINE p == [k \in 1..0 |-> k]
  <2>1. 1..0 = {} /\ 0 \in Nat
    OBVIOUS
  <2>2. p \in Bijection(1..0, 1..0)
    BY <2>1 DEF Bijection, Injection, Surjection, IsInjective
  <2>3. InOrder(p, s, 0)
    BY <2>1, <2>2 DEF InOrder
  <2> QED  BY <2>3
<1> QED  BY <1>1, SortableNext, Sorting!Induction

\* p is the permutation that sorts s.
SortedBy(p, s, n) == InOrder(p, s, n) /\ \A k \in 1..n : Sorted(s)[k] = s[p[k]]

LEMMA SortedIs ==
  ASSUME NEW n \in Nat, NEW s, DOMAIN s = 1..n, \A k \in 1..n : s[k] \in Int
  PROVE  \E p : SortedBy(p, s, n)
<1> DEFINE places == DOMAIN s
           p == CHOOSE p_ \in Bijection(places, places) : Sorts(p_, s)
<1>1. \E p_ \in Bijection(1..n, 1..n) : Sorts(p_, s)
  BY AllSortable DEF Sortable, InOrder, Sorts
<1>2. p \in Bijection(1..n, 1..n) /\ Sorts(p, s)
  BY <1>1
<1>3. Sorted(s) = [k \in places |-> s[p[k]]]
  BY DEF Sorted
<1> HIDE DEF p
<1>4. InOrder(p, s, n)
  BY <1>2 DEF InOrder, Sorts
<1>5. SortedBy(p, s, n)
  BY <1>3, <1>4 DEF SortedBy
<1> QED  BY <1>5

Percents == {50, 95, 99}

LEMMA RankIs ==
  ASSUME NEW n \in Nat, n >= 1, NEW pct \in Percents
  PROVE  LET r == Clamp(Rank(pct, n), 1, n)
         IN r \in 1..n /\ r * 100 >= pct * n /\ (r - 1) * 100 < pct * n
<1>1. CASE pct = 50
  BY <1>1 DEF Clamp, Rank
<1>2. CASE pct = 95
  BY <1>2 DEF Clamp, Rank
<1>3. CASE pct = 99
  BY <1>3 DEF Clamp, Rank
<1> QED  BY <1>1, <1>2, <1>3 DEF Percents

LEMMA RanksInOrder ==
  ASSUME NEW n \in Nat, n >= 1
  PROVE  /\ Clamp(Rank(50, n), 1, n) <= Clamp(Rank(95, n), 1, n)
         /\ Clamp(Rank(95, n), 1, n) <= Clamp(Rank(99, n), 1, n)
  BY DEF Clamp, Rank

LEMMA NonEmpty ==
  ASSUME NEW s, IsSequence(s), s # <<>>
  PROVE  Len(s) >= 1
<1>1. s \in Seq(ToSet(s)) /\ Len(s) \in Nat
  BY SequenceIs DEF IsSequence
<1>2. Len(s) # 0
  BY <1>1, EmptySeq
<1> QED  BY <1>1, <1>2

\* How many of the first n values are at most bound.
Below(s, n, bound) == Cardinality({k \in 1..n : s[k] <= bound})

\* The value at place r of the order is the nearest rank of every percentage
\* between r - 1 and r places of the n.
LEMMA NearestAt ==
  ASSUME NEW n \in Nat, NEW s, \A k \in 1..n : s[k] \in Int, NEW p, InOrder(p, s, n),
         NEW r \in 1..n
  PROVE  /\ Below(s, n, s[p[r]]) \in Nat /\ r <= Below(s, n, s[p[r]])
         /\ \A less \in Int : less < s[p[r]] =>
               Below(s, n, less) \in Nat /\ Below(s, n, less) <= r - 1
<1> DEFINE AtMost(bound) == {k \in 1..n : s[k] <= bound}
           before == 1..r - 1
           upto   == 1..r
<1>1. /\ p \in [1..n -> 1..n]
      /\ \A i, j \in 1..n : p[i] = p[j] => i = j
      /\ \A k \in 1..n : \E i \in 1..n : p[i] = k
      /\ \A i, j \in 1..n : i < j => s[p[i]] <= s[p[j]]
  BY BijectionIs DEF InOrder
<1>2. /\ IsFiniteSet(1..n) /\ IsFiniteSet(before) /\ IsFiniteSet(upto)
      /\ Cardinality(before) = r - 1 /\ Cardinality(upto) = r
  <2>1. /\ 1 \in Int /\ n \in Int /\ r \in Int /\ r - 1 \in Int /\ ~(1 > r)
        /\ r - 1 + 1 = r /\ (1 > r - 1 => r - 1 = 0) /\ r - 1 - 1 + 1 = r - 1
    OBVIOUS
  <2>2. IsFiniteSet(1..n) /\ IsFiniteSet(before) /\ IsFiniteSet(upto)
    BY <2>1, FS_Interval
  <2>3. Cardinality(before) = IF 1 > r - 1 THEN 0 ELSE r - 1 - 1 + 1
    BY <2>1, FS_Interval
  <2>4. Cardinality(upto) = IF 1 > r THEN 0 ELSE r - 1 + 1
    BY <2>1, FS_Interval
  <2> QED  BY <2>1, <2>2, <2>3, <2>4
<1>3. \A bound : IsFiniteSet(AtMost(bound)) /\ Cardinality(AtMost(bound)) \in Nat
  <2>1. \A bound : AtMost(bound) \in SUBSET (1..n)
    OBVIOUS
  <2> HIDE DEF AtMost
  <2> QED  BY <1>2, <2>1, FS_Subset, FS_CardinalityType
<1>4. r <= Cardinality(AtMost(s[p[r]]))
  <2> DEFINE f == [i \in upto |-> p[i]]
  <2>1. \A i \in upto : i \in 1..n /\ (i = r \/ i < r)
    OBVIOUS
  <2>2. ASSUME NEW i \in upto PROVE p[i] \in 1..n /\ s[p[i]] <= s[p[r]]
    <3>1. i \in 1..n /\ (i = r \/ i < r)
      BY <2>1
    <3>2. p[i] \in 1..n /\ s[p[i]] \in Int
      BY <1>1, <3>1
    <3>3. CASE i = r
      BY <3>2, <3>3
    <3>4. CASE i < r
      BY <1>1, <3>1, <3>2, <3>4
    <3> QED  BY <3>1, <3>3, <3>4
  <2>3. \A i \in upto : p[i] \in AtMost(s[p[r]])
    BY <2>2
  <2> HIDE DEF AtMost, upto
  <2>4. f \in Injection(upto, AtMost(s[p[r]]))
    BY <1>1, <2>1, <2>3 DEF Injection, IsInjective
  <2>5. Cardinality(upto) <= Cardinality(AtMost(s[p[r]]))
    BY <1>3, <2>4, FS_Injection
  <2> QED  BY <1>2, <2>5
<1>5. ASSUME NEW less \in Int, less < s[p[r]] PROVE Cardinality(AtMost(less)) <= r - 1
  <2> DEFINE f == [k \in AtMost(less) |-> CHOOSE i \in 1..n : p[i] = k]
  <2>1. ASSUME NEW k \in AtMost(less) PROVE f[k] \in before /\ p[f[k]] = k
    <3>1. k \in 1..n /\ s[k] <= less /\ s[k] \in Int
      OBVIOUS
    <3>2. f[k] \in 1..n /\ p[f[k]] = k
      BY <1>1, <3>1
    <3> HIDE DEF f, AtMost
    <3>3. s[p[r]] \in Int /\ s[p[f[k]]] = s[k]
      BY <1>1, <3>2
    <3>4. ~(s[p[r]] <= s[k])
      BY <1>5, <3>1, <3>3
    <3>5. f[k] # r
      BY <3>1, <3>2, <3>3, <3>4
    <3>6. ~(r < f[k])
      BY <1>1, <3>2, <3>3, <3>4
    <3> QED  BY <3>2, <3>5, <3>6
  <2>2. DOMAIN f = AtMost(less) /\ f \in [AtMost(less) -> before]
    <3>1. \A k \in AtMost(less) : (CHOOSE i \in 1..n : p[i] = k) \in before
      BY <2>1
    <3> HIDE DEF AtMost, before
    <3> QED  BY <3>1
  <2> HIDE DEF f, AtMost, before
  <2>3. f \in Injection(AtMost(less), before)
    BY <2>1, <2>2 DEF Injection, IsInjective
  <2>4. Cardinality(AtMost(less)) <= Cardinality(before)
    BY <1>2, <2>3, FS_Injection
  <2> QED  BY <1>2, <2>4
<1>6. \A bound : Below(s, n, bound) = Cardinality(AtMost(bound))
  BY DEF Below
<1> HIDE DEF AtMost
<1> QED  BY <1>3, <1>4, <1>5, <1>6

LEMMA NearestIs ==
  ASSUME NEW pct \in Percents, metrics.latencies # <<>>, IsSequence(metrics.latencies),
         \A k \in DOMAIN metrics.latencies : metrics.latencies[k] \in Nat
  PROVE  NearestRank(pct, Percentile(metrics.latencies, pct))
<1> DEFINE s == metrics.latencies
           n == Len(s)
           r == Clamp(Rank(pct, n), 1, n)
           v == Percentile(s, pct)
           AtMost(bound) == Cardinality({k \in DOMAIN s : s[k] <= bound})
<1>1. n \in Nat /\ DOMAIN s = 1..n
  BY SequenceIs
<1>2. n >= 1
  BY <1>1, NonEmpty
<1> HIDE DEF s, n
<1>3. r \in 1..n /\ r * 100 >= pct * n /\ (r - 1) * 100 < pct * n
  BY <1>1, <1>2, RankIs
<1> HIDE DEF r
<1>4. \A k \in 1..n : s[k] \in Nat
  BY <1>1 DEF s
<1>5. PICK p : InOrder(p, s, n) /\ \A k \in 1..n : Sorted(s)[k] = s[p[k]]
  <2>1. \A k \in 1..n : s[k] \in Int
    BY <1>4
  <2>2. \E p : SortedBy(p, s, n)
    BY <1>1, <2>1, SortedIs
  <2> QED  BY <2>2 DEF SortedBy
<1>6. v = s[p[r]]
  <2>1. v = Sorted(s)[r]
    BY DEF Percentile, s, n, r
  <2> QED  BY <1>3, <1>5, <2>1
<1>7. p[r] \in 1..n
  BY <1>1, <1>3, <1>5, BijectionIs DEF InOrder
<1>8. v \in ToSet(s)
  BY <1>1, <1>6, <1>7 DEF ToSet
<1>9. /\ AtMost(v) \in Nat /\ r <= AtMost(v)
      /\ \A less \in Int : less < v => AtMost(less) \in Nat /\ AtMost(less) <= r - 1
  <2>1. \A k \in 1..n : s[k] \in Int
    BY <1>4
  <2>2. /\ Below(s, n, s[p[r]]) \in Nat /\ r <= Below(s, n, s[p[r]])
        /\ \A less \in Int : less < s[p[r]] =>
              Below(s, n, less) \in Nat /\ Below(s, n, less) <= r - 1
    BY <1>1, <1>3, <1>5, <2>1, NearestAt
  <2>3. \A bound : AtMost(bound) = Below(s, n, bound)
    BY <1>1 DEF Below
  <2> HIDE DEF AtMost, v
  <2> QED  BY <1>6, <2>2, <2>3
<1>10. \A less \in ToSet(s) : less \in Int
  BY <1>1, <1>4 DEF ToSet
<1> HIDE DEF AtMost, v
<1>11. AtMost(v) * 100 >= pct * n
  BY <1>1, <1>3, <1>9 DEF Percents
<1>12. ASSUME NEW less \in ToSet(s), less < v PROVE AtMost(less) * 100 < pct * n
  <2>1. AtMost(less) \in Nat /\ AtMost(less) <= r - 1
    BY <1>9, <1>10, <1>12
  <2> QED  BY <1>1, <1>3, <2>1 DEF Percents
<1> QED  BY <1>8, <1>11, <1>12 DEF NearestRank, AtMost, v, s, n

LEMMA PercentilesInOrder ==
  ASSUME NEW s, s # <<>>, IsSequence(s), \A k \in DOMAIN s : s[k] \in Nat
  PROVE  Percentile(s, 50) <= Percentile(s, 95) /\ Percentile(s, 95) <= Percentile(s, 99)
<1> DEFINE n       == Len(s)
           At(pct) == Clamp(Rank(pct, n), 1, n)
<1>1. n \in Nat /\ DOMAIN s = 1..n
  BY SequenceIs
<1>2. n >= 1
  BY <1>1, NonEmpty
<1> HIDE DEF n
<1>3. \A pct \in Percents : At(pct) \in 1..n
  BY <1>1, <1>2, RankIs
<1>4. At(50) <= At(95) /\ At(95) <= At(99)
  BY <1>1, <1>2, RanksInOrder
<1>5. PICK p : InOrder(p, s, n) /\ \A k \in 1..n : Sorted(s)[k] = s[p[k]]
  <2>1. \A k \in 1..n : s[k] \in Int
    BY <1>1
  <2>2. \E p : SortedBy(p, s, n)
    BY <1>1, <2>1, SortedIs
  <2> QED  BY <2>2 DEF SortedBy
<1>6. \A pct \in Percents : Percentile(s, pct) = Sorted(s)[At(pct)]
  BY DEF Percentile, n
<1> HIDE DEF At
<1>7. \A i, j \in 1..n : i <= j => s[p[i]] <= s[p[j]]
  <2>1. \A i \in 1..n : p[i] \in 1..n /\ s[p[i]] \in Int
    <3>1. p \in [1..n -> 1..n]
      BY <1>1, <1>5, BijectionIs DEF InOrder
    <3> QED  BY <1>1, <3>1
  <2>2. \A i, j \in 1..n : i < j => s[p[i]] <= s[p[j]]
    BY <1>5 DEF InOrder
  <2>3. \A i, j \in 1..n : i <= j => i = j \/ i < j
    OBVIOUS
  <2> QED  BY <2>1, <2>2, <2>3
<1>8. \A pct \in Percents : Percentile(s, pct) = s[p[At(pct)]]
  BY <1>3, <1>5, <1>6
<1> QED  BY <1>3, <1>4, <1>7, <1>8 DEF Percents

\* The percentiles that run() returns are nearest ranks of the sample, in order
\* (PercentilesRight), whatever its size.
THEOREM PercentilesAreRanks == Spec => []PercentilesRight
<1>1. DataInv /\ RecordInv => PercentilesRight
  <2> SUFFICES ASSUME DataInv, RecordInv, summary # Unset, metrics.latencies # <<>>
               PROVE  /\ \A pct \in Percents : NearestRank(pct, Percentile(metrics.latencies, pct))
                      /\ Percentile(metrics.latencies, 50) <= Percentile(metrics.latencies, 95)
                      /\ Percentile(metrics.latencies, 95) <= Percentile(metrics.latencies, 99)
    <3>1. RecordInv /\ summary # Unset => summary = Snapshot(metrics)
      BY DEF RecordInv, SummaryInv
    <3>2. /\ Snapshot(metrics).p50 = Percentile(metrics.latencies, 50)
          /\ Snapshot(metrics).p95 = Percentile(metrics.latencies, 95)
          /\ Snapshot(metrics).p99 = Percentile(metrics.latencies, 99)
      BY DEF Snapshot
    <3> QED  BY <3>1, <3>2 DEF PercentilesRight, Percents
  <2> DEFINE s == metrics.latencies
  <2>1. IsSequence(s) /\ LogInv /\ Drawn(s, ColumnOf("elapsed"))
    BY DEF DataInv, CountInv, IsCollector, RecordInv, TallyInv
  <2>2. DOMAIN s = 1..Len(s) /\ Len(log) \in Nat /\ DOMAIN log = 1..Len(log)
    BY <2>1, SequenceIs DEF LogInv
  <2>3. PICK at : Places(at, s, ColumnOf("elapsed"))
    BY <2>1 DEF Drawn
  <2>4. DOMAIN ColumnOf("elapsed") = 1..Len(log)
        /\ \A l \in 1..Len(log) : ColumnOf("elapsed")[l] = log[l].job.result.elapsed
    BY <2>2 DEF ColumnOf
  <2>5. Len(ColumnOf("elapsed")) = Len(log)
    BY <2>2, <2>4
  <2>6. \A l \in 1..Len(log) : log[l].job.result.elapsed \in Nat
    BY <2>1, <2>2 DEF LogInv, Sound, Belongs
  <2>7. ASSUME NEW k \in DOMAIN s PROVE s[k] \in Nat
    <3>1. at[k] \in 1..Len(log) /\ s[k] = ColumnOf("elapsed")[at[k]]
      BY <2>2, <2>3, <2>5 DEF Places
    <3> QED  BY <2>4, <2>6, <3>1
  <2> HIDE DEF s
  <2>8. s # <<>>
    BY DEF s
  <2>9. Percentile(s, 50) <= Percentile(s, 95) /\ Percentile(s, 95) <= Percentile(s, 99)
    BY <2>1, <2>7, <2>8, PercentilesInOrder
  <2> QED  BY <2>1, <2>7, <2>9, NearestIs DEF s
<1> QED  BY <1>1, RecordInvariant, PTL
=============================================================================
