--------------------------- MODULE SimulationProofs ---------------------------
(***************************************************************************)
(* Proofs about Simulation, for any number of rounds, any size of a round  *)
(* and of its batches.                                                     *)
(***************************************************************************)
EXTENDS Simulation, FiniteSetTheorems, SequenceTheorems, TLAPS

-----------------------------------------------------------------------------
(***************************************************************************)
(* Sets of numbers in their order, and lists without some of their places. *)
(***************************************************************************)
Below(S, x) == {y \in S : y <= x}
Rank(S, x) == Cardinality(Below(S, x))

(* A greater element has a greater rank. *)
LEMMA RankIncreases ==
  ASSUME NEW S \in SUBSET Nat, IsFiniteSet(S), NEW x \in S, NEW y \in S, x < y
  PROVE  Rank(S, x) < Rank(S, y)
<1>1. /\ Below(S, x) \subseteq Below(S, y) /\ Below(S, y) \subseteq S
      /\ y \in Below(S, y) /\ y \notin Below(S, x)
  <2>1. \A z \in S : z <= x => z <= y
    OBVIOUS
  <2>2. x <= y /\ ~(y <= x) /\ y <= y
    OBVIOUS
  <2> QED BY <2>1, <2>2, Zenon DEF Below
<1>2. IsFiniteSet(Below(S, y))
  BY <1>1, FS_Subset
<1>3. /\ IsFiniteSet(Below(S, x))
      /\ Cardinality(Below(S, x)) <= Cardinality(Below(S, y))
      /\ Cardinality(Below(S, x)) # Cardinality(Below(S, y))
  BY <1>1, <1>2, FS_Subset
<1>4. Cardinality(Below(S, x)) \in Nat /\ Cardinality(Below(S, y)) \in Nat
  BY <1>2, <1>3, FS_CardinalityType
<1> QED BY <1>3, <1>4 DEF Rank

(* Ranks count from one to the number of elements. *)
LEMMA RankType ==
  ASSUME NEW S \in SUBSET Nat, IsFiniteSet(S), NEW x \in S
  PROVE  Rank(S, x) \in 1..Cardinality(S)
<1>1. Below(S, x) \subseteq S /\ x \in Below(S, x)
  BY DEF Below
<1>2. /\ IsFiniteSet(Below(S, x))
      /\ Cardinality(Below(S, x)) <= Cardinality(S)
      /\ Cardinality(Below(S, x)) # 0
  BY <1>1, FS_Subset, FS_EmptySet
<1>3. Cardinality(Below(S, x)) \in Nat /\ Cardinality(S) \in Nat
  BY <1>2, FS_CardinalityType
<1> QED BY <1>2, <1>3 DEF Rank

(* Every rank is that of one element. *)
LEMMA RankOnto ==
  ASSUME NEW S \in SUBSET Nat, IsFiniteSet(S), NEW i \in 1..Cardinality(S)
  PROVE  \E x \in S : Rank(S, x) = i
<1> DEFINE n == Cardinality(S)
           f == [x \in S |-> Rank(S, x)]
<1>1. n \in Nat
  BY FS_CardinalityType
<1>2. f \in [S -> 1..n]
  BY RankType
<1>3. ASSUME NEW x \in S, NEW y \in S, x # y PROVE f[x] # f[y]
  <2>1. CASE x < y
    <3>1. Rank(S, x) < Rank(S, y)
      BY <2>1, RankIncreases
    <3> QED BY <3>1, <1>1, RankType
  <2>2. CASE y < x
    <3>1. Rank(S, y) < Rank(S, x)
      BY <2>2, RankIncreases
    <3> QED BY <3>1, <1>1, RankType
  <2>3. x < y \/ y < x
    BY <1>3
  <2> QED BY <2>1, <2>2, <2>3
<1>4. f \in Injection(S, 1..n)
  BY <1>2, <1>3 DEF Injection, IsInjective
<1>5. IsFiniteSet(1..n) /\ Cardinality(1..n) = n
  BY <1>1, FS_Interval
<1>6. f \in Surjection(S, 1..n)
  BY <1>4, <1>5, FS_Injection
<1>7. \E x \in S : f[x] = i
  BY <1>6 DEF Surjection
<1> QED BY <1>7

(* Sorted lists the elements of a set by rank. *)
LEMMA SortedRank ==
  ASSUME NEW S \in SUBSET Nat, IsFiniteSet(S)
  PROVE  /\ DOMAIN Sorted(S) = 1..Cardinality(S)
         /\ \A i \in 1..Cardinality(S) :
              Sorted(S)[i] \in S /\ Rank(S, Sorted(S)[i]) = i
         /\ \A x \in S : Sorted(S)[Rank(S, x)] = x
<1>1. \A i \in 1..Cardinality(S) :
        Sorted(S)[i] = CHOOSE x \in S : Rank(S, x) = i
  BY DEF Sorted, Rank, Below
<1>2. \A i \in 1..Cardinality(S) :
        Sorted(S)[i] \in S /\ Rank(S, Sorted(S)[i]) = i
  BY <1>1, RankOnto
<1>3. ASSUME NEW x \in S PROVE Sorted(S)[Rank(S, x)] = x
  <2> DEFINE y == Sorted(S)[Rank(S, x)]
  <2>1. Rank(S, x) \in 1..Cardinality(S) /\ Cardinality(S) \in Nat
    BY RankType, FS_CardinalityType
  <2>2. y \in S /\ Rank(S, y) = Rank(S, x)
    BY <2>1, <1>2
  <2> HIDE DEF y
  <2>3. ~(x < y) /\ ~(y < x)
    BY <2>1, <2>2, RankIncreases
  <2>4. x = y
    BY <2>2, <2>3
  <2> QED BY <2>4 DEF y
<1> QED BY <1>2, <1>3 DEF Sorted

(* A sorted set is a sequence without repetitions. *)
LEMMA SortedSeq ==
  ASSUME NEW S \in SUBSET Nat, IsFiniteSet(S), NEW T, S \subseteq T
  PROVE  /\ Sorted(S) \in Seq(T)
         /\ Len(Sorted(S)) = Cardinality(S)
         /\ ToSet(Sorted(S)) = S
         /\ \A i, j \in 1..Cardinality(S) :
              Sorted(S)[i] = Sorted(S)[j] => i = j
<1>1. Cardinality(S) \in Nat
  BY FS_CardinalityType
<1>2. /\ DOMAIN Sorted(S) = 1..Cardinality(S)
      /\ \A i \in 1..Cardinality(S) :
           Sorted(S)[i] \in S /\ Rank(S, Sorted(S)[i]) = i
      /\ \A x \in S : Sorted(S)[Rank(S, x)] = x
  BY SortedRank
<1>3. \A x \in S : Rank(S, x) \in 1..Cardinality(S)
  BY RankType
<1>4. Sorted(S) = [i \in 1..Cardinality(S) |-> Sorted(S)[i]]
  BY DEF Sorted
<1>5. Sorted(S) \in Seq(T)
  BY <1>1, <1>2, <1>4
<1>6. Len(Sorted(S)) = Cardinality(S)
  BY <1>1, <1>2, <1>5, LenProperties
<1>7. ToSet(Sorted(S)) = S
  BY <1>2, <1>3 DEF ToSet
<1> QED BY <1>2, <1>5, <1>6, <1>7

(***************************************************************************)
(* The places of a list of m elements that are left when some of the first *)
(* p are taken out: those behind p move to the front by as many.           *)
(***************************************************************************)
LEMMA KeptPlaces ==
  ASSUME NEW m \in Nat, NEW p \in 0..m, NEW out \in SUBSET (1..p)
  PROVE  LET n == Cardinality(out)
             kept == Sorted((1..m) \ out)
         IN  /\ n \in 0..p
             /\ kept \in Seq((1..m) \ out) /\ Len(kept) = m - n
             /\ ToSet(kept) = (1..m) \ out
             /\ \A i, j \in 1..(m - n) : kept[i] = kept[j] => i = j
             /\ \A i \in 1..(p - n) : kept[i] \in 1..p
             /\ \A x \in (p + 1)..m : kept[x - n] = x
<1> DEFINE n == Cardinality(out)
           kept == Sorted((1..m) \ out)
           K == (1..m) \ out
<1>1. p \in Nat /\ p <= m /\ IsFiniteSet(1..p) /\ Cardinality(1..p) = p
  BY FS_Interval
<1> HIDE DEF n, kept
<1>2. IsFiniteSet(out) /\ n \in 0..p
  <2>1. IsFiniteSet(out) /\ Cardinality(out) <= p
    BY <1>1, FS_Subset
  <2>2. Cardinality(out) \in Nat
    BY <2>1, FS_CardinalityType
  <2> QED BY <1>1, <2>1, <2>2 DEF n
<1>3. ASSUME NEW x \in p..m
      PROVE  /\ IsFiniteSet((1..x) \ out)
             /\ Cardinality((1..x) \ out) = x - n
  <2>1. x \in Nat /\ p <= x
    BY <1>1
  <2>2. IsFiniteSet(1..x) /\ Cardinality(1..x) = x
    BY <2>1, FS_Interval
  <2>3. (1..x) \cap out = out
    <3>1. \A y \in out : y \in 1..p
      OBVIOUS
    <3>2. \A y \in 1..p : y \in 1..x
      BY <1>1, <2>1
    <3> QED BY <3>1, <3>2, Zenon
  <2>4. /\ IsFiniteSet((1..x) \ out)
        /\ Cardinality((1..x) \ out) = x - Cardinality((1..x) \cap out)
    BY <2>2, FS_Difference
  <2> QED BY <2>3, <2>4 DEF n
<1>4. IsFiniteSet(K) /\ Cardinality(K) = m - n /\ K \in SUBSET Nat
  BY <1>3
<1> HIDE DEF K
<1>5. /\ kept \in Seq(K) /\ Len(kept) = m - n /\ ToSet(kept) = K
      /\ \A i, j \in 1..(m - n) : kept[i] = kept[j] => i = j
  BY <1>4, SortedSeq DEF K, kept
<1>6. /\ \A i \in 1..(m - n) : kept[i] \in K /\ Rank(K, kept[i]) = i
      /\ \A x \in K : kept[Rank(K, x)] = x
  BY <1>4, SortedRank DEF K, kept
<1>7. ASSUME NEW x \in (p + 1)..m PROVE x \in K /\ Rank(K, x) = x - n
  <2>1. x \in K
    BY DEF K
  <2>2. Below(K, x) = (1..x) \ out
    BY DEF Below, K
  <2> QED BY <1>3, <2>1, <2>2 DEF Rank
<1>8. ASSUME NEW i \in 1..(p - n) PROVE kept[i] \in 1..p
  <2>1. i \in 1..(m - n)
    BY <1>2
  <2>2. kept[i] \in 1..m /\ Rank(K, kept[i]) = i
    BY <2>1, <1>6 DEF K
  <2>3. CASE kept[i] > p
    <3>1. i = kept[i] - n
      BY <2>2, <2>3, <1>7
    <3> QED BY <3>1, <2>2, <2>3, <1>2
  <2> QED BY <2>2, <2>3
<1>9. \A x \in (p + 1)..m : kept[x - n] = x
  BY <1>6, <1>7
<1> QED BY <1>2, <1>5, <1>8, <1>9 DEF K, n, kept

(* A function from 1..n is a sequence of length n. *)
LEMMA FunctionIsSeq ==
  ASSUME NEW S, NEW n \in Nat, NEW f \in [1..n -> S]
  PROVE  f \in Seq(S) /\ Len(f) = n
<1>1. f \in Seq(S)
  BY SeqDef
<1>2. Len(f) \in Nat /\ DOMAIN f = 1..Len(f) /\ DOMAIN f = 1..n
  BY <1>1, LenProperties
<1> QED BY <1>1, <1>2

(* The list t is s, whose elements have type T, but for n of its first p. *)
Shortened(T, s, p, out, n, t) ==
  /\ n \in 0..p
  /\ t \in Seq(T) /\ Len(t) = Len(s) - n
  /\ \A i, j \in DOMAIN t : t[i] = t[j] => i = j
  /\ ToSet(t) = ToSet(s) \ {s[i] : i \in out}
  /\ \A i \in 1..(p - n) : \E j \in 1..p : t[i] = s[j]
  /\ \A x \in (p + 1)..Len(s) : t[x - n] = s[x]

(***************************************************************************)
(* A list without repetitions loses the elements at some of its first p    *)
(* places, and the elements behind them stay its end.                      *)
(***************************************************************************)
LEMMA WithoutPlaces ==
  ASSUME NEW T, NEW s \in Seq(T),
         \A i, j \in DOMAIN s : s[i] = s[j] => i = j,
         NEW p \in 0..Len(s), NEW out \in SUBSET (1..p)
  PROVE  Shortened(T, s, p, out, Cardinality(out), Without(s, out))
<1> DEFINE m == Len(s)
           kept == Sorted((1..m) \ out)
           n == Cardinality(out)
           t == Without(s, out)
<1>1. m \in Nat /\ DOMAIN s = 1..m /\ p \in 0..m /\ p \in Nat /\ p <= m
  BY LenProperties
<1>2. t = [i \in DOMAIN kept |-> s[kept[i]]]
  BY <1>1 DEF Without
<1> HIDE DEF m, n, t
<1>3. /\ n \in 0..p
      /\ kept \in Seq((1..m) \ out) /\ Len(kept) = m - n
      /\ ToSet(kept) = (1..m) \ out
      /\ \A i, j \in 1..(m - n) : kept[i] = kept[j] => i = j
      /\ \A i \in 1..(p - n) : kept[i] \in 1..p
      /\ \A x \in (p + 1)..m : kept[x - n] = x
  <2>1. m \in Nat /\ p \in 0..m
    BY <1>1
  <2>2. LET c == Cardinality(out)
        IN  /\ c \in 0..p
            /\ kept \in Seq((1..m) \ out) /\ Len(kept) = m - c
            /\ ToSet(kept) = (1..m) \ out
            /\ \A i, j \in 1..(m - c) : kept[i] = kept[j] => i = j
            /\ \A i \in 1..(p - c) : kept[i] \in 1..p
            /\ \A x \in (p + 1)..m : kept[x - c] = x
    BY <2>1, KeptPlaces
  <2> HIDE DEF kept
  <2> QED BY <2>2 DEF n
<1> HIDE DEF kept
<1>4. /\ n \in Nat /\ m - n \in Nat /\ DOMAIN kept = 1..(m - n)
      /\ \A i \in 1..(m - n) : kept[i] \in 1..m /\ kept[i] \notin out
  BY <1>1, <1>3, LenProperties, ElementOfSeq
<1>5. t \in [1..(m - n) -> T]
  BY <1>1, <1>2, <1>4, ElementOfSeq DEF m
<1>6. t \in Seq(T) /\ Len(t) = m - n /\ DOMAIN t = 1..(m - n)
  BY <1>4, <1>5, FunctionIsSeq
<1>7. \A i, j \in DOMAIN t : t[i] = t[j] => i = j
  BY <1>1, <1>2, <1>3, <1>4, <1>6
<1>8. ToSet(t) = ToSet(s) \ {s[i] : i \in out}
  <2>1. \A x \in (1..m) \ out : \E i \in 1..(m - n) : kept[i] = x
    BY <1>3, <1>4 DEF ToSet
  <2>2. \A i \in out : i \in 1..m
    BY <1>1
  <2>3. ToSet(t) \subseteq ToSet(s) \ {s[i] : i \in out}
    BY <1>1, <1>2, <1>4, <2>2 DEF ToSet
  <2>4. ToSet(s) \ {s[i] : i \in out} \subseteq ToSet(t)
    <3>1. ASSUME NEW x \in (1..m) \ out PROVE s[x] \in ToSet(t)
      <4>1. PICK i \in 1..(m - n) : kept[i] = x
        BY <2>1
      <4>2. t[i] = s[x] /\ i \in DOMAIN t
        BY <1>2, <1>4, <4>1
      <4> QED BY <4>2 DEF ToSet
    <3>2. ASSUME NEW y \in ToSet(s), y \notin {s[i] : i \in out}
          PROVE  \E x \in (1..m) \ out : s[x] = y
      BY <3>2, <1>1 DEF ToSet
    <3> QED BY <3>1, <3>2
  <2> QED BY <2>3, <2>4
<1>9. ASSUME NEW i \in 1..(p - n) PROVE \E j \in 1..p : t[i] = s[j]
  <2>1. kept[i] \in 1..p
    BY <1>3
  <2>2. i \in 1..(m - n)
    BY <1>1, <1>4
  <2> QED BY <2>1, <2>2, <1>2, <1>4
<1>10. \A x \in (p + 1)..m : t[x - n] = s[x]
  BY <1>1, <1>2, <1>3, <1>4
<1> QED BY <1>3, <1>6, <1>7, <1>8, <1>9, <1>10 DEF m, n, t, Shortened

(* As many elements as places. *)
LEMMA ImageSize ==
  ASSUME NEW s, \A i, j \in DOMAIN s : s[i] = s[j] => i = j,
         NEW out \in SUBSET DOMAIN s, IsFiniteSet(out)
  PROVE  LET image == {s[i] : i \in out}
         IN  IsFiniteSet(image) /\ Cardinality(image) = Cardinality(out)
<1> DEFINE image == {s[i] : i \in out}
           f == [i \in out |-> s[i]]
<1>1. f \in Surjection(out, image) /\ f \in Injection(out, image)
  BY DEF Surjection, Injection, IsInjective
<1> HIDE DEF f, image
<1>2. IsFiniteSet(image) /\ Cardinality(image) = Cardinality(out)
  BY <1>1, FS_Surjection
<1> QED BY <1>2 DEF image

(* The clients in a state. *)
That(s, st) == {c \in DOMAIN s : s[c] = st}

LEMMA ThatFinite ==
  ASSUME NEW s \in Seq(ClientStates), NEW st
  PROVE  IsFiniteSet(That(s, st)) /\ Cardinality(That(s, st)) \in Nat
<1>1. Len(s) \in Nat /\ DOMAIN s = 1..Len(s)
  BY LenProperties
<1>2. IsFiniteSet(1..Len(s)) /\ That(s, st) \in SUBSET (1..Len(s))
  BY <1>1, FS_Interval DEF That
<1>3. IsFiniteSet(That(s, st))
  BY <1>2, FS_Subset
<1> QED BY <1>3, FS_CardinalityType

(* What new clients change. *)
LEMMA ThatCreated ==
  ASSUME state \in Seq(ClientStates), NEW n \in Nat,
         state' = state \o [i \in 1..n |-> "connecting"]
  PROVE  /\ state' \in Seq(ClientStates) /\ Len(state') = Len(state) + n
         /\ DOMAIN state' = DOMAIN state \cup NewIds(n)
         /\ DOMAIN state \cap NewIds(n) = {}
         /\ IsFiniteSet(NewIds(n)) /\ Cardinality(NewIds(n)) = n
         /\ \A c \in DOMAIN state : state'[c] = state[c]
         /\ \A c \in NewIds(n) : state'[c] = "connecting"
         /\ ClientsThat("disconnected")' = ClientsThat("disconnected")
         /\ Cardinality(ClientsThat("connecting")')
              = Cardinality(ClientsThat("connecting")) + n
<1> DEFINE s == state
           t == state'
           new == NewIds(n)
           m == Len(s)
           e == [i \in 1..n |-> "connecting"]
<1>1. m \in Nat /\ DOMAIN s = 1..m
  BY LenProperties
<1>2. e \in Seq(ClientStates) /\ Len(e) = n
  <2>1. e \in [1..n -> ClientStates]
    BY DEF ClientStates
  <2> HIDE DEF e
  <2> QED BY <2>1, FunctionIsSeq
<1>3. \A i \in 1..n : e[i] = "connecting"
  OBVIOUS
<1> HIDE DEF e, s, t, new
<1>4. /\ t \in Seq(ClientStates) /\ Len(t) = m + n
      /\ \A i \in 1..(m + n) : t[i] = IF i <= m THEN s[i] ELSE e[i - m]
  <2>1. t = s \o e
    BY DEF e, s, t
  <2>2. /\ s \o e \in Seq(ClientStates) /\ Len(s \o e) = Len(s) + Len(e)
        /\ \A i \in 1..(Len(s) + Len(e)) :
             (s \o e)[i] = IF i <= Len(s) THEN s[i] ELSE e[i - Len(s)]
    BY <1>2, ConcatProperties DEF s
  <2> QED BY <1>2, <2>1, <2>2
<1> HIDE DEF m
<1>5. DOMAIN t = 1..(m + n)
  BY <1>4, LenProperties
<1>6. new = (m + 1)..(m + n)
  BY DEF m, new, s, NewIds
<1>7. DOMAIN t = DOMAIN s \cup new /\ DOMAIN s \cap new = {}
  BY <1>1, <1>5, <1>6
<1>8. IsFiniteSet(new) /\ Cardinality(new) = n
  <2>1. /\ IsFiniteSet((m + 1)..(m + n))
        /\ Cardinality((m + 1)..(m + n))
             = IF m + 1 > m + n THEN 0 ELSE (m + n) - (m + 1) + 1
    <3>1. m + 1 \in Int /\ m + n \in Int
      BY <1>1
    <3> QED BY <3>1, FS_Interval, Zenon
  <2>2. (IF m + 1 > m + n THEN 0 ELSE (m + n) - (m + 1) + 1) = n
    BY <1>1
  <2> QED BY <1>6, <2>1, <2>2
<1>9. \A c \in DOMAIN s : t[c] = s[c]
  BY <1>1, <1>4
<1>10. ASSUME NEW c \in new PROVE t[c] = "connecting"
  <2>1. c \in 1..(m + n) /\ ~(c <= m) /\ c - m \in 1..n
    BY <1>1, <1>6
  <2>2. t[c] = e[c - m]
    BY <1>4, <2>1
  <2> QED BY <1>3, <2>1, <2>2
<1>11. That(t, "disconnected") = That(s, "disconnected")
  BY <1>7, <1>9, <1>10 DEF That
<1>12. /\ That(t, "connecting") = That(s, "connecting") \cup new
       /\ That(s, "connecting") \cap new = {}
  BY <1>7, <1>9, <1>10 DEF That
<1>13. Cardinality(That(t, "connecting"))
        = Cardinality(That(s, "connecting")) + n
  <2>1. /\ IsFiniteSet(That(s, "connecting"))
        /\ Cardinality(That(s, "connecting")) \in Nat
    BY ThatFinite DEF s
  <2>2. Cardinality(That(s, "connecting") \cup new)
          = Cardinality(That(s, "connecting")) + Cardinality(new)
              - Cardinality(That(s, "connecting") \cap new)
    BY <1>8, <2>1, FS_Union
  <2>3. Cardinality(That(s, "connecting") \cap new) = 0
    BY <1>12, FS_EmptySet
  <2>4. Cardinality(That(t, "connecting"))
          = Cardinality(That(s, "connecting")) + n - 0
    BY <1>8, <1>12, <2>2, <2>3, Zenon
  <2> QED BY <2>1, <2>4
<1> QED BY <1>1, <1>4, <1>7, <1>8, <1>9, <1>10, <1>11, <1>13
        DEF m, s, t, new, That, ClientsThat

(* A client comes from one state into another. *)
LEMMA StateChanged ==
  ASSUME NEW s \in Seq(ClientStates), NEW c \in DOMAIN s,
         NEW next \in ClientStates
  PROVE  LET t == [s EXCEPT ![c] = next]
         IN  /\ t \in Seq(ClientStates) /\ Len(t) = Len(s)
             /\ DOMAIN t = DOMAIN s
<1>1. c \in 1..Len(s)
  BY LenProperties
<1> QED BY <1>1, ExceptSeq

-----------------------------------------------------------------------------
(***************************************************************************)
(* The inductive invariant.  It speaks of the round that is on: as long as *)
(* no loop is late, the loops of the other rounds are at rest.             *)
(***************************************************************************)
OnTime == "loop" \notin late

A == loop["add"][round]
R == loop["remove"][round]

(* Clients a loop has still to create or to draw. *)
Unmade(k) ==
  IF loop[k][round].at = "new" THEN loop[k][round].n
  ELSE left[k] + IF loop[k][round].at = "sleep" THEN loop[k][round].n ELSE 0

(* Before the first round there is nothing. *)
Fresh ==
  /\ main \in {"finish", "clear", "poll", "assert"} => round > 0
  /\ main = "batch" => round = 0
  /\ round = 0 =>
       /\ main \in {"top", "batch"} => state = <<>>
       /\ clients = <<>> /\ adds = <<>> /\ removes = {}

(* Where the loops are, and what they hold there. *)
LoopsOfRound ==
  /\ \A k \in Kinds, r \in 1..Rounds :
       r # round => loop[k][r].at \in {"none", "ended"} /\ loop[k][r].hand = {}
  /\ round > 0 =>
       /\ A.at \in LoopSteps \ {"none", "disconnect"}
       /\ A.at # "append" => A.hand = {}
       /\ R.at \in LoopSteps \ {"none", "append"}
       /\ R.at # "disconnect" => R.hand = {}

(* A batch is at least one and at most what is left. *)
Numbers ==
  round > 0 =>
    \A k \in Kinds :
      /\ loop[k][round].at \in {"took", "sleep"} => loop[k][round].n > 0
      /\ loop[k][round].at = "took" => loop[k][round].n <= left[k]
      /\ loop[k][round].at # "new" => left[k] >= 0

(* s.wait counts what is still to be done, and after FinishRound nothing. *)
Counted ==
  round > 0 =>
    /\ wait = Unmade("add") + Unmade("remove") + Cardinality(R.hand)
                + Cardinality(ClientsThat("connecting"))
    /\ main # "finish" => wait = 0

(* Where the clients are: each in one place, but for the disconnected. *)
Placed ==
  round > 0 =>
    /\ \A i, j \in DOMAIN clients : clients[i] = clients[j] => i = j
    /\ \A i \in DOMAIN clients :
         /\ clients[i] \notin A.hand \cup R.hand
         /\ state[clients[i]] # "disconnected"
    /\ \A c \in A.hand : c \notin R.hand /\ state[c] # "disconnected"
    /\ \A c \in R.hand : state[c] = "connected"
    /\ DOMAIN state = ToSet(clients) \cup A.hand \cup R.hand
                        \cup ClientsThat("disconnected")

(* One list is the end of another. *)
EndOf(s, t) ==
  /\ Len(s) <= Len(t)
  /\ \A j \in 1..Len(s) : s[j] = t[Len(t) - Len(s) + j]

(* The clients in front of those of the round are connected. *)
AddsBehind ==
  round > 0 =>
    /\ EndOf(adds, clients)
    /\ \A i \in 1..(Len(clients) - Len(adds)) :
         state[clients[i]] = "connected"
    /\ main \in {"clear", "poll", "assert"} =>
         ToSet(taken.adds) \subseteq ToSet(clients)
    /\ main \in {"clear", "poll", "assert", "top"} /\ A.at = "append" =>
         EndOf(taken.adds, clients)

(* There are as many clients as are to be removed, and in time in front. *)
Enough ==
  round > 0 =>
    /\ Len(clients) >= Unmade("remove")
    /\ "append" \notin late => Len(clients) - Len(adds) >= Unmade("remove")

(* The list of removals. *)
Removed ==
  round > 0 =>
    /\ R.hand \subseteq removes
    /\ removes \subseteq R.hand \cup ClientsThat("disconnected")
    /\ main \in {"finish", "clear"} =>
         Cardinality(removes) = plan["remove"] - Unmade("remove")
    /\ main \in {"poll", "assert", "top"} => removes = {}
    /\ main \in {"clear", "poll", "assert"} =>
         /\ Cardinality(taken.removes) = plan["remove"]
         /\ \A c \in taken.removes : state[c] = "disconnected"

(* The list of additions, while no append has been late. *)
Added ==
  round > 0 /\ "append" \notin late =>
    /\ main = "finish" =>
         Len(adds) + Cardinality(A.hand) + Unmade("add") = plan["add"]
    /\ main # "finish" => A.at # "append"
    /\ main \in {"clear", "poll", "assert"} => Len(taken.adds) = plan["add"]
    /\ main \in {"poll", "assert", "top"} => adds = <<>>

(* The clients that have dialled and those that have gone, with those the
   loops have still to create and to disconnect. *)
Dialled == Len(state) + Unmade("add")
Gone ==
  Cardinality(ClientsThat("disconnected")) + Unmade("remove")
    + Cardinality(R.hand)

(***************************************************************************)
(* If the round began on a row that was up to date, and no append has been *)
(* late, it comes to the connections that the row began with and that were *)
(* planned.                                                                *)
(***************************************************************************)
RowFollows ==
  round > 0 /\ late = {} =>
    start + plan["add"] - plan["remove"] = Dialled - Gone

InTime ==
  OnTime =>
    /\ LoopsOfRound /\ Numbers /\ Counted /\ Placed /\ AddsBehind /\ Enough
    /\ Removed /\ Added /\ RowFollows

IInv == TypeOK /\ Fresh /\ InTime /\ FailsOnlyWhenLate

(* TypeOK in parts. *)
LoopTypes(S) == [Kinds -> [1..Rounds ->
                   [at : LoopSteps, n : Nat, hand : SUBSET S]]]

ControlTypes ==
  /\ main \in MainSteps /\ round \in 0..Rounds
  /\ exit \in Crashes \cup {"none"} /\ late \subseteq {"append", "loop", "row"}

NumberTypes ==
  /\ plan \in [Kinds -> 0..MaxChange] /\ left \in [Kinds -> Int] /\ wait \in Nat

ClientTypes ==
  /\ state \in Seq(ClientStates)
  /\ clients \in Seq(DOMAIN state) /\ adds \in Seq(DOMAIN state)
  /\ removes \subseteq DOMAIN state
  /\ taken.adds \in Seq(DOMAIN state) /\ taken.removes \subseteq DOMAIN state

TableTypes ==
  /\ target \in Targets
  /\ start \in Nat

LEMMA TypeParts ==
  /\ TypeOK <=> /\ ControlTypes /\ NumberTypes /\ ClientTypes /\ TableTypes
                /\ loop \in LoopTypes(DOMAIN state)
  /\ TypeOK' <=> /\ ControlTypes' /\ NumberTypes' /\ ClientTypes'
                 /\ TableTypes' /\ loop' \in LoopTypes(DOMAIN state')
<1> QED BY DEF TypeOK, ControlTypes, NumberTypes, ClientTypes, TableTypes,
               LoopTypes

-----------------------------------------------------------------------------
(* One loop goes on, the others stay where they are. *)
LEMMA LoopGoes ==
  ASSUME NEW S, NEW l \in LoopTypes(S), NEW T, S \subseteq T,
         NEW k \in Kinds, NEW r \in 1..Rounds,
         NEW at \in LoopSteps, NEW n \in Nat, NEW hand \in SUBSET T
  PROVE  LET m == [l EXCEPT ![k][r] = Loop(at, n, hand)]
         IN  /\ m \in LoopTypes(T)
             /\ m[k][r].at = at /\ m[k][r].n = n /\ m[k][r].hand = hand
             /\ \A q \in 1..Rounds : q # r => m[k][q] = l[k][q]
             /\ \A j \in Kinds : j # k => m[j] = l[j]
<1> DEFINE m == [l EXCEPT ![k][r] = Loop(at, n, hand)]
           LoopType(D) == [at : LoopSteps, n : Nat, hand : SUBSET D]
           row1 == [l[k] EXCEPT ![r] = Loop(at, n, hand)]
<1>1. /\ DOMAIN l = Kinds
      /\ \A j \in Kinds : l[j] \in [1..Rounds -> LoopType(S)]
  BY DEF LoopTypes
<1>2. /\ Loop(at, n, hand) \in LoopType(T)
      /\ \A x \in LoopType(S) : x \in LoopType(T)
  BY DEF Loop
<1>3. m = [l EXCEPT ![k] = row1]
  OBVIOUS
<1> HIDE DEF LoopType, m
<1>4. /\ row1 \in [1..Rounds -> LoopType(T)]
      /\ row1[r] = Loop(at, n, hand)
      /\ \A q \in 1..Rounds : q # r => row1[q] = l[k][q]
  BY <1>1, <1>2
<1> HIDE DEF row1
<1>5. \A j \in Kinds : l[j] \in [1..Rounds -> LoopType(T)]
  BY <1>1, <1>2
<1>6. m \in [Kinds -> [1..Rounds -> LoopType(T)]]
  BY <1>1, <1>3, <1>4, <1>5
<1>7. m \in LoopTypes(T)
  BY <1>6 DEF LoopTypes, LoopType
<1>8. m[k] = row1 /\ \A j \in Kinds : j # k => m[j] = l[j]
  BY <1>1, <1>3
<1>9. m[k][r] = Loop(at, n, hand)
  BY <1>4, <1>8
<1>10. \A q \in 1..Rounds : q # r => m[k][q] = l[k][q]
  BY <1>4, <1>8
<1> QED BY <1>7, <1>8, <1>9, <1>10 DEF Loop, m

(* Only the loops of the round do something. *)
LEMMA OnlyRound ==
  ASSUME IInv, Running, NEW k \in Kinds, NEW r \in 1..Rounds,
         loop[k][r].at \notin {"none", "ended"}
  PROVE  r = round /\ round > 0
<1> QED BY DEF IInv, InTime, LoopsOfRound, Running, OnTime

(* What the invariant says of a round in time. *)
LEMMA PartsInTime ==
  ASSUME IInv, OnTime
  PROVE  /\ ControlTypes /\ NumberTypes /\ ClientTypes
         /\ loop \in LoopTypes(DOMAIN state)
         /\ LoopsOfRound /\ Numbers /\ Counted /\ Placed /\ AddsBehind
         /\ Removed /\ Added
<1> QED BY TypeParts DEF IInv, InTime

(* What the invariant says while the simulation runs. *)
LEMMA Unpacked ==
  ASSUME IInv, Running
  PROVE  /\ ControlTypes /\ NumberTypes /\ ClientTypes /\ TableTypes
         /\ loop \in LoopTypes(DOMAIN state)
         /\ Fresh /\ exit = "none" /\ OnTime
         /\ LoopsOfRound /\ Numbers /\ Counted /\ Placed /\ AddsBehind
         /\ Enough /\ Removed /\ Added /\ RowFollows
<1> QED BY TypeParts DEF IInv, InTime, Running, OnTime

THEOREM InitIInv == Init => IInv
<1> SUFFICES ASSUME Init PROVE IInv
  OBVIOUS
<1>1. Rounds \in Nat /\ MaxChange \in Nat
  BY ConstantsAssumption
<1>2. ControlTypes /\ NumberTypes /\ TableTypes
  BY <1>1 DEF Init, ControlTypes, NumberTypes, TableTypes, MainSteps
<1>3. ClientTypes
  BY EmptySeq DEF Init, ClientTypes
<1>4. loop \in LoopTypes(DOMAIN state)
  BY DEF Init, LoopTypes, Loop, LoopSteps
<1>5. Fresh
  BY DEF Init, Fresh
<1>6. InTime
  BY DEF Init, InTime, LoopsOfRound, Numbers, Counted, Placed, AddsBehind,
         Enough, Removed, Added, RowFollows, Loop
<1>7. FailsOnlyWhenLate
  BY DEF Init, FailsOnlyWhenLate
<1> QED BY <1>2, <1>3, <1>4, <1>5, <1>6, <1>7, TypeParts DEF IInv

-----------------------------------------------------------------------------
(***************************************************************************)
(* The steps of the loops that move numbers only.                          *)
(***************************************************************************)
LEMMA NumbersOnly ==
  ASSUME IInv, Running, round > 0,
         UNCHANGED <<main, round, plan, state, listVars, wait, tableVars, late>>,
         loop' \in LoopTypes(DOMAIN state), left' \in [Kinds -> Int],
         exit' = "none",
         LoopsOfRound', Numbers',
         A.hand' = A.hand, R.hand' = R.hand, A.at' = "append" <=> A.at = "append",
         Unmade("add")' = Unmade("add"), Unmade("remove")' = Unmade("remove")
  PROVE  IInv'
<1> USE Unpacked
<1>1. UNCHANGED <<clients, adds, removes, taken, target, start>>
  BY DEF listVars, tableVars
<1>2. ControlTypes' /\ NumberTypes' /\ ClientTypes' /\ TableTypes'
  BY <1>1 DEF ControlTypes, NumberTypes, ClientTypes, TableTypes
<1>3. TypeOK'
  BY <1>2, TypeParts, state' = state
<1>4. Fresh'
  BY <1>1 DEF Fresh
<1>5. Counted'
  BY <1>1 DEF Counted, ClientsThat
<1>6. Placed'
  BY <1>1 DEF Placed, ClientsThat
<1>7. AddsBehind'
  BY <1>1 DEF AddsBehind
<1>8. Enough'
  BY <1>1 DEF Enough
<1>9. Removed'
  BY <1>1 DEF Removed, ClientsThat
<1>10. Added'
  BY <1>1 DEF Added
<1>11. RowFollows'
  BY <1>1 DEF RowFollows, Dialled, Gone, ClientsThat
<1>12. FailsOnlyWhenLate'
  BY DEF FailsOnlyWhenLate
<1> QED BY <1>3, <1>4, <1>5, <1>6, <1>7, <1>8, <1>9, <1>10, <1>11, <1>12
        DEF IInv, InTime

(* A loop goes on without clients in its hands. *)
LEMMA LoopMoves ==
  ASSUME IInv, Running, round > 0, NEW k \in Kinds,
         NEW at \in {"loop", "took", "sleep", "ended"}, NEW n \in Nat,
         Goes(k, round, Loop(at, n, {})), round' = round,
         loop[k][round].at \notin {"append", "disconnect"}
  PROVE  /\ loop' \in LoopTypes(DOMAIN state)
         /\ loop'[k][round].at = at /\ loop'[k][round].n = n
         /\ \A j \in Kinds : j # k => loop'[j][round] = loop[j][round]
         /\ LoopsOfRound'
         /\ A.hand' = A.hand /\ R.hand' = R.hand
         /\ A.at' = "append" <=> A.at = "append"
<1>1. round \in 1..Rounds /\ at \in LoopSteps /\ loop \in LoopTypes(DOMAIN state)
  BY Unpacked, ConstantsAssumption DEF ControlTypes, LoopSteps
<1>2. /\ loop' \in LoopTypes(DOMAIN state)
      /\ loop'[k][round].at = at /\ loop'[k][round].n = n
      /\ loop'[k][round].hand = {}
      /\ \A j \in Kinds, q \in 1..Rounds :
           j # k \/ q # round => loop'[j][q] = loop[j][q]
  <2>1. loop' = [loop EXCEPT ![k][round] = Loop(at, n, {})]
    BY DEF Goes
  <2>2. {} \in SUBSET DOMAIN state /\ DOMAIN state \subseteq DOMAIN state
    OBVIOUS
  <2> DEFINE m == [loop EXCEPT ![k][round] = Loop(at, n, {})]
  <2>3. /\ m \in LoopTypes(DOMAIN state)
        /\ m[k][round].at = at /\ m[k][round].n = n /\ m[k][round].hand = {}
        /\ \A q \in 1..Rounds : q # round => m[k][q] = loop[k][q]
        /\ \A j \in Kinds : j # k => m[j] = loop[j]
    BY <1>1, <2>2, LoopGoes
  <2> HIDE DEF m
  <2> QED BY <2>1, <2>3 DEF m
<1>3. LoopsOfRound
  BY Unpacked
<1>4. LoopsOfRound'
  BY <1>1, <1>2, <1>3 DEF LoopsOfRound, A, R, Kinds, LoopSteps
<1>5. /\ A.hand' = A.hand /\ R.hand' = R.hand
      /\ A.at' = "append" <=> A.at = "append"
  BY <1>1, <1>2, <1>3 DEF LoopsOfRound, A, R, Kinds
<1> QED BY <1>1, <1>2, <1>4, <1>5

LEMMA LoopSetIInv ==
  ASSUME IInv, Running, NEW k \in Kinds, NEW r \in 1..Rounds, LoopSet(k, r)
  PROVE  IInv'
<1>1. r = round /\ round > 0 /\ loop[k][round].at = "new"
  BY OnlyRound DEF LoopSet
<1>2. Goes(k, round, Loop("loop", 0, {})) /\ round' = round
  BY <1>1 DEF LoopSet
<1>3. /\ loop' \in LoopTypes(DOMAIN state)
      /\ loop'[k][round].at = "loop"
      /\ \A j \in Kinds : j # k => loop'[j][round] = loop[j][round]
      /\ LoopsOfRound'
      /\ A.hand' = A.hand /\ R.hand' = R.hand
      /\ A.at' = "append" <=> A.at = "append"
  BY <1>1, <1>2, LoopMoves
<1>4. /\ loop[k][round].n \in Nat
      /\ left' \in [Kinds -> Int]
      /\ left'[k] = loop[k][round].n
      /\ \A j \in Kinds : j # k => left'[j] = left[j]
  BY <1>1, Unpacked, ConstantsAssumption
     DEF LoopSet, NumberTypes, LoopTypes, ControlTypes
<1>5. \A j \in Kinds : Unmade(j)' = Unmade(j)
  BY <1>1, <1>2, <1>3, <1>4 DEF Unmade
<1>6. Numbers'
  BY <1>1, <1>2, <1>3, <1>4, Unpacked DEF Numbers
<1>7. exit' = "none"
  BY Unpacked DEF LoopSet
<1> QED BY <1>1, <1>3, <1>4, <1>5, <1>6, <1>7, NumbersOnly DEF LoopSet, Kinds

LEMMA LoopTakeIInv ==
  ASSUME IInv, Running, NEW k \in Kinds, NEW r \in 1..Rounds, LoopTake(k, r)
  PROVE  IInv'
<1>1. r = round /\ round > 0 /\ loop[k][round].at = "loop" /\ round' = round
  BY OnlyRound DEF LoopTake
<1>2. left[k] \in Nat /\ MaxBatch \in Nat
  BY <1>1, Unpacked, ConstantsAssumption DEF Numbers, NumberTypes
<1>3. PICK at \in {"took", "ended"}, n \in Nat :
        /\ Goes(k, round, Loop(at, n, {}))
        /\ at = "took" => n > 0 /\ n <= left[k]
  <2>1. CASE left[k] > 0
    <3>1. PICK n \in NextBatch(left[k]) : Goes(k, round, Loop("took", n, {}))
      BY <1>1, <2>1 DEF LoopTake
    <3>2. n \in Nat /\ n > 0 /\ n <= left[k]
      BY <1>2, <2>1 DEF NextBatch
    <3> QED BY <3>1, <3>2
  <2>2. CASE ~(left[k] > 0)
    BY <1>1, <2>2 DEF LoopTake
  <2> QED BY <2>1, <2>2
<1>4. /\ loop' \in LoopTypes(DOMAIN state)
      /\ loop'[k][round].at = at /\ loop'[k][round].n = n
      /\ \A j \in Kinds : j # k => loop'[j][round] = loop[j][round]
      /\ LoopsOfRound'
      /\ A.hand' = A.hand /\ R.hand' = R.hand
      /\ A.at' = "append" <=> A.at = "append"
  BY <1>1, <1>3, LoopMoves
<1>5. left' = left /\ exit' = "none" /\ left \in [Kinds -> Int]
  BY Unpacked DEF LoopTake, NumberTypes
<1>6. \A j \in Kinds : Unmade(j)' = Unmade(j)
  BY <1>1, <1>3, <1>4, <1>5 DEF Unmade
<1>7. Numbers'
  BY <1>1, <1>2, <1>3, <1>4, <1>5, Unpacked DEF Numbers
<1> QED BY <1>1, <1>4, <1>5, <1>6, <1>7, NumbersOnly DEF LoopTake, Kinds

LEMMA AdderTookIInv ==
  ASSUME IInv, Running, NEW r \in 1..Rounds, AdderTook(r)
  PROVE  IInv'
<1> DEFINE k == "add"
           n == loop[k][round].n
<1>1. /\ k \in Kinds /\ r = round /\ round > 0 /\ loop[k][round].at = "took"
      /\ round' = round
  BY OnlyRound DEF AdderTook, Kinds
<1>2. n \in Nat /\ n > 0 /\ n <= left[k] /\ left[k] \in Int
  BY <1>1, Unpacked, ConstantsAssumption
     DEF Numbers, NumberTypes, LoopTypes, ControlTypes
<1>3. /\ left' \in [Kinds -> Int] /\ left'[k] = left[k] - n
      /\ \A j \in Kinds : j # k => left'[j] = left[j]
  BY <1>1, <1>2, Unpacked DEF AdderTook, NumberTypes
<1>4. Goes(k, round, Loop("sleep", n, {})) /\ exit' = "none"
  BY <1>1, <1>2, <1>3, Unpacked DEF AdderTook
<1>5. /\ loop' \in LoopTypes(DOMAIN state)
      /\ loop'[k][round].at = "sleep" /\ loop'[k][round].n = n
      /\ \A j \in Kinds : j # k => loop'[j][round] = loop[j][round]
      /\ LoopsOfRound'
      /\ A.hand' = A.hand /\ R.hand' = R.hand
      /\ A.at' = "append" <=> A.at = "append"
  BY <1>1, <1>2, <1>4, LoopMoves
<1> HIDE DEF k, n
<1>6. \A j \in Kinds : Unmade(j)' = Unmade(j)
  BY <1>1, <1>2, <1>3, <1>5 DEF Unmade
<1>7. Numbers'
  BY <1>1, <1>2, <1>3, <1>5, Unpacked DEF Numbers
<1> QED BY <1>1, <1>3, <1>4, <1>5, <1>6, <1>7, NumbersOnly DEF AdderTook, Kinds

(* There are clients to remove: nothing is forgotten. *)
LEMMA RemoverTookIInv ==
  ASSUME IInv, Running, NEW r \in 1..Rounds, RemoverTook(r)
  PROVE  IInv'
<1> DEFINE k == "remove"
           n == loop[k][round].n
<1>1. /\ k \in Kinds /\ r = round /\ round > 0 /\ loop[k][round].at = "took"
      /\ round' = round
  BY OnlyRound DEF RemoverTook, Kinds
<1>2. n \in Nat /\ n > 0 /\ n <= left[k] /\ left[k] \in Int
  BY <1>1, Unpacked, ConstantsAssumption
     DEF Numbers, NumberTypes, LoopTypes, ControlTypes
<1>3. /\ left' \in [Kinds -> Int] /\ left'[k] = left[k] - n
      /\ \A j \in Kinds : j # k => left'[j] = left[j]
  BY <1>1, <1>2, Unpacked DEF RemoverTook, NumberTypes
<1>4. Len(clients) # 0
  <2>1. Unmade(k) = left[k]
    BY <1>1, <1>2 DEF Unmade
  <2>2. Len(clients) >= Unmade(k)
    BY <1>1, Unpacked DEF Enough
  <2> QED BY <1>2, <2>1, <2>2
<1>5. Goes(k, round, Loop("sleep", n, {})) /\ exit' = "none"
  BY <1>1, <1>4, Unpacked DEF RemoverTook
<1>6. /\ loop' \in LoopTypes(DOMAIN state)
      /\ loop'[k][round].at = "sleep" /\ loop'[k][round].n = n
      /\ \A j \in Kinds : j # k => loop'[j][round] = loop[j][round]
      /\ LoopsOfRound'
      /\ A.hand' = A.hand /\ R.hand' = R.hand
      /\ A.at' = "append" <=> A.at = "append"
  BY <1>1, <1>2, <1>5, LoopMoves
<1> HIDE DEF k, n
<1>7. \A j \in Kinds : Unmade(j)' = Unmade(j)
  BY <1>1, <1>2, <1>3, <1>6 DEF Unmade
<1>8. Numbers'
  BY <1>1, <1>2, <1>3, <1>6, Unpacked DEF Numbers
<1> QED BY <1>1, <1>3, <1>5, <1>6, <1>7, <1>8, NumbersOnly
        DEF RemoverTook, Kinds

-----------------------------------------------------------------------------
(***************************************************************************)
(* What the parts of the invariant have in common.                         *)
(***************************************************************************)
LEMMA RoundTypes ==
  ASSUME IInv, OnTime, round > 0
  PROVE  /\ round \in 1..Rounds
         /\ \A k \in Kinds : Unmade(k) \in Nat
         /\ A.hand \subseteq DOMAIN state /\ R.hand \subseteq DOMAIN state
         /\ IsFiniteSet(DOMAIN state)
         /\ IsFiniteSet(A.hand) /\ IsFiniteSet(R.hand)
         /\ Cardinality(A.hand) \in Nat /\ Cardinality(R.hand) \in Nat
         /\ \A st : /\ IsFiniteSet(ClientsThat(st))
                    /\ Cardinality(ClientsThat(st)) \in Nat
<1>1. round \in 1..Rounds /\ state \in Seq(ClientStates)
  BY PartsInTime, ConstantsAssumption DEF ControlTypes, ClientTypes
<1>2. \A k \in Kinds : /\ loop[k][round] \in [at : LoopSteps, n : Nat,
                                             hand : SUBSET DOMAIN state]
                       /\ left[k] \in Int
  <2>1. ASSUME NEW k \in Kinds
        PROVE  loop[k][round] \in [at : LoopSteps, n : Nat,
                                  hand : SUBSET DOMAIN state]
    <3>1. loop \in LoopTypes(DOMAIN state)
      BY PartsInTime
    <3>2. loop[k] \in [1..Rounds -> [at : LoopSteps, n : Nat,
                                    hand : SUBSET DOMAIN state]]
      BY <3>1 DEF LoopTypes
    <3> QED BY <1>1, <3>2
  <2> QED BY <2>1, PartsInTime DEF NumberTypes
<1>3. \A k \in Kinds : Unmade(k) \in Nat
  BY <1>2, PartsInTime DEF Unmade, Numbers
<1>4. A.hand \subseteq DOMAIN state /\ R.hand \subseteq DOMAIN state
  BY <1>2 DEF A, R, Kinds
<1>5. IsFiniteSet(DOMAIN state)
  <2>1. Len(state) \in Nat /\ DOMAIN state = 1..Len(state)
    BY <1>1, LenProperties
  <2> QED BY <2>1, FS_Interval
<1>6. IsFiniteSet(A.hand) /\ IsFiniteSet(R.hand)
  BY <1>4, <1>5, FS_Subset
<1>7. Cardinality(A.hand) \in Nat /\ Cardinality(R.hand) \in Nat
  BY <1>6, FS_CardinalityType
<1>8. \A st : /\ IsFiniteSet(ClientsThat(st))
              /\ Cardinality(ClientsThat(st)) \in Nat
  BY <1>1, ThatFinite DEF ClientsThat, That
<1> QED BY <1>1, <1>3, <1>4, <1>5, <1>6, <1>7, <1>8

(* Once nobody waits, everything has been done. *)
LEMMA AllDone ==
  ASSUME IInv, OnTime, round > 0, wait = 0
  PROVE  /\ Unmade("add") = 0 /\ Unmade("remove") = 0
         /\ R.hand = {} /\ Cardinality(R.hand) = 0
         /\ \A c \in DOMAIN state : state[c] # "connecting"
<1>1. /\ Unmade("add") \in Nat /\ Unmade("remove") \in Nat
      /\ Cardinality(R.hand) \in Nat /\ IsFiniteSet(R.hand)
      /\ Cardinality(ClientsThat("connecting")) \in Nat
      /\ IsFiniteSet(ClientsThat("connecting"))
  BY RoundTypes DEF Kinds
<1>2. 0 = Unmade("add") + Unmade("remove") + Cardinality(R.hand)
            + Cardinality(ClientsThat("connecting"))
  BY PartsInTime DEF Counted
<1>3. /\ Unmade("add") = 0 /\ Unmade("remove") = 0
      /\ Cardinality(R.hand) = 0
      /\ Cardinality(ClientsThat("connecting")) = 0
  BY <1>1, <1>2
<1>4. R.hand = {} /\ ClientsThat("connecting") = {}
  BY <1>1, <1>3, FS_EmptySet
<1> QED BY <1>3, <1>4 DEF ClientsThat

LEMMA EndOfSubset ==
  ASSUME NEW T, NEW s \in Seq(T), NEW t \in Seq(T), EndOf(s, t)
  PROVE  ToSet(s) \subseteq ToSet(t)
<1> DEFINE m == Len(s)
           n == Len(t)
<1>1. /\ m \in Nat /\ n \in Nat /\ DOMAIN s = 1..m /\ DOMAIN t = 1..n
      /\ m <= n
  BY LenProperties DEF EndOf
<1>2. \A j \in 1..m : s[j] = t[n - m + j]
  BY DEF EndOf
<1> HIDE DEF m, n
<1>3. ASSUME NEW j \in 1..m PROVE s[j] \in ToSet(t)
  <2>1. n - m + j \in DOMAIN t
    BY <1>1
  <2> QED BY <2>1, <1>2 DEF ToSet
<1> QED BY <1>1, <1>3 DEF ToSet

-----------------------------------------------------------------------------
(***************************************************************************)
(* The steps of the main goroutine.                                        *)
(***************************************************************************)
LEMMA TakeListsIInv ==
  ASSUME IInv, Running, TakeLists
  PROVE  IInv'
<1> USE Unpacked
<1>1. /\ main = "finish" /\ main' = "clear" /\ wait = 0 /\ round > 0
      /\ UNCHANGED <<round, plan, left, loop, state, clients, adds, removes,
                     wait, target, start, exit>>
      /\ taken' = [adds |-> adds, removes |-> removes]
      /\ late \subseteq late' /\ late' \subseteq late \cup {"append"}
      /\ "append" \notin late' => "append" \notin late /\ A.at # "append"
  BY DEF TakeLists, tableVars, Fresh, A
<1>2. /\ Unmade("add") = 0 /\ Unmade("remove") = 0 /\ R.hand = {}
      /\ A' = A /\ R' = R
      /\ Unmade("add")' = Unmade("add") /\ Unmade("remove")' = Unmade("remove")
      /\ \A st : ClientsThat(st)' = ClientsThat(st)
  BY <1>1, AllDone DEF A, R, Unmade, ClientsThat
<1>3. /\ ControlTypes' /\ NumberTypes' /\ ClientTypes' /\ TableTypes'
      /\ loop' \in LoopTypes(DOMAIN state')
  BY <1>1 DEF ControlTypes, NumberTypes, ClientTypes, TableTypes, MainSteps
<1>4. Fresh'
  BY <1>1 DEF Fresh
<1>5. LoopsOfRound' /\ Numbers'
  BY <1>1, <1>2 DEF LoopsOfRound, Numbers
<1>6. Counted'
  BY <1>1, <1>2 DEF Counted
<1>7. Placed'
  BY <1>1, <1>2 DEF Placed
<1>8. AddsBehind'
  <2>1. ToSet(adds) \subseteq ToSet(clients)
    BY <1>1, EndOfSubset DEF AddsBehind, ClientTypes
  <2> QED BY <1>1, <1>2, <2>1 DEF AddsBehind
<1>9. Enough'
  BY <1>1, <1>2 DEF Enough
<1>10. Removed'
  <2>1. /\ Cardinality(removes) = plan["remove"] - 0
        /\ plan["remove"] \in 0..MaxChange
    BY <1>1, <1>2 DEF Removed, NumberTypes, Kinds
  <2>2. Cardinality(removes) = plan["remove"]
    BY <2>1, ConstantsAssumption
  <2> QED BY <1>1, <1>2, <2>1, <2>2 DEF Removed, ClientsThat
<1>11. Added'
  <2>1. ASSUME "append" \notin late'
        PROVE  Len(adds) = plan["add"] /\ A.at # "append"
    <3>1. A.hand = {}
      BY <1>1, <2>1 DEF LoopsOfRound
    <3>2. Len(adds) + Cardinality(A.hand) + 0 = plan["add"]
      BY <1>1, <1>2, <2>1 DEF Added
    <3>3. Len(adds) \in Nat /\ Cardinality({}) = 0
      BY LenProperties, FS_EmptySet DEF ClientTypes
    <3> QED BY <1>1, <2>1, <3>1, <3>2, <3>3
  <2> QED BY <1>1, <1>2, <2>1 DEF Added
<1>12. RowFollows'
  BY <1>1, <1>2 DEF RowFollows, Dialled, Gone
<1>13. FailsOnlyWhenLate'
  BY <1>1 DEF FailsOnlyWhenLate
<1> QED BY <1>3, <1>4, <1>5, <1>6, <1>7, <1>8, <1>9, <1>10, <1>11, <1>12, <1>13,
           TypeParts
        DEF IInv, InTime

LEMMA ClearListsIInv ==
  ASSUME IInv, Running, ClearLists
  PROVE  IInv'
<1> USE Unpacked
<1>1. /\ main = "clear" /\ main' = "poll" /\ round > 0
      /\ UNCHANGED <<round, plan, left, loop, state, clients, taken, wait,
                     target, start, exit, late>>
      /\ adds' = <<>> /\ removes' = {}
  BY DEF ClearLists, tableVars, Fresh
<1>2. wait = 0
  BY <1>1 DEF Counted
<1>3. /\ Unmade("add") = 0 /\ Unmade("remove") = 0 /\ R.hand = {}
      /\ \A c \in DOMAIN state : state[c] # "connecting"
      /\ A' = A /\ R' = R
      /\ Unmade("add")' = Unmade("add") /\ Unmade("remove")' = Unmade("remove")
      /\ \A st : ClientsThat(st)' = ClientsThat(st)
  BY <1>1, <1>2, AllDone DEF A, R, Unmade, ClientsThat
<1>4. /\ ControlTypes' /\ NumberTypes' /\ ClientTypes' /\ TableTypes'
      /\ loop' \in LoopTypes(DOMAIN state')
  BY <1>1, EmptySeq
     DEF ControlTypes, NumberTypes, ClientTypes, TableTypes, MainSteps
<1>5. Fresh'
  BY <1>1 DEF Fresh
<1>6. LoopsOfRound' /\ Numbers'
  BY <1>1, <1>3 DEF LoopsOfRound, Numbers
<1>7. Counted'
  BY <1>1, <1>2, <1>3 DEF Counted
<1>8. Placed'
  BY <1>1, <1>3 DEF Placed
<1>9. Len(clients) \in Nat /\ DOMAIN clients = 1..Len(clients)
      /\ Len(adds') = 0
  BY <1>1, LenProperties, EmptySeq DEF ClientTypes
<1>10. AddsBehind'
  <2>1. \A i \in DOMAIN clients : state[clients[i]] = "connected"
    <3>1. ASSUME NEW i \in DOMAIN clients PROVE state[clients[i]] = "connected"
      <4>1. clients[i] \in DOMAIN state
        BY <1>9, ElementOfSeq DEF ClientTypes
      <4>2. state[clients[i]] \in ClientStates
        BY <4>1, LenProperties DEF ClientTypes
      <4> QED BY <1>1, <1>3, <4>1, <4>2 DEF Placed, ClientStates
    <3> QED BY <3>1
  <2>2. EndOf(adds', clients)
    BY <1>9 DEF EndOf
  <2> QED BY <1>1, <1>3, <1>9, <2>1, <2>2 DEF AddsBehind
<1>11. Enough'
  BY <1>1, <1>3, <1>9 DEF Enough
<1>12. Removed'
  BY <1>1, <1>3 DEF Removed
<1>13. Added'
  BY <1>1, <1>3 DEF Added
<1>14. RowFollows'
  BY <1>1, <1>3 DEF RowFollows, Dialled, Gone
<1>15. FailsOnlyWhenLate'
  BY <1>1 DEF FailsOnlyWhenLate
<1> QED BY <1>4, <1>5, <1>6, <1>7, <1>8, <1>10, <1>11, <1>12, <1>13, <1>14,
           <1>15, TypeParts, <1>1
        DEF IInv, InTime

LEMMA WaitForRoundIInv ==
  ASSUME IInv, Running, WaitForRound
  PROVE  IInv'
<1> USE Unpacked
<1>1. /\ main = "poll" /\ main' = "assert" /\ round > 0
      /\ UNCHANGED <<round, plan, left, loop, state, clients, adds, removes,
                     taken, wait, target, start, exit, late>>
  BY DEF WaitForRound, listVars, tableVars, Fresh
<1>2. /\ A' = A /\ R' = R
      /\ Unmade("add")' = Unmade("add") /\ Unmade("remove")' = Unmade("remove")
      /\ \A st : ClientsThat(st)' = ClientsThat(st)
  BY <1>1 DEF A, R, Unmade, ClientsThat
<1>3. /\ ControlTypes' /\ NumberTypes' /\ ClientTypes' /\ TableTypes'
      /\ loop' \in LoopTypes(DOMAIN state')
  BY <1>1 DEF ControlTypes, NumberTypes, ClientTypes, TableTypes, MainSteps
<1>4. Fresh'
  BY <1>1 DEF Fresh
<1>5. LoopsOfRound' /\ Numbers'
  BY <1>1, <1>2 DEF LoopsOfRound, Numbers
<1>6. Counted'
  BY <1>1, <1>2 DEF Counted
<1>7. Placed'
  BY <1>1, <1>2 DEF Placed
<1>8. AddsBehind'
  BY <1>1, <1>2 DEF AddsBehind
<1>9. Enough'
  BY <1>1, <1>2 DEF Enough
<1>10. Removed'
  BY <1>1, <1>2 DEF Removed
<1>11. Added'
  BY <1>1, <1>2 DEF Added
<1>12. RowFollows'
  BY <1>1, <1>2 DEF RowFollows, Dialled, Gone
<1>13. FailsOnlyWhenLate'
  BY <1>1 DEF FailsOnlyWhenLate
<1> QED BY <1>1, <1>3, <1>4, <1>5, <1>6, <1>7, <1>8, <1>9, <1>10, <1>11, <1>12,
           <1>13, TypeParts
        DEF IInv, InTime

(***************************************************************************)
(* Once the round is over, the connections have moved by what was planned. *)
(***************************************************************************)
LEMMA RowComplete ==
  ASSUME IInv, Running, round > 0, wait = 0, late = {}
  PROVE  start + plan["add"] - plan["remove"] = Connections
<1>1. start + plan["add"] - plan["remove"] = Dialled - Gone
  BY Unpacked DEF RowFollows
<1>2. Len(state) \in Nat /\ Cardinality(ClientsThat("disconnected")) \in Nat
  BY Unpacked, RoundTypes, LenProperties DEF ClientTypes
<1>3. Dialled = Len(state) /\ Gone = Cardinality(ClientsThat("disconnected"))
  BY <1>2, AllDone, Unpacked DEF Dialled, Gone
<1> QED BY <1>1, <1>3 DEF Connections

LEMMA AssertRoundIInv ==
  ASSUME IInv, Running, AssertRound
  PROVE  IInv'
<1> USE Unpacked
<1>1. /\ main = "assert" /\ main' \in {"assert", "top"} /\ round > 0
      /\ UNCHANGED <<round, plan, left, loop, state, clients, adds, removes,
                     taken, wait, target, start>>
  BY DEF AssertRound, listVars, tableVars, Fresh
<1>2. wait = 0
  BY <1>1 DEF Counted
<1>3. /\ A' = A /\ R' = R
      /\ Unmade("add")' = Unmade("add") /\ Unmade("remove")' = Unmade("remove")
      /\ \A st : ClientsThat(st)' = ClientsThat(st)
  BY <1>1 DEF A, R, Unmade, ClientsThat
<1>4. PICK shown \in Shown :
        /\ late' = late \cup RowLate(shown)
        /\ \/ exit' = "none" /\ main' = "top"
           \/ main' = "assert" /\ exit' = "different_keys" /\ target = "proxy"
           \/ /\ main' = "assert" /\ exit' = "count_mismatch"
              /\ shown # start + Len(taken.adds) - Cardinality(taken.removes)
  BY DEF AssertRound
<1>5. /\ late' \subseteq late \cup {"row"} /\ late \subseteq late'
      /\ OnTime' /\ ("append" \in late' <=> "append" \in late)
      /\ late' = {} => late = {} /\ shown = Connections
  BY <1>4 DEF RowLate, OnTime
<1>6. late' = {} =>
        shown = start + Len(taken.adds) - Cardinality(taken.removes)
  <2> SUFFICES ASSUME late' = {}
               PROVE  shown = start + Len(taken.adds) - Cardinality(taken.removes)
    OBVIOUS
  <2>1. late = {} /\ shown = Connections
    BY <1>5
  <2>2. /\ Len(taken.adds) = plan["add"]
        /\ Cardinality(taken.removes) = plan["remove"]
    BY <1>1, <2>1 DEF Added, Removed
  <2>3. start + plan["add"] - plan["remove"] = Connections
    BY <1>1, <1>2, <2>1, RowComplete
  <2> QED BY <2>1, <2>2, <2>3
<1>7. /\ ControlTypes' /\ NumberTypes' /\ ClientTypes' /\ TableTypes'
      /\ loop' \in LoopTypes(DOMAIN state')
  <2>1. exit' \in Crashes \cup {"none"}
    BY <1>4 DEF Crashes
  <2>2. ControlTypes'
    BY <1>1, <1>5, <2>1 DEF ControlTypes, MainSteps
  <2>3. NumberTypes' /\ ClientTypes' /\ TableTypes'
    BY <1>1 DEF NumberTypes, ClientTypes, TableTypes
  <2> QED BY <1>1, <2>2, <2>3
<1>8. Fresh'
  BY <1>1 DEF Fresh
<1>9. LoopsOfRound' /\ Numbers'
  BY <1>1, <1>3 DEF LoopsOfRound, Numbers
<1>10. Counted'
  BY <1>1, <1>2, <1>3 DEF Counted
<1>11. Placed'
  BY <1>1, <1>3 DEF Placed
<1>12. AddsBehind'
  BY <1>1, <1>3 DEF AddsBehind
<1>13. Enough'
  BY <1>1, <1>3, <1>5 DEF Enough
<1>14. Removed'
  BY <1>1, <1>3 DEF Removed
<1>15. Added'
  BY <1>1, <1>3, <1>5 DEF Added
<1>16. RowFollows'
  BY <1>1, <1>3, <1>5 DEF RowFollows, Dialled, Gone
<1>17. FailsOnlyWhenLate'
  BY <1>1, <1>4, <1>6 DEF FailsOnlyWhenLate
<1> QED BY <1>1, <1>7, <1>8, <1>9, <1>10, <1>11, <1>12, <1>13, <1>14, <1>15,
           <1>16, <1>17, TypeParts
        DEF IInv, InTime

LEMMA SimulationDoneIInv ==
  ASSUME IInv, Running, SimulationDone
  PROVE  IInv'
<1> USE Unpacked
<1>1. /\ main = "top" /\ main' = "done"
      /\ UNCHANGED <<round, plan, left, loop, state, clients, adds, removes,
                     taken, wait, target, start, exit, late>>
  BY DEF SimulationDone, listVars, tableVars
<1>2. /\ A' = A /\ R' = R
      /\ Unmade("add")' = Unmade("add") /\ Unmade("remove")' = Unmade("remove")
      /\ \A st : ClientsThat(st)' = ClientsThat(st)
  BY <1>1 DEF A, R, Unmade, ClientsThat
<1>3. /\ ControlTypes' /\ NumberTypes' /\ ClientTypes' /\ TableTypes'
      /\ loop' \in LoopTypes(DOMAIN state')
  BY <1>1 DEF ControlTypes, NumberTypes, ClientTypes, TableTypes, MainSteps
<1>4. Fresh'
  BY <1>1 DEF Fresh
<1>5. LoopsOfRound' /\ Numbers'
  BY <1>1, <1>2 DEF LoopsOfRound, Numbers
<1>6. Counted'
  BY <1>1, <1>2 DEF Counted
<1>7. Placed'
  BY <1>1, <1>2 DEF Placed
<1>8. AddsBehind'
  BY <1>1, <1>2 DEF AddsBehind
<1>9. Enough'
  BY <1>1, <1>2 DEF Enough
<1>10. Removed'
  BY <1>1, <1>2 DEF Removed
<1>11. Added'
  BY <1>1, <1>2 DEF Added
<1>12. RowFollows'
  BY <1>1, <1>2 DEF RowFollows, Dialled, Gone
<1>13. FailsOnlyWhenLate'
  BY <1>1 DEF FailsOnlyWhenLate
<1> QED BY <1>1, <1>3, <1>4, <1>5, <1>6, <1>7, <1>8, <1>9, <1>10, <1>11, <1>12,
           <1>13, TypeParts
        DEF IInv, InTime

(* Before the first round the other parts ask for nothing. *)
LEMMA NoRoundYet ==
  ASSUME IInv, Running, round = 0, round' = 0, UNCHANGED <<loop, late>>,
         TypeOK', Fresh', FailsOnlyWhenLate'
  PROVE  IInv'
<1>1. LoopsOfRound'
  BY Unpacked DEF LoopsOfRound
<1> QED BY <1>1 DEF IInv, InTime, Numbers, Counted, Placed, AddsBehind, Enough,
                    Removed, Added, RowFollows

LEMMA CreateBatchedConnectionsIInv ==
  ASSUME IInv, Running, CreateBatchedConnections
  PROVE  IInv'
<1> USE Unpacked
<1>1. /\ main = "batch" /\ main' = "done" /\ round = 0 /\ state = <<>>
      /\ UNCHANGED <<round, plan, left, loop, clients, adds, removes, taken,
                     wait, target, start, exit, late>>
  BY DEF CreateBatchedConnections, listVars, tableVars, Fresh
<1>2. PICK n \in 1..MaxChange : state' = [c \in 1..n |-> "connecting"]
  BY DEF CreateBatchedConnections
<1>3. state' \in Seq(ClientStates) /\ DOMAIN state \subseteq DOMAIN state'
  <2>1. n \in Nat
    BY ConstantsAssumption
  <2>2. state' \in [1..n -> ClientStates]
    BY <1>2 DEF ClientStates
  <2> QED BY <1>1, <2>1, <2>2, FunctionIsSeq
<1>4. /\ clients \in Seq(DOMAIN state') /\ adds \in Seq(DOMAIN state')
      /\ taken.adds \in Seq(DOMAIN state')
  BY <1>3, SeqMonotonic DEF ClientTypes
<1>5. ControlTypes' /\ NumberTypes' /\ ClientTypes' /\ TableTypes'
  BY <1>1, <1>3, <1>4
     DEF ControlTypes, NumberTypes, ClientTypes, TableTypes, MainSteps
<1>6. loop' \in LoopTypes(DOMAIN state')
  BY <1>1, <1>3 DEF LoopTypes
<1>7. Fresh' /\ FailsOnlyWhenLate'
  BY <1>1 DEF Fresh, FailsOnlyWhenLate
<1> QED BY <1>1, <1>5, <1>6, <1>7, TypeParts, NoRoundYet

(***************************************************************************)
(* Between the rounds, when no loop is late: nobody is connecting, and     *)
(* nothing is in the hands of a loop.                                      *)
(***************************************************************************)
Rest ==
  /\ ClientsThat("connecting") = {}
  /\ \A i, j \in DOMAIN clients : clients[i] = clients[j] => i = j
  /\ \A i \in DOMAIN clients : state[clients[i]] # "disconnected"
  /\ DOMAIN state = ToSet(clients) \cup ClientsThat("disconnected")
  /\ EndOf(adds, clients)
  /\ \A i \in 1..(Len(clients) - Len(adds)) : state[clients[i]] = "connected"
  /\ "append" \notin late => adds = <<>>
  /\ removes = {}

LEMMA BetweenRounds ==
  ASSUME IInv, Running, main = "top", \A r \in 1..round : ~Alive(r)
  PROVE  /\ Rest
         /\ \A k \in Kinds, r \in 1..Rounds :
              loop[k][r].at \in {"none", "ended"} /\ loop[k][r].hand = {}
<1> USE Unpacked
<1>1. CASE round = 0
  <2>1. /\ state = <<>> /\ clients = <<>> /\ adds = <<>> /\ removes = {}
    BY <1>1 DEF Fresh
  <2>2. \A st : ClientsThat(st) = {}
    BY <2>1 DEF ClientsThat
  <2>3. ToSet(clients) = {} /\ DOMAIN clients = {} /\ Len(clients) = 0
    BY <2>1 DEF ToSet
  <2>5. EndOf(adds, clients)
    BY <2>1, <2>3 DEF EndOf
  <2>6. Rest
    <3>2. DOMAIN state = {} /\ Len(adds) = 0 /\ 1..(0 - 0) = {}
      BY <2>1
    <3> QED BY <2>1, <2>2, <2>3, <2>5, <3>2 DEF Rest
  <2>7. \A k \in Kinds, r \in 1..Rounds :
          loop[k][r].at \in {"none", "ended"} /\ loop[k][r].hand = {}
    BY <1>1 DEF LoopsOfRound
  <2> QED BY <2>6, <2>7
<1>2. CASE round > 0
  <2>1. wait = 0
    BY <1>2 DEF Counted
  <2>2. /\ Unmade("add") = 0 /\ Unmade("remove") = 0
        /\ R.hand = {} /\ Cardinality(R.hand) = 0
        /\ \A c \in DOMAIN state : state[c] # "connecting"
    BY <1>2, <2>1, AllDone
  <2>3. round \in 1..Rounds /\ round \in 1..round
    BY <1>2, RoundTypes
  <2>4. A.at \in {"none", "ended"} /\ R.at \in {"none", "ended"}
    BY <2>3 DEF Alive, Kinds, A, R
  <2>5. A.hand = {}
    BY <1>2, <2>4 DEF LoopsOfRound
  <2>6. \A k \in Kinds, r \in 1..Rounds :
          loop[k][r].at \in {"none", "ended"} /\ loop[k][r].hand = {}
    BY <2>2, <2>4, <2>5 DEF LoopsOfRound, Kinds, A, R
  <2>7. ClientsThat("connecting") = {}
    BY <2>2 DEF ClientsThat
  <2>9. Rest
    BY <1>2, <2>2, <2>5, <2>7
       DEF Rest, Placed, AddsBehind, Added, Removed
  <2> QED BY <2>6, <2>9
<1> QED BY <1>1, <1>2 DEF ControlTypes

LEMMA StartRoundIInv ==
  ASSUME IInv, Running, StartRound
  PROVE  IInv'
<1> USE Unpacked
<1>1. /\ main = "top" /\ main' = "finish" /\ round < Rounds
      /\ round' = round + 1
      /\ UNCHANGED <<left, state, clients, adds, removes, taken, target, exit>>
      /\ start' \in Shown
      /\ late' = (late \ {"row"}) \cup RowLate(start')
           \cup IF \E r \in 1..round : Alive(r) THEN {"loop"} ELSE {}
  BY DEF StartRound, listVars
<1>2. PICK a \in 0..MaxChange, d \in 0..MaxChange :
        /\ d <= Len(clients)
        /\ plan' = [k \in Kinds |-> IF k = "add" THEN a ELSE d]
        /\ wait' = a + d
        /\ loop' = [k \in Kinds |->
                      [loop[k] EXCEPT ![round'] = Loop("new", plan'[k], {})]]
  BY DEF StartRound
<1>3. /\ round \in Nat /\ round' \in 1..Rounds /\ round' # round
      /\ Rounds \in Nat /\ MaxChange \in Nat /\ a \in Nat /\ d \in Nat
  BY <1>1, ConstantsAssumption DEF ControlTypes
<1>4. /\ plan' \in [Kinds -> 0..MaxChange]
      /\ plan'["add"] = a /\ plan'["remove"] = d
  BY <1>2 DEF Kinds
<1>5. /\ loop' \in LoopTypes(DOMAIN state)
      /\ \A k \in Kinds :
           /\ loop'[k][round'] = Loop("new", plan'[k], {})
           /\ \A r \in 1..Rounds : r # round' => loop'[k][r] = loop[k][r]
  <2> DEFINE LoopType == [at : LoopSteps, n : Nat, hand : SUBSET DOMAIN state]
  <2>1. \A k \in Kinds : loop[k] \in [1..Rounds -> LoopType]
    BY DEF LoopTypes
  <2>2. \A k \in Kinds : Loop("new", plan'[k], {}) \in LoopType
    BY <1>3, <1>4 DEF Loop, LoopSteps
  <2> HIDE DEF LoopType
  <2>3. \A k \in Kinds :
          loop'[k] = [loop[k] EXCEPT ![round'] = Loop("new", plan'[k], {})]
    BY <1>2
  <2>4. \A k \in Kinds :
          /\ loop'[k] \in [1..Rounds -> LoopType]
          /\ loop'[k][round'] = Loop("new", plan'[k], {})
          /\ \A r \in 1..Rounds : r # round' => loop'[k][r] = loop[k][r]
    <3> TAKE k \in Kinds
    <3>1. loop[k] \in [1..Rounds -> LoopType]
      BY <2>1
    <3>2. Loop("new", plan'[k], {}) \in LoopType
      BY <2>2
    <3>3. loop'[k] = [loop[k] EXCEPT ![round'] = Loop("new", plan'[k], {})]
      BY <2>3
    <3> QED BY <1>3, <3>1, <3>2, <3>3
  <2>5. loop' = [k \in Kinds |-> loop'[k]]
    BY <1>2
  <2>6. loop' \in [Kinds -> [1..Rounds -> LoopType]]
    BY <2>4, <2>5
  <2> QED BY <2>4, <2>6 DEF LoopType, LoopTypes
<1>6. /\ A'.at = "new" /\ A'.n = a /\ A'.hand = {}
      /\ R'.at = "new" /\ R'.n = d /\ R'.hand = {}
  BY <1>4, <1>5 DEF A, R, Kinds, Loop
<1>7. Unmade("add")' = a /\ Unmade("remove")' = d
  BY <1>6 DEF Unmade, A, R
<1>8. /\ Len(state) \in Nat /\ Len(clients) \in Nat
      /\ \A st : Cardinality(ClientsThat(st)) \in Nat
  BY LenProperties, ThatFinite DEF ClientTypes, ClientsThat, That
<1>9. /\ late' \subseteq late \cup {"row", "loop"}
      /\ "append" \in late' <=> "append" \in late
      /\ OnTime' => \A r \in 1..round : ~Alive(r)
      /\ late' = {} => start' = Connections
  BY <1>1 DEF RowLate, OnTime
<1>10. /\ ControlTypes' /\ NumberTypes' /\ ClientTypes' /\ TableTypes'
       /\ loop' \in LoopTypes(DOMAIN state')
  <2>1. ControlTypes'
    BY <1>1, <1>3, <1>9 DEF ControlTypes, MainSteps
  <2>2. NumberTypes'
    BY <1>1, <1>2, <1>3, <1>4 DEF NumberTypes
  <2>3. ClientTypes'
    BY <1>1 DEF ClientTypes
  <2>6. TableTypes'
    BY <1>1, <1>8 DEF TableTypes, Shown
  <2> QED BY <1>1, <1>5, <2>1, <2>2, <2>3, <2>6
<1>11. Fresh'
  BY <1>1, <1>3 DEF Fresh
<1>12. FailsOnlyWhenLate'
  BY <1>1 DEF FailsOnlyWhenLate
<1>13. ASSUME OnTime' PROVE InTime'
  <2>1. \A r \in 1..round : ~Alive(r)
    BY <1>9, <1>13
  <2>2. /\ Rest
        /\ \A k \in Kinds, r \in 1..Rounds :
             loop[k][r].at \in {"none", "ended"} /\ loop[k][r].hand = {}
    BY <1>1, <2>1, BetweenRounds
  <2>3. Cardinality(R'.hand) = 0 /\ Cardinality(A'.hand) = 0
    BY <1>6, FS_EmptySet
  <2>4. \A st : ClientsThat(st)' = ClientsThat(st)
    BY <1>1 DEF ClientsThat
  <2>5. LoopsOfRound'
    BY <1>5, <1>6, <2>2 DEF LoopsOfRound, LoopSteps
  <2>6. Numbers'
    <3>1. ASSUME NEW k \in Kinds PROVE loop'[k][round'].at = "new"
      <4>1. loop'[k][round'] = Loop("new", plan'[k], {})
        BY <1>5
      <4> QED BY <4>1 DEF Loop
    <3> QED BY <3>1 DEF Numbers
  <2>7. Counted'
    <3>1. Cardinality(ClientsThat("connecting")) = 0
      BY <2>2, FS_EmptySet DEF Rest
    <3> QED BY <1>1, <1>2, <1>3, <1>7, <2>3, <2>4, <3>1 DEF Counted
  <2>8. Placed'
    BY <1>1, <1>6, <2>2, <2>4 DEF Placed, Rest
  <2>9. AddsBehind'
    BY <1>1, <2>2 DEF AddsBehind, Rest
  <2>10. Enough'
    <3>1. adds = <<>> => Len(adds) = 0
      OBVIOUS
    <3> QED BY <1>1, <1>2, <1>3, <1>7, <1>8, <1>9, <2>2, <3>1
            DEF Enough, Rest
  <2>11. Removed'
    <3>1. Cardinality({}) = 0 /\ d - d = 0
      BY <1>3, FS_EmptySet
    <3> QED BY <1>1, <1>4, <1>6, <1>7, <2>2, <3>1 DEF Removed, Rest
  <2>12. Added'
    <3>1. "append" \notin late => Len(adds) = 0
      BY <2>2 DEF Rest
    <3>2. 0 + 0 + a = a
      BY <1>3
    <3> QED BY <1>1, <1>4, <1>6, <1>7, <1>9, <2>3, <3>1, <3>2 DEF Added
  <2>13. RowFollows'
    <3> DEFINE gone == Cardinality(ClientsThat("disconnected"))
               size == Len(state)
    <3>1. Dialled' = size + a /\ Gone' = gone + d + 0
      BY <1>1, <1>7, <2>3, <2>4 DEF Dialled, Gone
    <3>2. size \in Nat /\ gone \in Nat
      BY <1>8
    <3>3. late' = {} => start' = size - gone
      BY <1>9 DEF Connections
    <3> HIDE DEF gone, size
    <3>4. late' = {} => start' + a - d = (size + a) - (gone + d + 0)
      BY <1>3, <3>2, <3>3
    <3> QED BY <1>4, <3>1, <3>4 DEF RowFollows
  <2> QED BY <2>5, <2>6, <2>7, <2>8, <2>9, <2>10, <2>11, <2>12, <2>13
          DEF InTime
<1>14. InTime'
  BY <1>13 DEF InTime
<1> QED BY <1>10, <1>11, <1>12, <1>14, TypeParts DEF IInv

-----------------------------------------------------------------------------
(***************************************************************************)
(* The steps of the clients.                                               *)
(***************************************************************************)
LEMMA ClientReadyIInv ==
  ASSUME IInv, Running, NEW c \in DOMAIN state, ClientReady(c)
  PROVE  IInv'
<1> USE Unpacked
<1>1. /\ state[c] = "connecting" /\ state' = [state EXCEPT ![c] = "connected"]
      /\ UNCHANGED <<main, round, plan, left, loop, clients, adds, removes,
                     taken, target, start, late>>
      /\ Done
  BY DEF ClientReady, listVars, tableVars
<1>2. /\ state' \in Seq(ClientStates) /\ Len(state') = Len(state)
      /\ DOMAIN state' = DOMAIN state
      /\ \A d \in DOMAIN state :
           state'[d] = IF d = c THEN "connected" ELSE state[d]
  <2>1. state \in Seq(ClientStates) /\ "connected" \in ClientStates
    BY DEF ClientTypes, ClientStates
  <2>2. \A d \in DOMAIN state :
          state'[d] = IF d = c THEN "connected" ELSE state[d]
    BY <1>1
  <2> QED BY <1>1, <2>1, <2>2, StateChanged
<1>3. /\ ClientsThat("disconnected")' = ClientsThat("disconnected")
      /\ Cardinality(ClientsThat("connecting")')
           = Cardinality(ClientsThat("connecting")) - 1
  <2>1. ClientsThat("disconnected")' = ClientsThat("disconnected")
    BY <1>1, <1>2 DEF ClientsThat
  <2>2. /\ ClientsThat("connecting")' = ClientsThat("connecting") \ {c}
        /\ c \in ClientsThat("connecting")
    BY <1>1, <1>2 DEF ClientsThat
  <2>3. IsFiniteSet(ClientsThat("connecting"))
    BY ThatFinite DEF ClientsThat, That, ClientTypes
  <2> QED BY <2>1, <2>2, <2>3, FS_RemoveElement
<1>4. wait' \in Nat /\ exit' \in {"none", "negative_WaitGroup_counter"}
  BY <1>1 DEF Done, NumberTypes
<1>5. ControlTypes' /\ NumberTypes' /\ ClientTypes' /\ TableTypes'
      /\ loop' \in LoopTypes(DOMAIN state')
  <2>1. ControlTypes'
    BY <1>1, <1>4 DEF ControlTypes, Crashes
  <2>2. NumberTypes'
    BY <1>1, <1>4 DEF NumberTypes
  <2>3. ClientTypes' /\ TableTypes'
    BY <1>1, <1>2 DEF ClientTypes, TableTypes
  <2> QED BY <1>1, <1>2, <2>1, <2>2, <2>3
<1>6. Fresh'
  <2>1. state # <<>>
    OBVIOUS
  <2> QED BY <1>1, <2>1 DEF Fresh
<1>7. CASE round = 0
  <2>1. FailsOnlyWhenLate'
    BY <1>1, <1>4, <1>7 DEF FailsOnlyWhenLate
  <2> QED BY <1>1, <1>5, <1>6, <1>7, <2>1, TypeParts, NoRoundYet
<1>8. CASE round > 0
  <2> DEFINE waiting == Cardinality(ClientsThat("connecting"))
  <2>1. /\ Unmade("add") \in Nat /\ Unmade("remove") \in Nat
        /\ Cardinality(R.hand) \in Nat
        /\ waiting \in Nat /\ IsFiniteSet(ClientsThat("connecting"))
    BY <1>8, RoundTypes DEF Kinds
  <2>2. waiting # 0
    BY <1>1, <2>1, FS_EmptySet DEF ClientsThat
  <2>3. wait = Unmade("add") + Unmade("remove") + Cardinality(R.hand) + waiting
    BY <1>8 DEF Counted
  <2>4. Cardinality(ClientsThat("connecting")') = waiting - 1
    BY <1>3
  <2> HIDE DEF waiting
  <2>5. /\ wait > 0 /\ wait' = wait - 1 /\ exit' = "none"
        /\ wait' = Unmade("add") + Unmade("remove") + Cardinality(R.hand)
                     + (waiting - 1)
    BY <1>1, <2>1, <2>2, <2>3 DEF Done
  <2>6. /\ A' = A /\ R' = R
        /\ Unmade("add")' = Unmade("add") /\ Unmade("remove")' = Unmade("remove")
    BY <1>1 DEF A, R, Unmade
  <2>7. main = "finish"
    BY <1>8, <2>5 DEF Counted
  <2>8. FailsOnlyWhenLate'
    BY <1>1, <2>5 DEF FailsOnlyWhenLate
  <2>9. LoopsOfRound' /\ Numbers'
    BY <1>1, <2>6 DEF LoopsOfRound, Numbers
  <2>10. Counted'
    BY <1>1, <2>4, <2>5, <2>6, <2>7 DEF Counted
  <2>11. /\ \A i \in DOMAIN clients : clients[i] \in DOMAIN state
         /\ A.hand \subseteq DOMAIN state /\ R.hand \subseteq DOMAIN state
         /\ Len(adds) \in Nat /\ DOMAIN clients = 1..Len(clients)
    BY <1>8, RoundTypes, LenProperties, ElementOfSeq DEF ClientTypes
  <2>12. Placed'
    BY <1>1, <1>2, <1>3, <1>8, <2>6, <2>11 DEF Placed
  <2>13. AddsBehind'
    <3>1. \A i \in 1..(Len(clients) - Len(adds)) :
            state'[clients[i]] = "connected"
      <4>1. \A i \in 1..(Len(clients) - Len(adds)) : i \in DOMAIN clients
        BY <2>11, LenProperties DEF ClientTypes
      <4> QED BY <1>2, <1>8, <2>11, <4>1 DEF AddsBehind
    <3> QED BY <1>1, <2>6, <2>7, <3>1 DEF AddsBehind
  <2>14. Enough'
    BY <1>1, <2>6 DEF Enough
  <2>15. Removed'
    BY <1>1, <1>3, <2>6, <2>7 DEF Removed
  <2>16. Added'
    BY <1>1, <2>6 DEF Added
  <2>17. RowFollows'
    BY <1>1, <1>2, <1>3, <2>6 DEF RowFollows, Dialled, Gone
  <2> QED BY <1>1, <1>5, <1>6, <2>8, <2>9, <2>10, <2>12, <2>13, <2>14, <2>15,
             <2>16, <2>17, TypeParts
          DEF IInv, InTime
<1> QED BY <1>7, <1>8 DEF ControlTypes

(* Steps that only end the process. *)
LEMMA OnlyExit ==
  ASSUME IInv, Running, exit' \in Crashes, FailsOnlyWhenLate',
         UNCHANGED <<main, round, plan, left, loop, state, listVars, wait,
                     tableVars, late>>
  PROVE  IInv'
<1> USE Unpacked
<1>1. UNCHANGED <<clients, adds, removes, taken, target, start>>
  BY DEF listVars, tableVars
<1>2. /\ A' = A /\ R' = R
      /\ Unmade("add")' = Unmade("add") /\ Unmade("remove")' = Unmade("remove")
      /\ \A st : ClientsThat(st)' = ClientsThat(st)
  BY DEF A, R, Unmade, ClientsThat
<1>3. /\ ControlTypes' /\ NumberTypes' /\ ClientTypes' /\ TableTypes'
      /\ loop' \in LoopTypes(DOMAIN state')
  BY <1>1 DEF ControlTypes, NumberTypes, ClientTypes, TableTypes
<1>4. Fresh'
  BY <1>1 DEF Fresh
<1>5. LoopsOfRound' /\ Numbers'
  BY <1>2 DEF LoopsOfRound, Numbers
<1>6. Counted'
  BY <1>2 DEF Counted
<1>7. Placed'
  BY <1>1, <1>2 DEF Placed
<1>8. AddsBehind'
  BY <1>1, <1>2 DEF AddsBehind
<1>9. Enough'
  BY <1>1, <1>2 DEF Enough
<1>10. Removed'
  BY <1>1, <1>2 DEF Removed
<1>11. Added'
  BY <1>1, <1>2 DEF Added
<1>12. RowFollows'
  BY <1>1, <1>2 DEF RowFollows, Dialled, Gone
<1> QED BY <1>3, <1>4, <1>5, <1>6, <1>7, <1>8, <1>9, <1>10, <1>11, <1>12,
           TypeParts
        DEF IInv, InTime

LEMMA ClientFailsIInv ==
  ASSUME IInv, Running, NEW c \in DOMAIN state, ClientFails(c)
  PROVE  IInv'
<1>1. exit' = "unable_to_connect"
  BY DEF ClientFails
<1>2. exit' \in Crashes /\ FailsOnlyWhenLate'
  BY <1>1 DEF Crashes, FailsOnlyWhenLate
<1> QED BY <1>2, OnlyExit DEF ClientFails

LEMMA QueryFailsIInv ==
  ASSUME IInv, Running, QueryFails
  PROVE  IInv'
<1>1. exit' = "query_failed"
  BY DEF QueryFails
<1>2. exit' \in Crashes /\ FailsOnlyWhenLate'
  BY <1>1 DEF Crashes, FailsOnlyWhenLate
<1> QED BY <1>2, OnlyExit DEF QueryFails

LEMMA Stutter ==
  ASSUME IInv, UNCHANGED vars
  PROVE  IInv'
<1>1. UNCHANGED <<main, round, plan, left, loop, state, clients, adds, removes,
                  taken, wait, target, start, exit, late>>
  BY DEF vars, listVars, tableVars
<1>2. /\ A' = A /\ R' = R
      /\ Unmade("add")' = Unmade("add") /\ Unmade("remove")' = Unmade("remove")
      /\ \A st : ClientsThat(st)' = ClientsThat(st)
  BY <1>1 DEF A, R, Unmade, ClientsThat
<1>3. TypeOK' /\ Fresh'
  BY <1>1 DEF IInv, TypeOK, Fresh
<1>4. FailsOnlyWhenLate'
  BY <1>1 DEF IInv, FailsOnlyWhenLate
<1>5. CASE OnTime
  <2> USE <1>1, <1>2, <1>5 DEF IInv, InTime
  <2>1. LoopsOfRound' /\ Numbers' /\ Counted'
    BY DEF LoopsOfRound, Numbers, Counted
  <2>2. Placed' /\ Enough' /\ AddsBehind'
    BY DEF Placed, Enough, AddsBehind
  <2>3. Removed' /\ Added' /\ RowFollows'
    BY DEF Removed, Added, RowFollows, Dialled, Gone
  <2> QED BY <1>3, <1>4, <2>1, <2>2, <2>3
<1>6. CASE ~OnTime
  BY <1>1, <1>3, <1>4, <1>6 DEF IInv, InTime, OnTime
<1> QED BY <1>5, <1>6

-----------------------------------------------------------------------------
(***************************************************************************)
(* The steps of the loops that handle clients.                             *)
(***************************************************************************)
LEMMA LoopHolds ==
  ASSUME IInv, Running, round > 0, round' = round,
         DOMAIN state \subseteq DOMAIN state',
         NEW k \in Kinds, NEW at \in LoopSteps,
         NEW hand \in SUBSET DOMAIN state',
         Goes(k, round, Loop(at, 0, hand))
  PROVE  /\ loop' \in LoopTypes(DOMAIN state')
         /\ loop'[k][round].at = at /\ loop'[k][round].hand = hand
         /\ \A j \in Kinds : j # k => loop'[j][round] = loop[j][round]
         /\ \A j \in Kinds, r \in 1..Rounds :
              r # round => loop'[j][r] = loop[j][r]
<1>1. /\ round \in 1..Rounds /\ loop \in LoopTypes(DOMAIN state)
      /\ 0 \in Nat
  BY RoundTypes, Unpacked
<1>2. loop' = [loop EXCEPT ![k][round] = Loop(at, 0, hand)]
  BY DEF Goes
<1> DEFINE m == [loop EXCEPT ![k][round] = Loop(at, 0, hand)]
<1>3. /\ m \in LoopTypes(DOMAIN state')
      /\ m[k][round].at = at /\ m[k][round].hand = hand
      /\ \A q \in 1..Rounds : q # round => m[k][q] = loop[k][q]
      /\ \A j \in Kinds : j # k => m[j] = loop[j]
  BY <1>1, LoopGoes
<1> HIDE DEF m
<1>4. loop' = m
  BY <1>2 DEF m
<1> QED BY <1>3, <1>4

(* While something is left to do, FinishRound is waiting. *)
LEMMA StillWaiting ==
  ASSUME IInv, Running, round > 0,
         Unmade("add") > 0 \/ Unmade("remove") > 0 \/ R.hand # {}
  PROVE  main = "finish" /\ wait > 0
<1>1. wait # 0
  BY AllDone, RoundTypes, Unpacked DEF Kinds
<1>2. wait \in Nat /\ (main # "finish" => wait = 0)
  BY Unpacked DEF Counted, NumberTypes
<1> QED BY <1>1, <1>2

LEMMA RemoveFailsIInv ==
  ASSUME IInv, Running, NEW r \in 1..Rounds, RemoveFails(r)
  PROVE  IInv'
<1> DEFINE n == loop["remove"][round].n
           p == Len(clients) - Len(adds)
<1>1. /\ r = round /\ round > 0 /\ loop["remove"][round].at = "sleep"
      /\ n > Cardinality(Removable)
  BY OnlyRound DEF RemoveFails, Kinds
<1>2. n \in Nat /\ n > 0 /\ left["remove"] >= 0 /\ left["remove"] \in Int
  BY <1>1, Unpacked, RoundTypes DEF Numbers, NumberTypes, LoopTypes, Kinds
<1>3. Unmade("remove") = left["remove"] + n
  BY <1>1 DEF Unmade
<1>4. Len(clients) \in Nat /\ Len(adds) \in Nat /\ p \in Int
  BY Unpacked, LenProperties DEF ClientTypes
<1>5. "append" \notin late => p >= left["remove"] + n
  BY <1>1, <1>3, Unpacked DEF Enough
<1>6. Removable = 1..p
  BY DEF Removable
<1> HIDE DEF n, p
<1>7. "append" \in late
  <2>1. CASE p >= n
    <3>1. Cardinality(1..p) = p
      BY <1>2, <1>4, <2>1, FS_Interval
    <3> QED BY <1>1, <1>2, <1>4, <1>6, <2>1, <3>1
  <2>2. CASE ~(p >= n)
    BY <1>2, <1>4, <1>5, <2>2
  <2> QED BY <2>1, <2>2
<1>8. exit' = "divide_by_zero" /\ late' = late
  BY DEF RemoveFails
<1>9. exit' \in Crashes /\ FailsOnlyWhenLate'
  BY <1>7, <1>8 DEF Crashes, FailsOnlyWhenLate
<1> QED BY <1>9, OnlyExit DEF RemoveFails

LEMMA DisconnectIInv ==
  ASSUME IInv, Running, NEW r \in 1..Rounds, Disconnect(r)
  PROVE  IInv'
<1> USE Unpacked
<1>1. /\ r = round /\ round > 0 /\ R.at = "disconnect"
      /\ UNCHANGED <<main, round, plan, left, clients, adds, removes, taken,
                     target, start, late>>
      /\ Done
  BY OnlyRound DEF Disconnect, R, Kinds, listVars, tableVars
<1> DEFINE Hand(c) == R.hand \ {c}
           at(c) == IF Hand(c) = {} THEN "loop" ELSE "disconnect"
<1>2. PICK c \in R.hand :
        /\ state' = [state EXCEPT ![c] = "disconnected"]
        /\ Goes("remove", round, Loop(at(c), 0, Hand(c)))
  BY <1>1 DEF Disconnect, R
<1>3. c \in DOMAIN state /\ state[c] = "connected" /\ R.hand \subseteq DOMAIN state
  BY <1>1, RoundTypes DEF Placed
<1>4. /\ state' \in Seq(ClientStates) /\ Len(state') = Len(state)
      /\ DOMAIN state' = DOMAIN state
      /\ \A d \in DOMAIN state :
           state'[d] = IF d = c THEN "disconnected" ELSE state[d]
  <2>1. state \in Seq(ClientStates) /\ "disconnected" \in ClientStates
    BY DEF ClientTypes, ClientStates
  <2>2. \A d \in DOMAIN state :
          state'[d] = IF d = c THEN "disconnected" ELSE state[d]
    BY <1>2, <1>3
  <2> QED BY <1>2, <1>3, <2>1, <2>2, StateChanged
<1>5. /\ ClientsThat("connecting")' = ClientsThat("connecting")
      /\ ClientsThat("disconnected")' = ClientsThat("disconnected") \cup {c}
      /\ Cardinality(ClientsThat("disconnected")')
           = Cardinality(ClientsThat("disconnected")) + 1
  <2>1. /\ ClientsThat("connecting")' = ClientsThat("connecting")
        /\ ClientsThat("disconnected")' = ClientsThat("disconnected") \cup {c}
        /\ c \notin ClientsThat("disconnected")
    BY <1>3, <1>4 DEF ClientsThat
  <2>2. IsFiniteSet(ClientsThat("disconnected"))
    BY <1>1, RoundTypes
  <2> QED BY <2>1, <2>2, FS_AddElement
<1>6. /\ loop' \in LoopTypes(DOMAIN state')
      /\ R'.at = at(c) /\ R'.hand = Hand(c) /\ A' = A
      /\ \A j \in Kinds, q \in 1..Rounds :
           q # round => loop'[j][q] = loop[j][q]
  <2>1. /\ at(c) \in LoopSteps /\ Hand(c) \in SUBSET DOMAIN state'
        /\ DOMAIN state \subseteq DOMAIN state'
    BY <1>3, <1>4 DEF LoopSteps
  <2> HIDE DEF at, Hand
  <2> QED BY <1>1, <1>2, <2>1, LoopHolds DEF A, R, Kinds
<1>7. /\ Unmade("add")' = Unmade("add") /\ Unmade("remove")' = Unmade("remove")
      /\ R'.at \in {"loop", "disconnect"}
      /\ R'.hand = R.hand \ {c}
      /\ R'.at # "disconnect" => R'.hand = {}
  BY <1>1, <1>6 DEF Unmade, A, R
<1> HIDE DEF Hand, at
<1>8. /\ main = "finish" /\ wait > 0 /\ wait' = wait - 1 /\ exit' = "none"
  BY <1>1, <1>2, StillWaiting DEF Done
<1>9. /\ Cardinality(R'.hand) = Cardinality(R.hand) - 1
      /\ Cardinality(R.hand) \in Nat
  BY <1>1, <1>2, <1>7, RoundTypes, FS_RemoveElement
<1>10. ControlTypes' /\ NumberTypes' /\ ClientTypes' /\ TableTypes'
  <2>1. wait' \in Nat
    BY <1>8 DEF NumberTypes
  <2> QED BY <1>1, <1>4, <1>8, <2>1
          DEF ControlTypes, NumberTypes, ClientTypes, TableTypes
<1>11. Fresh' /\ FailsOnlyWhenLate'
  BY <1>1, <1>8 DEF Fresh, FailsOnlyWhenLate
<1>12. LoopsOfRound'
  BY <1>1, <1>6, <1>7 DEF LoopsOfRound, LoopSteps
<1>13. Numbers'
  <2>1. loop'["add"][round] = loop["add"][round]
    BY <1>1, <1>6 DEF A
  <2>2. loop'["remove"][round].at \in {"loop", "disconnect"}
    BY <1>1, <1>7 DEF R
  <2>3. left["remove"] >= 0
    BY <1>1 DEF Numbers, R, Kinds
  <2> QED BY <1>1, <2>1, <2>2, <2>3 DEF Numbers, Kinds
<1>14. Counted'
  <2> DEFINE a == Unmade("add")
             b == Unmade("remove")
             h == Cardinality(R.hand)
             w == Cardinality(ClientsThat("connecting"))
  <2>1. a \in Nat /\ b \in Nat /\ h \in Nat /\ w \in Nat /\ wait = a + b + h + w
    BY <1>1, RoundTypes DEF Counted, Kinds
  <2>2. /\ Unmade("add")' = a /\ Unmade("remove")' = b
        /\ Cardinality(R'.hand) = h - 1
        /\ Cardinality(ClientsThat("connecting")') = w
    BY <1>5, <1>7, <1>9
  <2> HIDE DEF a, b, h, w
  <2>3. wait' = a + b + (h - 1) + w
    BY <1>8, <2>1
  <2> QED BY <1>1, <1>8, <2>2, <2>3 DEF Counted
<1>15. /\ \A i \in DOMAIN clients : clients[i] \in DOMAIN state
       /\ A.hand \subseteq DOMAIN state
       /\ Len(adds) \in Nat /\ Len(clients) \in Nat
       /\ DOMAIN clients = 1..Len(clients)
  BY <1>1, RoundTypes, LenProperties, ElementOfSeq DEF ClientTypes
<1>16. \A i \in DOMAIN clients : state'[clients[i]] = state[clients[i]]
  BY <1>1, <1>2, <1>4, <1>15 DEF Placed
<1>17. Placed'
  <2>1. \A d \in A.hand : state'[d] = state[d]
    BY <1>1, <1>2, <1>4, <1>15 DEF Placed
  <2>2. \A d \in R'.hand : state'[d] = "connected"
    BY <1>1, <1>3, <1>4, <1>7 DEF Placed
  <2>3. DOMAIN state' = ToSet(clients') \cup A'.hand \cup R'.hand
                          \cup ClientsThat("disconnected")'
    BY <1>1, <1>2, <1>4, <1>5, <1>6, <1>7 DEF Placed
  <2> QED BY <1>1, <1>6, <1>7, <1>16, <2>1, <2>2, <2>3 DEF Placed
<1>18. AddsBehind'
  <2>1. \A i \in 1..(Len(clients) - Len(adds)) : i \in DOMAIN clients
    BY <1>15
  <2> QED BY <1>1, <1>8, <1>16, <2>1 DEF AddsBehind
<1>19. Enough'
  BY <1>1, <1>7 DEF Enough
<1>20. Removed'
  BY <1>1, <1>2, <1>5, <1>7, <1>8 DEF Removed
<1>21. Added'
  BY <1>1, <1>6, <1>7, <1>8 DEF Added
<1>22. RowFollows'
  <2> DEFINE gone == Cardinality(ClientsThat("disconnected"))
             b == Unmade("remove")
             h == Cardinality(R.hand)
  <2>1. gone \in Nat /\ b \in Nat /\ h \in Nat
    BY <1>1, RoundTypes DEF Kinds
  <2>2. /\ Unmade("remove")' = b /\ Cardinality(R'.hand) = h - 1
        /\ Cardinality(ClientsThat("disconnected")') = gone + 1
    BY <1>5, <1>7, <1>9
  <2>3. Gone = gone + b + h
    BY DEF Gone
  <2>4. Gone' = (gone + 1) + b + (h - 1)
    BY <2>2 DEF Gone
  <2>5. Dialled' = Dialled
    BY <1>4, <1>7 DEF Dialled
  <2> HIDE DEF gone, b, h
  <2>6. Gone' = Gone
    BY <2>1, <2>3, <2>4
  <2> HIDE DEF Dialled, Gone
  <2> QED BY <1>1, <2>5, <2>6 DEF RowFollows
<1> QED BY <1>1, <1>6, <1>10, <1>11, <1>12, <1>13, <1>14, <1>17, <1>18, <1>19,
           <1>20, <1>21, <1>22, TypeParts
        DEF IInv, InTime

LEMMA CreateBatchIInv ==
  ASSUME IInv, Running, NEW r \in 1..Rounds, CreateBatch(r)
  PROVE  IInv'
<1> USE Unpacked
<1> DEFINE n == loop["add"][round].n
           new == NewIds(n)
<1>1. /\ r = round /\ round > 0 /\ A.at = "sleep"
      /\ UNCHANGED <<main, round, plan, left, clients, adds, removes, taken,
                     wait, target, start, exit, late>>
      /\ state' = state \o [i \in 1..n |-> "connecting"]
      /\ Goes("add", round, Loop("append", 0, new))
  BY OnlyRound DEF CreateBatch, A, Kinds, listVars, tableVars
<1>2. n \in Nat /\ n > 0 /\ left["add"] >= 0 /\ left["add"] \in Int
  BY <1>1, RoundTypes DEF Numbers, NumberTypes, LoopTypes, Kinds, A
<1> HIDE DEF n, new
<1>4. /\ state' \in Seq(ClientStates) /\ Len(state') = Len(state) + n
      /\ DOMAIN state' = DOMAIN state \cup new /\ DOMAIN state \cap new = {}
      /\ IsFiniteSet(new) /\ Cardinality(new) = n
      /\ \A c \in DOMAIN state : state'[c] = state[c]
      /\ \A c \in new : state'[c] = "connecting"
      /\ ClientsThat("disconnected")' = ClientsThat("disconnected")
      /\ Cardinality(ClientsThat("connecting")')
           = Cardinality(ClientsThat("connecting")) + n
  BY <1>1, <1>2, ThatCreated DEF ClientTypes, new
<1>6. /\ loop' \in LoopTypes(DOMAIN state')
      /\ A'.at = "append" /\ A'.hand = new /\ R' = R
      /\ \A j \in Kinds, q \in 1..Rounds :
           q # round => loop'[j][q] = loop[j][q]
  <2>1. /\ "append" \in LoopSteps /\ new \in SUBSET DOMAIN state'
        /\ DOMAIN state \subseteq DOMAIN state'
    BY <1>4 DEF LoopSteps
  <2> QED BY <1>1, <2>1, LoopHolds DEF A, R, Kinds
<1>7. /\ Unmade("add") = left["add"] + n /\ Unmade("add")' = left["add"]
      /\ Unmade("remove")' = Unmade("remove")
  <2>1. loop'["add"][round].at = "append" /\ loop["add"][round].at = "sleep"
        /\ loop'["remove"][round] = loop["remove"][round]
    BY <1>1, <1>6 DEF A, R
  <2> QED BY <1>1, <1>2, <2>1 DEF Unmade, n
<1>8. main = "finish"
  BY <1>1, <1>2, <1>7, StillWaiting
<1>9. ControlTypes' /\ NumberTypes' /\ ClientTypes' /\ TableTypes'
  <2>1. DOMAIN state \subseteq DOMAIN state'
    BY <1>4
  <2>2. /\ clients \in Seq(DOMAIN state') /\ adds \in Seq(DOMAIN state')
        /\ taken.adds \in Seq(DOMAIN state')
    BY <2>1, SeqMonotonic DEF ClientTypes
  <2>3. ClientTypes'
    BY <1>1, <1>4, <2>1, <2>2 DEF ClientTypes
  <2> QED BY <1>1, <2>3 DEF ControlTypes, NumberTypes, TableTypes
<1>10. Fresh' /\ FailsOnlyWhenLate'
  BY <1>1 DEF Fresh, FailsOnlyWhenLate
<1>11. A.hand = {} /\ LoopsOfRound'
  BY <1>1, <1>6 DEF LoopsOfRound, LoopSteps
<1>12. Numbers'
  <2>1. loop'["remove"][round] = loop["remove"][round]
        /\ loop'["add"][round].at = "append"
    BY <1>1, <1>6 DEF A, R
  <2> QED BY <1>1, <1>2, <2>1 DEF Numbers, Kinds
<1>13. Counted'
  <2> DEFINE a == Unmade("add")
             b == Unmade("remove")
             h == Cardinality(R.hand)
             w == Cardinality(ClientsThat("connecting"))
  <2>1. a \in Nat /\ b \in Nat /\ h \in Nat /\ w \in Nat /\ wait = a + b + h + w
    BY <1>1, RoundTypes DEF Counted, Kinds
  <2>2. /\ Unmade("add")' = left["add"] /\ a = left["add"] + n
        /\ Unmade("remove")' = b
        /\ Cardinality(R'.hand) = h
        /\ Cardinality(ClientsThat("connecting")') = w + n
    BY <1>4, <1>6, <1>7
  <2> HIDE DEF a, b, h, w
  <2>3. wait = left["add"] + b + h + (w + n)
    BY <1>2, <2>1, <2>2
  <2> QED BY <1>1, <1>8, <2>2, <2>3 DEF Counted
<1>14. /\ \A i \in DOMAIN clients : clients[i] \in DOMAIN state
       /\ R.hand \subseteq DOMAIN state
       /\ Len(adds) \in Nat /\ Len(clients) \in Nat
       /\ DOMAIN clients = 1..Len(clients)
  BY <1>1, RoundTypes, LenProperties, ElementOfSeq DEF ClientTypes
<1>15. \A i \in DOMAIN clients : state'[clients[i]] = state[clients[i]]
  BY <1>4, <1>14
<1>16. Placed'
  <2>1. \A i \in DOMAIN clients : clients[i] \notin new \cup R.hand
    BY <1>1, <1>4, <1>14 DEF Placed
  <2>2. \A d \in new : d \notin R.hand /\ state'[d] # "disconnected"
    BY <1>4, <1>14
  <2>3. \A d \in R.hand : state'[d] = "connected"
    BY <1>1, <1>4, <1>14 DEF Placed
  <2>4. DOMAIN state' = ToSet(clients') \cup A'.hand \cup R'.hand
                          \cup ClientsThat("disconnected")'
    BY <1>1, <1>4, <1>6, <1>11 DEF Placed
  <2> QED BY <1>1, <1>6, <1>15, <2>1, <2>2, <2>3, <2>4 DEF Placed
<1>17. AddsBehind'
  <2>1. \A i \in 1..(Len(clients) - Len(adds)) : i \in DOMAIN clients
    BY <1>14
  <2> QED BY <1>1, <1>8, <1>15, <2>1 DEF AddsBehind
<1>18. Enough'
  BY <1>1, <1>7 DEF Enough
<1>19. Removed'
  <2>1. ASSUME NEW d \in DOMAIN state PROVE d \in DOMAIN state'
    BY <1>4
  <2> QED BY <1>1, <1>4, <1>6, <1>7, <1>8 DEF Removed
<1>20. Added'
  <2>1. Len(adds) + Cardinality({}) + (left["add"] + n)
          = Len(adds) + n + left["add"]
    BY <1>2, <1>14, FS_EmptySet
  <2> QED BY <1>1, <1>4, <1>6, <1>7, <1>8, <1>11, <2>1 DEF Added
<1>21. RowFollows'
  <2>1. (Len(state) + n) + left["add"] = Len(state) + (left["add"] + n)
    BY <1>2, LenProperties DEF ClientTypes
  <2> QED BY <1>1, <1>4, <1>6, <1>7, <1>8, <2>1 DEF RowFollows, Dialled, Gone
<1> QED BY <1>1, <1>6, <1>9, <1>10, <1>11, <1>12, <1>13, <1>16, <1>17, <1>18,
           <1>19, <1>20, <1>21, TypeParts
        DEF IInv, InTime

(* A longer list, and the same elements behind one of its ends. *)
LEMMA EndsGrow ==
  ASSUME NEW T, NEW s \in Seq(T), NEW t \in Seq(T), NEW b \in Seq(T),
         EndOf(s, t)
  PROVE  EndOf(s \o b, t \o b)
<1> DEFINE m == Len(s)
           n == Len(t)
           k == Len(b)
           sb == s \o b
           tb == t \o b
<1>1. m \in Nat /\ n \in Nat /\ k \in Nat /\ m <= n
  BY LenProperties DEF EndOf
<1>2. /\ Len(sb) = m + k /\ Len(tb) = n + k
      /\ \A i \in 1..(m + k) : sb[i] = IF i <= m THEN s[i] ELSE b[i - m]
      /\ \A i \in 1..(n + k) : tb[i] = IF i <= n THEN t[i] ELSE b[i - n]
  BY ConcatProperties
<1>3. \A j \in 1..m : s[j] = t[n - m + j]
  BY DEF EndOf
<1> HIDE DEF m, n, k, sb, tb
<1>4. ASSUME NEW j \in 1..(m + k) PROVE sb[j] = tb[(n + k) - (m + k) + j]
  <2>1. (n + k) - (m + k) + j = n - m + j /\ n - m + j \in 1..(n + k)
    BY <1>1
  <2>2. CASE j <= m
    <3>1. j \in 1..m /\ n - m + j <= n
      BY <1>1, <2>2
    <3> QED BY <1>2, <1>3, <2>1, <2>2, <3>1
  <2>3. CASE ~(j <= m)
    <3> DEFINE i == n - m + j
    <3>1. i \in 1..(n + k) /\ ~(i <= n) /\ i - n = j - m
      BY <1>1, <2>1, <2>3
    <3> HIDE DEF i
    <3>2. tb[i] = b[j - m]
      BY <1>2, <3>1
    <3> QED BY <1>2, <2>1, <2>3, <3>2 DEF i
  <2> QED BY <2>2, <2>3
<1>5. m + k <= n + k
  BY <1>1
<1> QED BY <1>2, <1>4, <1>5 DEF EndOf, sb, tb

(* Two lists without common elements and without repetitions. *)
LEMMA ConcatDistinct ==
  ASSUME NEW T, NEW s \in Seq(T), NEW t \in Seq(T),
         \A i, j \in DOMAIN s : s[i] = s[j] => i = j,
         \A i, j \in DOMAIN t : t[i] = t[j] => i = j,
         ToSet(s) \cap ToSet(t) = {}
  PROVE  LET st == s \o t
         IN  /\ st \in Seq(T) /\ Len(st) = Len(s) + Len(t)
             /\ ToSet(st) = ToSet(s) \cup ToSet(t)
             /\ \A i \in DOMAIN s : i \in DOMAIN st /\ st[i] = s[i]
             /\ \A i, j \in DOMAIN st : st[i] = st[j] => i = j
<1> DEFINE m == Len(s)
           n == Len(t)
           st == s \o t
<1>1. m \in Nat /\ n \in Nat /\ DOMAIN s = 1..m /\ DOMAIN t = 1..n
  BY LenProperties
<1>2. /\ st \in Seq(T) /\ Len(st) = m + n
      /\ \A i \in 1..(m + n) : st[i] = IF i <= m THEN s[i] ELSE t[i - m]
  BY ConcatProperties
<1> HIDE DEF m, n, st
<1>3. DOMAIN st = 1..(m + n)
  BY <1>2, LenProperties
<1>4. \A i \in 1..m : i \in DOMAIN st /\ st[i] = s[i]
  BY <1>1, <1>2, <1>3
<1>5. \A i \in 1..n : m + i \in DOMAIN st /\ st[m + i] = t[i]
  BY <1>1, <1>2, <1>3
<1>6. \A i \in DOMAIN st : i \in 1..m \/ (i - m \in 1..n /\ i = m + (i - m))
  BY <1>1, <1>3
<1>7. ToSet(st) = ToSet(s) \cup ToSet(t)
  <2>1. ASSUME NEW i \in DOMAIN st PROVE st[i] \in ToSet(s) \cup ToSet(t)
    BY <1>1, <1>4, <1>5, <1>6 DEF ToSet
  <2>2. ASSUME NEW i \in 1..m PROVE s[i] \in ToSet(st)
    BY <1>4 DEF ToSet
  <2>3. ASSUME NEW i \in 1..n PROVE t[i] \in ToSet(st)
    BY <1>5 DEF ToSet
  <2> QED BY <1>1, <2>1, <2>2, <2>3 DEF ToSet
<1>8. ASSUME NEW i \in DOMAIN st, NEW j \in DOMAIN st, st[i] = st[j]
      PROVE  i = j
  <2>1. \A x \in 1..m, y \in 1..n : s[x] # t[y]
    BY <1>1 DEF ToSet
  <2>2. CASE i \in 1..m /\ j \in 1..m
    BY <1>1, <1>4, <1>8, <2>2
  <2>3. CASE i \in 1..m /\ j - m \in 1..n /\ j = m + (j - m)
    BY <1>4, <1>5, <1>8, <2>1, <2>3
  <2>4. CASE i - m \in 1..n /\ i = m + (i - m) /\ j \in 1..m
    BY <1>4, <1>5, <1>8, <2>1, <2>4
  <2>5. CASE /\ i - m \in 1..n /\ i = m + (i - m)
             /\ j - m \in 1..n /\ j = m + (j - m)
    <3>1. t[i - m] = t[j - m]
      BY <1>5, <1>8, <2>5
    <3>2. i - m = j - m
      BY <1>1, <2>5, <3>1
    <3> QED BY <2>5, <3>2
  <2> QED BY <1>6, <2>2, <2>3, <2>4, <2>5
<1> QED BY <1>1, <1>2, <1>4, <1>7, <1>8 DEF st, m, n

(***************************************************************************)
(* Whether the append is in time or brings back the list that FinishRound  *)
(* has taken, the list it appends to ends the list of clients, and those   *)
(* in front of it are connected.                                           *)
(***************************************************************************)
LEMMA AppendBatchIInv ==
  ASSUME IInv, Running, NEW r \in 1..Rounds, AppendBatch(r)
  PROVE  IInv'
<1> USE Unpacked
<1> DEFINE batch == Sorted(A.hand)
<1>1. /\ r = round /\ round > 0 /\ A.at = "append"
      /\ UNCHANGED <<main, round, plan, left, state, removes, taken, wait,
                     target, start, exit, late>>
      /\ clients' = clients \o batch
      /\ Goes("add", round, Loop("loop", 0, {}))
  BY OnlyRound DEF AppendBatch, Appended, A, Kinds, tableVars
<1>2. \/ adds' = adds \o batch
      \/ main \in {"poll", "assert", "top"} /\ adds' = taken.adds \o batch
  BY <1>1 DEF AppendBatch, A
<1>3. /\ clients \in Seq(DOMAIN state) /\ adds \in Seq(DOMAIN state)
      /\ taken.adds \in Seq(DOMAIN state)
      /\ Len(clients) \in Nat /\ DOMAIN clients = 1..Len(clients)
      /\ \A i \in DOMAIN clients : clients[i] \in DOMAIN state
  BY LenProperties, ElementOfSeq DEF ClientTypes
<1>4. /\ batch \in Seq(DOMAIN state) /\ Len(batch) = Cardinality(A.hand)
      /\ ToSet(batch) = A.hand
      /\ \A i, j \in DOMAIN batch : batch[i] = batch[j] => i = j
  <2>1. A.hand \in SUBSET Nat /\ IsFiniteSet(A.hand)
        /\ A.hand \subseteq DOMAIN state
    <3>1. DOMAIN state \subseteq Nat
      BY LenProperties DEF ClientTypes
    <3> QED BY <1>1, <3>1, RoundTypes
  <2>2. /\ batch \in Seq(DOMAIN state) /\ Len(batch) = Cardinality(A.hand)
        /\ ToSet(batch) = A.hand
        /\ \A i, j \in 1..Cardinality(A.hand) : batch[i] = batch[j] => i = j
    BY <2>1, SortedSeq
  <2>3. DOMAIN batch = 1..Cardinality(A.hand)
    BY <2>2, LenProperties
  <2> QED BY <2>2, <2>3
<1> HIDE DEF batch
<1>5. /\ clients' \in Seq(DOMAIN state)
      /\ Len(clients') = Len(clients) + Len(batch)
      /\ ToSet(clients') = ToSet(clients) \cup A.hand
      /\ \A i \in DOMAIN clients :
           i \in DOMAIN clients' /\ clients'[i] = clients[i]
      /\ \A i, j \in DOMAIN clients' : clients'[i] = clients'[j] => i = j
  <2>1. \A i, j \in DOMAIN clients : clients[i] = clients[j] => i = j
    BY <1>1 DEF Placed
  <2>2. ToSet(clients) \cap ToSet(batch) = {}
    BY <1>1, <1>4 DEF Placed, ToSet
  <2>3. LET both == clients \o batch
        IN  /\ both \in Seq(DOMAIN state)
            /\ Len(both) = Len(clients) + Len(batch)
            /\ ToSet(both) = ToSet(clients) \cup ToSet(batch)
            /\ \A i \in DOMAIN clients : i \in DOMAIN both /\ both[i] = clients[i]
            /\ \A i, j \in DOMAIN both : both[i] = both[j] => i = j
    BY <1>3, <1>4, <2>1, <2>2, ConcatDistinct
  <2> QED BY <1>1, <1>4, <2>3
<1>6. /\ loop' \in LoopTypes(DOMAIN state')
      /\ A'.at = "loop" /\ A'.hand = {} /\ R' = R
      /\ \A j \in Kinds, q \in 1..Rounds :
           q # round => loop'[j][q] = loop[j][q]
  <2>1. /\ "loop" \in LoopSteps /\ {} \in SUBSET DOMAIN state'
        /\ DOMAIN state \subseteq DOMAIN state'
    BY <1>1 DEF LoopSteps
  <2> QED BY <1>1, <2>1, LoopHolds DEF A, R, Kinds
<1>7. /\ Unmade("add")' = Unmade("add") /\ Unmade("remove")' = Unmade("remove")
      /\ \A st : ClientsThat(st)' = ClientsThat(st)
  <2>1. loop'["add"][round].at = "loop" /\ loop["add"][round].at = "append"
        /\ loop'["remove"][round] = loop["remove"][round]
    BY <1>1, <1>6 DEF A, R
  <2> QED BY <1>1, <2>1 DEF Unmade, ClientsThat
<1>8. PICK base \in Seq(DOMAIN state) :
        /\ adds' = base \o batch /\ EndOf(base, clients)
        /\ \A i \in 1..(Len(clients) - Len(base)) :
             state[clients[i]] = "connected"
        /\ main = "finish" => base = adds
        /\ "append" \notin late => base = adds /\ main = "finish"
  <2>1. "append" \notin late => main = "finish"
    BY <1>1 DEF Added
  <2>2. CASE adds' = adds \o batch
    BY <1>1, <1>3, <2>1, <2>2 DEF AddsBehind
  <2>3. CASE /\ main \in {"poll", "assert", "top"}
             /\ adds' = taken.adds \o batch
    <3>1. wait = 0 /\ EndOf(taken.adds, clients)
      BY <1>1, <2>3 DEF Counted, AddsBehind
    <3>2. \A c \in DOMAIN state : state[c] \in ClientStates
      BY ElementOfSeq, LenProperties DEF ClientTypes
    <3>3. \A i \in DOMAIN clients : state[clients[i]] = "connected"
      BY <1>1, <1>3, <3>1, <3>2, AllDone DEF Placed, ClientStates
    <3>4. \A i \in 1..(Len(clients) - Len(taken.adds)) : i \in DOMAIN clients
      BY <1>3, LenProperties
    <3> QED BY <1>3, <2>1, <2>3, <3>1, <3>3, <3>4
  <2> QED BY <1>2, <2>2, <2>3
<1>9. /\ adds' \in Seq(DOMAIN state)
      /\ Len(base) \in Nat /\ Len(batch) \in Nat
      /\ Len(adds') = Len(base) + Len(batch)
      /\ EndOf(adds', clients')
  <2>1. base \o batch \in Seq(DOMAIN state)
        /\ Len(base \o batch) = Len(base) + Len(batch)
    <3>1. base \in Seq(DOMAIN state) /\ batch \in Seq(DOMAIN state)
      BY <1>4, <1>8
    <3> HIDE DEF batch
    <3> QED BY <3>1, ConcatProperties, Zenon
  <2>2. EndOf(base \o batch, clients \o batch)
    BY <1>3, <1>4, <1>8, EndsGrow
  <2> QED BY <1>1, <1>4, <1>8, <2>1, <2>2, LenProperties
<1>10. /\ Len(clients') - Len(adds') = Len(clients) - Len(base)
       /\ Len(clients') >= Len(clients)
  <2> DEFINE x == Len(clients)
             y == Len(base)
             z == Len(batch)
  <2>1. x \in Nat /\ y \in Nat /\ z \in Nat
    BY <1>3, <1>9
  <2>2. Len(clients') = x + z /\ Len(adds') = y + z
    BY <1>5, <1>9
  <2> HIDE DEF x, y, z
  <2>3. (x + z) - (y + z) = x - y /\ x + z >= x
    BY <2>1
  <2> QED BY <2>2, <2>3 DEF x, y
<1>11. ControlTypes' /\ NumberTypes' /\ ClientTypes' /\ TableTypes'
  BY <1>1, <1>5, <1>9 DEF ControlTypes, NumberTypes, ClientTypes, TableTypes
<1>12. Fresh' /\ FailsOnlyWhenLate'
  BY <1>1 DEF Fresh, FailsOnlyWhenLate
<1>13. LoopsOfRound'
  BY <1>1, <1>6 DEF LoopsOfRound, LoopSteps
<1>14. Numbers'
  <2>1. loop'["remove"][round] = loop["remove"][round]
        /\ loop'["add"][round].at = "loop"
        /\ loop["add"][round].at = "append"
    BY <1>1, <1>6 DEF A, R
  <2> QED BY <1>1, <2>1 DEF Numbers, Kinds
<1>15. Counted'
  BY <1>1, <1>6, <1>7 DEF Counted
<1>16. Placed'
  <2>1. \A i \in DOMAIN clients' : clients'[i] \in ToSet(clients) \cup A.hand
    BY <1>5 DEF ToSet
  <2>2. \A c \in ToSet(clients) \cup A.hand :
          c \notin R.hand /\ state[c] # "disconnected"
    BY <1>1 DEF Placed, ToSet
  <2>3. DOMAIN state' = ToSet(clients') \cup A'.hand \cup R'.hand
                          \cup ClientsThat("disconnected")'
    BY <1>1, <1>5, <1>6, <1>7 DEF Placed
  <2>4. \A c \in R.hand : state[c] = "connected"
    BY <1>1 DEF Placed
  <2> QED BY <1>1, <1>5, <1>6, <2>1, <2>2, <2>3, <2>4 DEF Placed
<1>17. AddsBehind'
  <2>1. \A i \in 1..(Len(clients) - Len(base)) : clients'[i] = clients[i]
    BY <1>3, <1>5, <1>9
  <2>2. main \in {"clear", "poll", "assert"} =>
          ToSet(taken.adds) \subseteq ToSet(clients')
    BY <1>1, <1>5 DEF AddsBehind
  <2> QED BY <1>1, <1>6, <1>8, <1>9, <1>10, <2>1, <2>2 DEF AddsBehind
<1>18. Enough'
  <2>1. Unmade("remove") \in Nat /\ Len(clients') \in Nat
    BY <1>1, <1>5, RoundTypes, LenProperties DEF Kinds
  <2>2. Len(clients') >= Unmade("remove")
    BY <1>1, <1>3, <1>10, <2>1 DEF Enough
  <2> QED BY <1>1, <1>7, <1>8, <1>10, <2>2 DEF Enough
<1>19. Removed'
  BY <1>1, <1>6, <1>7 DEF Removed
<1>20. Added'
  <2>1. Len(base) + Cardinality(A.hand) = Len(adds')
    BY <1>4, <1>9
  <2>2. Len(adds') + Cardinality({}) + Unmade("add")
          = Len(adds') + Unmade("add")
    BY <1>1, <1>9, RoundTypes, FS_EmptySet DEF Kinds
  <2> QED BY <1>1, <1>6, <1>7, <1>8, <2>1, <2>2 DEF Added
<1>21. RowFollows'
  BY <1>1, <1>6, <1>7 DEF RowFollows, Dialled, Gone
<1> QED BY <1>1, <1>6, <1>11, <1>12, <1>13, <1>14, <1>15, <1>16, <1>17, <1>18,
           <1>19, <1>20, <1>21, TypeParts
        DEF IInv, InTime

(***************************************************************************)
(* What is drawn is in front of the clients of the round: connected, and   *)
(* in the hands of nobody else.                                            *)
(***************************************************************************)
LEMMA RemoveClientsIInv ==
  ASSUME IInv, Running, NEW r \in 1..Rounds, RemoveClients(r)
  PROVE  IInv'
<1> USE Unpacked
<1> DEFINE n == loop["remove"][round].n
           q == Len(adds)
           p == Len(clients) - q
<1>1. /\ r = round /\ round > 0 /\ R.at = "sleep"
      /\ UNCHANGED <<main, round, plan, left, state, adds, taken, wait, target,
                     start, exit, late>>
  BY OnlyRound DEF RemoveClients, R, Kinds, tableVars
<1> DEFINE Out(drawn) == {clients[i] : i \in drawn}
<1>2. PICK drawn \in kSubset(n, Removable) :
        /\ clients' = Without(clients, drawn)
        /\ removes' = removes \cup Out(drawn)
        /\ Goes("remove", round, Loop("disconnect", 0, Out(drawn)))
  BY <1>1 DEF RemoveClients
<1> DEFINE out == Out(drawn)
<1>3. /\ n \in Nat /\ n > 0
      /\ left["remove"] >= 0 /\ left["remove"] \in Int
  BY <1>1, RoundTypes DEF Numbers, NumberTypes, LoopTypes, Kinds, R
<1>4. /\ clients \in Seq(DOMAIN state)
      /\ Len(clients) \in Nat /\ DOMAIN clients = 1..Len(clients)
      /\ q \in Nat /\ p \in 0..Len(clients)
      /\ \A i \in DOMAIN clients : clients[i] \in DOMAIN state
  BY <1>1, LenProperties, ElementOfSeq DEF ClientTypes, AddsBehind, EndOf
<1>5. drawn \in SUBSET (1..p) /\ n = Cardinality(drawn)
  BY <1>2 DEF kSubset, Removable
<1>6. /\ main = "finish" /\ Unmade("remove") = left["remove"] + n
  <2>1. Unmade("remove") = left["remove"] + n
    BY <1>1 DEF Unmade, R
  <2> QED BY <1>1, <1>3, <2>1, StillWaiting
<1> HIDE DEF n, q, p
<1>7. /\ \A i, j \in DOMAIN clients : clients[i] = clients[j] => i = j
      /\ \A i \in 1..p : state[clients[i]] = "connected"
      /\ EndOf(adds, clients)
  BY <1>1 DEF Placed, AddsBehind, p, q
<1>8. /\ n \in 0..p
      /\ clients' \in Seq(DOMAIN state) /\ Len(clients') = Len(clients) - n
      /\ \A i, j \in DOMAIN clients' : clients'[i] = clients'[j] => i = j
      /\ ToSet(clients') = ToSet(clients) \ out
      /\ \A i \in 1..(p - n) : \E j \in 1..p : clients'[i] = clients[j]
      /\ \A x \in (p + 1)..Len(clients) : clients'[x - n] = clients[x]
  <2>1. /\ clients \in Seq(DOMAIN state) /\ p \in 0..Len(clients)
        /\ \A i, j \in DOMAIN clients : clients[i] = clients[j] => i = j
        /\ drawn \in SUBSET (1..p)
    BY <1>4, <1>5, <1>7
  <2>2. Shortened(DOMAIN state, clients, p, drawn, Cardinality(drawn),
                  Without(clients, drawn))
    BY <2>1, WithoutPlaces, Zenon
  <2>3. Shortened(DOMAIN state, clients, p, drawn, n, clients')
    BY <1>2, <1>5, <2>2
  <2> QED BY <2>3 DEF Shortened
<1>9. p \in Nat /\ p <= Len(clients) /\ Len(clients) = p + q
  BY <1>4 DEF p
<1>10. IsFiniteSet(out) /\ Cardinality(out) = n
  <2>1. IsFiniteSet(drawn)
    <3>1. 1 \in Int /\ p \in Int
      BY <1>9
    <3>2. IsFiniteSet(1..p)
      BY <3>1, FS_Interval, Zenon
    <3> QED BY <1>5, <3>2, FS_Subset
  <2>2. drawn \in SUBSET DOMAIN clients
    BY <1>4, <1>5, <1>9
  <2>3. LET image == {clients[i] : i \in drawn}
        IN  IsFiniteSet(image) /\ Cardinality(image) = Cardinality(drawn)
    <3>1. \A i, j \in DOMAIN clients : clients[i] = clients[j] => i = j
      BY <1>7
    <3> QED BY <2>1, <2>2, <3>1, ImageSize
  <2> QED BY <1>5, <2>3
<1>11. /\ out \subseteq ToSet(clients) /\ out \subseteq DOMAIN state
       /\ \A c \in out : state[c] = "connected" /\ c \notin A.hand
  <2>1. \A i \in drawn : i \in 1..p /\ i \in DOMAIN clients
    BY <1>4, <1>5, <1>9
  <2> QED BY <1>1, <1>4, <1>7, <2>1 DEF Placed, ToSet
<1>12. /\ loop' \in LoopTypes(DOMAIN state')
       /\ R'.at = "disconnect" /\ R'.hand = out /\ A' = A
       /\ \A j \in Kinds, x \in 1..Rounds :
            x # round => loop'[j][x] = loop[j][x]
  <2>1. /\ "disconnect" \in LoopSteps /\ out \in SUBSET DOMAIN state'
        /\ DOMAIN state \subseteq DOMAIN state'
    BY <1>1, <1>11 DEF LoopSteps
  <2> HIDE DEF out, Out
  <2>2. Goes("remove", round, Loop("disconnect", 0, out))
    BY <1>2 DEF out
  <2> QED BY <1>1, <2>1, <2>2, LoopHolds DEF A, R, Kinds
<1>13. removes' = removes \cup out
  BY <1>2
<1> HIDE DEF out, Out
<1>14. /\ Unmade("add")' = Unmade("add") /\ Unmade("remove")' = left["remove"]
       /\ \A st : ClientsThat(st)' = ClientsThat(st)
  <2>1. loop'["remove"][round].at = "disconnect"
        /\ loop'["add"][round] = loop["add"][round]
    BY <1>1, <1>12 DEF A, R
  <2> QED BY <1>1, <1>3, <2>1 DEF Unmade, ClientsThat
<1>15. R.hand = {} /\ Cardinality(R.hand) = 0
  BY <1>1, FS_EmptySet DEF LoopsOfRound
<1>16. ControlTypes' /\ NumberTypes' /\ ClientTypes' /\ TableTypes'
  BY <1>1, <1>8, <1>11, <1>13
     DEF ControlTypes, NumberTypes, ClientTypes, TableTypes
<1>17. Fresh' /\ FailsOnlyWhenLate'
  BY <1>1 DEF Fresh, FailsOnlyWhenLate
<1>18. LoopsOfRound'
  BY <1>1, <1>12 DEF LoopsOfRound, LoopSteps
<1>19. Numbers'
  <2>1. loop'["add"][round] = loop["add"][round]
        /\ loop'["remove"][round].at = "disconnect"
    BY <1>1, <1>12 DEF A, R
  <2> QED BY <1>1, <1>3, <2>1 DEF Numbers, Kinds
<1>20. Counted'
  <2> DEFINE a == Unmade("add")
             w == Cardinality(ClientsThat("connecting"))
  <2>1. a \in Nat /\ w \in Nat /\ wait = a + (left["remove"] + n) + 0 + w
    BY <1>1, <1>6, <1>15, RoundTypes DEF Counted, Kinds
  <2>2. /\ Unmade("add")' = a /\ Unmade("remove")' = left["remove"]
        /\ Cardinality(R'.hand) = n
        /\ Cardinality(ClientsThat("connecting")') = w
    BY <1>10, <1>12, <1>14
  <2> HIDE DEF a, w
  <2>3. wait = a + left["remove"] + n + w
    BY <1>3, <2>1
  <2> QED BY <1>1, <1>6, <2>2, <2>3 DEF Counted
<1>21. Placed'
  <2>1. \A i \in DOMAIN clients' : clients'[i] \in ToSet(clients) \ out
    BY <1>8 DEF ToSet
  <2>2. \A c \in ToSet(clients) : c \notin A.hand /\ state[c] # "disconnected"
    BY <1>1 DEF Placed, ToSet
  <2>3. \A c \in A.hand : c \notin out /\ state[c] # "disconnected"
    BY <1>1, <1>11 DEF Placed
  <2>4. DOMAIN state' = ToSet(clients') \cup A'.hand \cup R'.hand
                          \cup ClientsThat("disconnected")'
    BY <1>1, <1>8, <1>11, <1>12, <1>14, <1>15 DEF Placed
  <2> QED BY <1>1, <1>8, <1>11, <1>12, <2>1, <2>2, <2>3, <2>4 DEF Placed
<1>22. AddsBehind'
  <2>1. Len(clients') = (p - n) + q /\ Len(clients') - Len(adds) = p - n
    BY <1>3, <1>4, <1>8, <1>9 DEF q
  <2>2. ASSUME NEW j \in 1..q PROVE adds[j] = clients'[(p - n) + j]
    <3> DEFINE x == p + j
    <3>1. /\ x \in (p + 1)..Len(clients) /\ x - n = (p - n) + j
          /\ Len(clients) - q + j = x
      BY <1>3, <1>4, <1>9
    <3>2. adds[j] = clients[Len(clients) - q + j]
      BY <1>7 DEF EndOf, q
    <3> HIDE DEF x
    <3>3. clients'[x - n] = clients[x]
      BY <1>8, <3>1
    <3> QED BY <3>1, <3>2, <3>3
  <2>3. q <= Len(clients') /\ Len(clients') - q = p - n
    BY <1>3, <1>4, <1>8, <2>1, <1>9
  <2>4. EndOf(adds, clients')
    BY <2>2, <2>3 DEF EndOf, q
  <2>5. \A i \in 1..(p - n) : state[clients'[i]] = "connected"
    BY <1>7, <1>8
  <2> QED BY <1>1, <1>6, <2>1, <2>4, <2>5 DEF AddsBehind
<1>23. Enough'
  <2>1. Len(clients) >= left["remove"] + n
    BY <1>1, <1>6 DEF Enough
  <2>2. "append" \notin late => p >= left["remove"] + n
    BY <1>1, <1>6 DEF Enough, p, q
  <2>3. Len(clients') - Len(adds) = p - n
    BY <1>3, <1>4, <1>8, <1>9 DEF q
  <2>4. Len(clients') >= left["remove"]
    BY <1>3, <1>4, <1>8, <2>1
  <2>5. "append" \notin late => p - n >= left["remove"]
    BY <1>3, <1>9, <2>2
  <2> QED BY <1>1, <1>14, <2>3, <2>4, <2>5 DEF Enough
<1>24. Removed'
  <2>1. removes \subseteq ClientsThat("disconnected")
    BY <1>1, <1>15 DEF Removed
  <2>2. removes \cap out = {}
    BY <1>11, <2>1 DEF ClientsThat
  <2>3. IsFiniteSet(removes)
    BY <1>1, <2>1, RoundTypes, FS_Subset
  <2>4. Cardinality(removes') = Cardinality(removes) + n
    <3>1. Cardinality(removes) \in Nat /\ Cardinality(removes \cap out) = 0
      BY <2>2, <2>3, FS_CardinalityType, FS_EmptySet
    <3>2. Cardinality(removes \cup out)
            = Cardinality(removes) + n - Cardinality(removes \cap out)
      BY <1>10, <2>3, FS_Union
    <3>3. Cardinality(removes \cup out) = Cardinality(removes) + n - 0
      BY <3>1, <3>2, Zenon
    <3> QED BY <1>3, <1>13, <3>1, <3>3
  <2>5. plan["remove"] \in Nat
    BY ConstantsAssumption DEF NumberTypes, Kinds
  <2>6. Cardinality(removes) = plan["remove"] - (left["remove"] + n)
    BY <1>1, <1>6 DEF Removed
  <2>7. Cardinality(removes') = plan["remove"] - left["remove"]
    BY <1>3, <2>4, <2>5, <2>6
  <2> QED BY <1>1, <1>6, <1>12, <1>13, <1>14, <2>1, <2>7 DEF Removed
<1>25. Added'
  BY <1>1, <1>6, <1>12, <1>14 DEF Added
<1>26. RowFollows'
  <2> DEFINE gone == Cardinality(ClientsThat("disconnected"))
  <2>1. gone \in Nat
    BY <1>1, RoundTypes
  <2>2. Gone = gone + (left["remove"] + n) + 0
    BY <1>6, <1>15 DEF Gone
  <2>3. Gone' = gone + left["remove"] + n
    BY <1>10, <1>12, <1>14 DEF Gone
  <2>4. Dialled' = Dialled
    BY <1>1, <1>14 DEF Dialled
  <2> HIDE DEF gone
  <2>5. Gone' = Gone
    BY <1>3, <1>6, <2>1, <2>2, <2>3
  <2> HIDE DEF Dialled, Gone
  <2> QED BY <1>1, <2>4, <2>5 DEF RowFollows
<1> QED BY <1>1, <1>12, <1>16, <1>17, <1>18, <1>19, <1>20, <1>21, <1>22, <1>23,
           <1>24, <1>25, <1>26, TypeParts
        DEF IInv, InTime

-----------------------------------------------------------------------------
(***************************************************************************)
(* The invariant holds in every state.                                     *)
(***************************************************************************)
THEOREM NextIInv == IInv /\ [Next]_vars => IInv'
<1> SUFFICES ASSUME IInv, [Next]_vars PROVE IInv'
  OBVIOUS
<1>1. CASE UNCHANGED vars
  BY <1>1, Stutter
<1>2. CASE Next
  <2>1. Running
    BY <1>2 DEF Next
  <2>2. CASE MainStep
    BY <2>1, <2>2, StartRoundIInv, SimulationDoneIInv, TakeListsIInv,
       ClearListsIInv, WaitForRoundIInv, AssertRoundIInv, QueryFailsIInv,
       CreateBatchedConnectionsIInv DEF MainStep
  <2>3. CASE \E r \in 1..Rounds : LoopStep(r)
    BY <2>1, <2>3, LoopSetIInv, LoopTakeIInv, AdderTookIInv, CreateBatchIInv,
       AppendBatchIInv, RemoverTookIInv, RemoveClientsIInv, RemoveFailsIInv,
       DisconnectIInv DEF LoopStep
  <2>4. CASE \E c \in DOMAIN state : ClientReady(c) \/ ClientFails(c)
    BY <2>1, <2>4, ClientReadyIInv, ClientFailsIInv
  <2> QED BY <1>2, <2>2, <2>3, <2>4 DEF Next
<1> QED BY <1>1, <1>2

THEOREM Invariance == Spec => []IInv
<1> QED BY InitIInv, NextIInv, PTL DEF Spec

(***************************************************************************)
(* Every variable has its type: the loops and the lists hold only clients  *)
(* that have been created, and s.wait is never negative.                   *)
(***************************************************************************)
THEOREM TypeCorrect == Spec => []TypeOK
<1>1. IInv => TypeOK
  BY DEF IInv
<1> QED BY <1>1, Invariance, PTL

(***************************************************************************)
(* Remove only ever takes connected clients (connections.go:107-127).      *)
(***************************************************************************)
THEOREM OnlyConnectedRemovedCorrect == Spec => []OnlyConnectedRemoved
<1>1. ASSUME IInv, "loop" \notin late, NEW r \in 1..Rounds,
             NEW c \in loop["remove"][r].hand
      PROVE  state[c] = "connected"
  <2>1. LoopsOfRound /\ Placed
    BY <1>1 DEF IInv, InTime, OnTime
  <2>2. r = round /\ round > 0
    BY <1>1, <2>1, ConstantsAssumption DEF LoopsOfRound, Kinds
  <2> QED BY <1>1, <2>1, <2>2 DEF Placed, R
<1>2. IInv => OnlyConnectedRemoved
  BY <1>1 DEF OnlyConnectedRemoved
<1> QED BY <1>2, Invariance, PTL

(***************************************************************************)
(* After FinishRound the books of the round balance.                       *)
(***************************************************************************)
THEOREM BooksBalanceCorrect == Spec => []BooksBalance
<1>1. ASSUME IInv, "loop" \notin late, main \in {"clear", "poll", "assert"}
      PROVE  LET listed == ToSet(clients) \cup loop["add"][round].hand
             IN  /\ Cardinality(taken.removes) = plan["remove"]
                 /\ \A c \in taken.removes : state[c] = "disconnected"
                 /\ listed = ClientsThat("connected")
                 /\ ToSet(taken.adds) \subseteq listed
                 /\ "append" \notin late => Len(taken.adds) = plan["add"]
  <2> DEFINE listed == ToSet(clients) \cup A.hand
  <2>1. /\ LoopsOfRound /\ Counted /\ Placed /\ AddsBehind /\ Removed /\ Added
        /\ round > 0
    BY <1>1 DEF IInv, InTime, OnTime, Fresh
  <2>2. /\ Cardinality(taken.removes) = plan["remove"]
        /\ \A c \in taken.removes : state[c] = "disconnected"
        /\ ToSet(taken.adds) \subseteq ToSet(clients)
        /\ "append" \notin late => Len(taken.adds) = plan["add"]
    BY <1>1, <2>1 DEF Removed, AddsBehind, Added
  <2>3. OnTime /\ wait = 0
    BY <1>1, <2>1 DEF Counted, OnTime
  <2>4. /\ R.hand = {}
        /\ \A c \in DOMAIN state : state[c] # "connecting"
    BY <1>1, <2>1, <2>3, AllDone
  <2>5. /\ state \in Seq(ClientStates) /\ clients \in Seq(DOMAIN state)
        /\ A.hand \subseteq DOMAIN state
    BY <1>1, <2>1, <2>3, PartsInTime, RoundTypes DEF ClientTypes
  <2>6. \A c \in DOMAIN state : state[c] \in {"connected", "disconnected"}
    BY <2>4, <2>5, ElementOfSeq, LenProperties DEF ClientStates
  <2>7. \A c \in listed : c \in DOMAIN state /\ state[c] # "disconnected"
    <3>1. \A i \in DOMAIN clients : clients[i] \in DOMAIN state
      BY <2>5, ElementOfSeq, LenProperties
    <3> QED BY <2>1, <2>5, <3>1 DEF Placed, ToSet
  <2>8. \A c \in DOMAIN state : state[c] = "connected" => c \in listed
    BY <2>1, <2>4 DEF Placed, ClientsThat
  <2>9. listed = ClientsThat("connected")
    BY <2>6, <2>7, <2>8 DEF ClientsThat
  <2> QED BY <2>2, <2>9 DEF A
<1>2. IInv => BooksBalance
  BY <1>1 DEF BooksBalance
<1> QED BY <1>2, Invariance, PTL

(***************************************************************************)
(* A simulation blames its end on its books only where it may: the counts  *)
(* of a round differ only when the row or an append was late, addresses    *)
(* only against the proxy, and s.adds never becomes negative.  (It may     *)
(* also end because a client cannot connect or a query fails.)             *)
(***************************************************************************)
THEOREM FailsOnlyWhenLateCorrect == Spec => []FailsOnlyWhenLate
<1>1. IInv => FailsOnlyWhenLate
  BY DEF IInv
<1> QED BY <1>1, Invariance, PTL

=============================================================================
