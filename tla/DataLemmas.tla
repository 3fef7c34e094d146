------------------------------ MODULE DataLemmas -----------------------------
(***************************************************************************)
(* Facts about natural numbers, sets and sequences that the proofs about   *)
(* several modules use: the least element, induction stated for a set      *)
(* instead of an operator, the order of a finite set, lists that repeat    *)
(* nothing.                                                                *)
(***************************************************************************)
EXTENDS Places, SequencesExt, FiniteSetTheorems, SequenceTheorems, TLAPS

(* The function g is f of [A -> B] with another value y for x.              *)
Replaces(g, f, A, B, x, y) ==
  f \in [A -> B] /\ x \in A /\ y \in B /\ g = [f EXCEPT ![x] = y]

(* What that leaves as it was.                                              *)
LEMMA ReplacedFacts ==
  ASSUME NEW A, NEW B, NEW f, NEW x, NEW y, NEW g, Replaces(g, f, A, B, x, y)
  PROVE  g \in [A -> B] /\ g[x] = y /\ \A z \in A \ {x} : g[z] = f[z]
BY DEF Replaces

(* A non-empty set of natural numbers has a least element.                  *)
LEMMA LeastNat ==
  ASSUME NEW T \in SUBSET Nat, T # {}
  PROVE  \E m \in T : \A n \in T : m <= n
<1> DEFINE R == OpToRel(<, Nat)
<1>1. R = {ss \in Nat \X Nat : ss[1] < ss[2]}
  BY DEF OpToRel
<1>2. IsWellFoundedOn(R, Nat)
  BY NatLessThanWellFounded
<1> HIDE DEF R
<1>3. PICK m \in T : \A n \in T : ~ (<<n, m>> \in R)
  BY <1>2, WFMin
<1>4. \A n \in T : <<n, m>> \in Nat \X Nat
  OBVIOUS
<1>5. \A n \in T : ~ (n < m)
  BY <1>1, <1>3, <1>4
<1> QED BY <1>5

(* So Min, which walks from the front of a page or a file, finds it.        *)
LEMMA MinIsLeast ==
  ASSUME NEW T \in SUBSET Nat, T # {}
  PROVE  Min(T) \in T /\ \A n \in T : Min(T) <= n
<1>1. \E m \in T : \A n \in T : m <= n
  BY LeastNat
<1> QED BY <1>1 DEF Min

(* Max is the greatest of the numbers.                                      *)
LEMMA MaxIsGreatest ==
  ASSUME NEW n \in Nat, NEW T \in SUBSET (1 .. n), T # {}
  PROVE  Max(T) \in T /\ \A i \in T : i <= Max(T)
<1> DEFINE U == {n - i : i \in T}
<1>1. U \in SUBSET Nat /\ U # {}
  OBVIOUS
<1> HIDE DEF U
<1>2. PICK m \in U : \A i \in U : m <= i
  BY <1>1, LeastNat
<1>3. PICK k \in T : m = n - k
  BY <1>2 DEF U
<1>4. ASSUME NEW i \in T PROVE k >= i
  <2>1. n - i \in U
    BY DEF U
  <2> QED BY <1>2, <1>3, <2>1
<1>5. Max(T) \in T /\ \A i \in T : Max(T) >= i
  BY <1>4 DEF Max
<1> QED BY <1>5

(* Induction over the natural numbers for a set: it needs no parameter that *)
(* stands for a predicate.                                                  *)
LEMMA NatInductionSet ==
  ASSUME NEW S, 0 \in S, \A n \in Nat : n \in S => n + 1 \in S
  PROVE  Nat \subseteq S
<1> DEFINE T == Nat \ S
<1> SUFFICES ASSUME T # {} PROVE FALSE
  OBVIOUS
<1>1. PICK m \in T : \A n \in T : m <= n
  <2> T \in SUBSET Nat OBVIOUS
  <2> HIDE DEF T
  <2> QED BY LeastNat
<1>2. m # 0 /\ m - 1 \in Nat /\ m - 1 \notin T
  BY <1>1
<1>3. (m - 1) + 1 \in S
  BY <1>2
<1> QED BY <1>1, <1>3

(* Quotient and rest of a division are unique.                              *)
LEMMA RestIsUnique ==
  ASSUME NEW k \in Nat, NEW m \in Nat, NEW r \in 0 .. m - 1
  PROVE  (k * m + r) % m = r
<1> DEFINE a == k * m + r
           q == a \div m
<1>1. /\ a % m \in 0 .. m - 1 /\ q \in Int
      /\ a = m * q + (a % m)
  OBVIOUS
<1> DEFINE e == q - k
<1>2. e \in Int /\ m * e = r - (a % m)
  BY <1>1
<1> HIDE DEF a, q, e
<1>3. r - (a % m) < m /\ r - (a % m) > -m
  BY <1>1
<1>4. CASE e >= 1
  <2>1. m * e >= m
    BY <1>2, <1>4
  <2> QED BY <1>2, <1>3, <2>1, <1>1
<1>5. CASE e <= -1
  <2>1. m * e <= -m
    BY <1>2, <1>5
  <2> QED BY <1>2, <1>3, <2>1, <1>1
<1>6. CASE e = 0
  <2>1. m * e = 0
    BY <1>6
  <2> QED BY <1>1, <1>2, <2>1 DEF a
<1> QED BY <1>2, <1>4, <1>5, <1>6

(* A finite set of natural numbers can be listed from the largest down.     *)
LEMMA DescendingExists ==
  ASSUME NEW B \in SUBSET Nat, IsFiniteSet(B)
  PROVE  \E s \in [1 .. Cardinality(B) -> B] : \A i, j \in DOMAIN s : i < j => s[i] > s[j]
<1> DEFINE Sorted(s) == \A i, j \in DOMAIN s : i < j => s[i] > s[j]
           N == {n \in Nat : \A C \in SUBSET Nat : IsFiniteSet(C) /\ Cardinality(C) = n
                               => \E s \in [1 .. n -> C] : Sorted(s)}
<1>1. 0 \in N
  <2> SUFFICES ASSUME NEW C \in SUBSET Nat, IsFiniteSet(C), Cardinality(C) = 0
               PROVE  \E s \in [1 .. 0 -> C] : Sorted(s)
    OBVIOUS
  <2> DEFINE s == [i \in 1 .. 0 |-> 0]
  <2> s \in [1 .. 0 -> C] /\ Sorted(s)
    OBVIOUS
  <2> QED OBVIOUS
<1>2. ASSUME NEW n \in Nat, n \in N PROVE n + 1 \in N
  <2> SUFFICES ASSUME NEW C \in SUBSET Nat, IsFiniteSet(C), Cardinality(C) = n + 1
               PROVE  \E s \in [1 .. n + 1 -> C] : Sorted(s)
    OBVIOUS
  <2>1. C # {}
    BY FS_EmptySet
  <2>2. PICK m \in C : \A c \in C : m <= c
    BY <2>1, LeastNat
  <2>3. IsFiniteSet(C \ {m}) /\ Cardinality(C \ {m}) = n
    <3>1. IsFiniteSet(C \ {m}) /\ Cardinality(C \ {m}) = Cardinality(C) - 1
      BY FS_RemoveElement, Zenon
    <3> QED BY <3>1
  <2>4. PICK t \in [1 .. n -> C \ {m}] : Sorted(t)
    BY <1>2, <2>3
  <2> DEFINE s == [i \in 1 .. n + 1 |-> IF i <= n THEN t[i] ELSE m]
  <2>5. s \in [1 .. n + 1 -> C]
    OBVIOUS
  <2>6. ASSUME NEW i \in DOMAIN s, NEW j \in DOMAIN s, i < j PROVE s[i] > s[j]
    <3>1. i <= n /\ t[i] \in C /\ t[i] # m
      BY <2>6
    <3>2. CASE j <= n
      BY <2>4, <2>6, <3>1, <3>2
    <3>3. CASE j = n + 1
      <4>1. s[i] = t[i] /\ s[j] = m
        BY <2>6, <3>1, <3>3
      <4>2. t[i] >= m /\ t[i] \in Nat /\ m \in Nat
        BY <2>2, <3>1
      <4> HIDE DEF s
      <4> QED BY <4>1, <4>2, <3>1
    <3> QED BY <3>2, <3>3
  <2> HIDE DEF s
  <2> QED BY <2>5, <2>6
<1> HIDE DEF N
<1>3. Nat \subseteq N
  BY <1>1, <1>2, NatInductionSet
<1>4. Cardinality(B) \in Nat
  BY FS_CardinalityType
<1> QED BY <1>3, <1>4 DEF N

(* ... and from the smallest up.                                            *)
LEMMA AscendingExists ==
  ASSUME NEW B \in SUBSET Nat, IsFiniteSet(B)
  PROVE  \E s \in [1 .. Cardinality(B) -> B] : \A i, j \in DOMAIN s : i < j => s[i] < s[j]
<1> DEFINE n == Cardinality(B)
<1>1. n \in Nat
  BY FS_CardinalityType
<1>2. PICK s \in [1 .. n -> B] : \A i, j \in DOMAIN s : i < j => s[i] > s[j]
  BY DescendingExists
<1> HIDE DEF n
<1> DEFINE t == [i \in 1 .. n |-> s[n + 1 - i]]
<1>3. \A i \in 1 .. n : n + 1 - i \in 1 .. n
  BY <1>1
<1>4. t \in [1 .. n -> B]
  BY <1>2, <1>3
<1>5. ASSUME NEW i \in 1 .. n, NEW j \in 1 .. n, i < j PROVE t[i] < t[j]
  <2>1. n + 1 - j \in 1 .. n /\ n + 1 - i \in 1 .. n /\ n + 1 - j < n + 1 - i
    BY <1>1, <1>5
  <2>2. s[n + 1 - j] > s[n + 1 - i] /\ s[n + 1 - j] \in Nat /\ s[n + 1 - i] \in Nat
    BY <1>2, <2>1
  <2> QED BY <2>2
<1> HIDE DEF t
<1> QED BY <1>4, <1>5 DEF n

(* A function that does not repeat a value and goes from 1 .. Cardinality   *)
(* into a finite set is onto it.                                            *)
LEMMA InjectiveIsOnto ==
  ASSUME NEW B, IsFiniteSet(B), NEW s \in [1 .. Cardinality(B) -> B], IsInjective(s)
  PROVE  \A b \in B : \E i \in 1 .. Cardinality(B) : s[i] = b
<1> DEFINE D == 1 .. Cardinality(B)
<1>1. Cardinality(B) \in Nat
  BY FS_CardinalityType
<1>2. IsFiniteSet(D) /\ Cardinality(D) = Cardinality(B)
  BY <1>1, FS_Interval
<1>3. s \in Injection(D, B)
  BY DEF Injection
<1> HIDE DEF D
<1>4. s \in Surjection(D, B)
  BY <1>2, <1>3, FS_Injection
<1> QED BY <1>4 DEF Surjection, D

(* Taking the head off a list without repetitions takes out one element.    *)
LEMMA TailOfList ==
  ASSUME NEW S, NEW s \in Seq(S), s # <<>>, IsInjective(s)
  PROVE  /\ Head(s) \in S /\ Head(s) \in ToSet(s)
         /\ Tail(s) \in Seq(S)
         /\ Len(Tail(s)) = Len(s) - 1 /\ Len(s) \in Nat
         /\ \A i \in 1 .. Len(s) - 1 : Tail(s)[i] = s[i + 1]
         /\ IsInjective(Tail(s))
         /\ ToSet(Tail(s)) = ToSet(s) \ {Head(s)}
<1>1. /\ Head(s) = s[1] /\ Len(s) \in Nat /\ Len(s) >= 1
      /\ Tail(s) \in Seq(S) /\ Len(Tail(s)) = Len(s) - 1
      /\ DOMAIN s = 1 .. Len(s) /\ DOMAIN Tail(s) = 1 .. Len(s) - 1
      /\ \A i \in 1 .. Len(s) : s[i] \in S
  OBVIOUS
<1>2. \A i \in 1 .. Len(s) - 1 : Tail(s)[i] = s[i + 1]
  OBVIOUS
<1>3. \A i, j \in 1 .. Len(s) : s[i] = s[j] => i = j
  BY <1>1 DEF IsInjective
<1>4. IsInjective(Tail(s))
  <2>1. ASSUME NEW i \in 1 .. Len(s) - 1, NEW j \in 1 .. Len(s) - 1, Tail(s)[i] = Tail(s)[j]
        PROVE  i = j
    <3>1. s[i + 1] = s[j + 1]
      BY <1>2, <2>1
    <3> QED BY <1>1, <1>3, <3>1
  <2> QED BY <1>1, <2>1 DEF IsInjective
<1>5. ToSet(Tail(s)) \subseteq ToSet(s) \ {Head(s)}
  <2>1. ASSUME NEW i \in 1 .. Len(s) - 1 PROVE Tail(s)[i] \in ToSet(s) /\ Tail(s)[i] # Head(s)
    <3>1. i + 1 \in DOMAIN s /\ i + 1 # 1 /\ 1 \in DOMAIN s
      BY <1>1
    <3> QED BY <1>1, <1>2, <1>3, <3>1 DEF ToSet
  <2> QED BY <1>1, <2>1 DEF ToSet
<1>6. ToSet(s) \ {Head(s)} \subseteq ToSet(Tail(s))
  <2>1. ASSUME NEW i \in 1 .. Len(s), s[i] # s[1] PROVE s[i] \in ToSet(Tail(s))
    <3>1. i - 1 \in 1 .. Len(s) - 1 /\ (i - 1) + 1 = i
      BY <1>1, <2>1
    <3>2. Tail(s)[i - 1] = s[i]
      BY <1>2, <3>1
    <3> QED BY <1>1, <3>1, <3>2 DEF ToSet
  <2> QED BY <1>1, <2>1 DEF ToSet
<1> QED BY <1>1, <1>2, <1>4, <1>5, <1>6, SMTT(30) DEF ToSet

(* Two disjoint lists without repetitions make one.                         *)
LEMMA ConcatOfLists ==
  ASSUME NEW S, NEW s \in Seq(S), NEW t \in Seq(S), IsInjective(s), IsInjective(t),
         ToSet(s) \cap ToSet(t) = {}
  PROVE  /\ s \o t \in Seq(S)
         /\ IsInjective(s \o t)
         /\ ToSet(s \o t) = ToSet(s) \cup ToSet(t)
<1> DEFINE u == s \o t
           m == Len(s)
           n == Len(t)
<1>1. /\ m \in Nat /\ n \in Nat /\ u \in Seq(S) /\ Len(u) = m + n
      /\ DOMAIN s = 1 .. m /\ DOMAIN t = 1 .. n /\ DOMAIN u = 1 .. m + n
  OBVIOUS
<1>2. \A i \in 1 .. m + n : u[i] = IF i <= m THEN s[i] ELSE t[i - m]
  OBVIOUS
<1>3. \A i \in 1 .. m : u[i] = s[i] /\ u[i] \in ToSet(s)
  BY <1>1, <1>2 DEF ToSet
<1>4. \A i \in 1 .. m + n : i > m => u[i] = t[i - m] /\ i - m \in 1 .. n /\ u[i] \in ToSet(t)
  BY <1>1, <1>2 DEF ToSet
<1> HIDE DEF u, m, n
<1>5. ASSUME NEW i \in 1 .. m + n, NEW j \in 1 .. m + n, u[i] = u[j] PROVE i = j
  <2>1. CASE i <= m /\ j <= m
    BY <1>1, <1>3, <1>5, <2>1, SMTT(30) DEF IsInjective
  <2>2. CASE i > m /\ j > m
    <3>1. i - m = j - m
      BY <1>1, <1>4, <1>5, <2>2 DEF IsInjective
    <3> QED BY <1>1, <3>1
  <2>3. CASE i <= m /\ j > m
    BY <1>1, <1>3, <1>4, <1>5, <2>3
  <2>4. CASE i > m /\ j <= m
    BY <1>1, <1>3, <1>4, <1>5, <2>4
  <2> QED BY <1>1, <2>1, <2>2, <2>3, <2>4
<1>6. ToSet(u) \subseteq ToSet(s) \cup ToSet(t)
  <2>1. ASSUME NEW i \in 1 .. m + n PROVE u[i] \in ToSet(s) \cup ToSet(t)
    <3>1. i <= m \/ i > m
      BY <1>1
    <3> QED BY <1>1, <1>3, <1>4, <3>1
  <2> QED BY <1>1, <2>1 DEF ToSet
<1>7. ToSet(s) \cup ToSet(t) \subseteq ToSet(u)
  <2>1. ASSUME NEW i \in 1 .. m PROVE s[i] \in ToSet(u)
    <3>1. i \in DOMAIN u /\ u[i] = s[i]
      BY <1>1, <1>3
    <3> QED BY <3>1 DEF ToSet
  <2>2. ASSUME NEW i \in 1 .. n PROVE t[i] \in ToSet(u)
    <3>1. i + m \in 1 .. m + n /\ i + m > m /\ (i + m) - m = i
      BY <1>1
    <3>2. u[i + m] = t[i]
      BY <1>4, <3>1
    <3> QED BY <1>1, <3>1, <3>2 DEF ToSet
  <2> QED BY <1>1, <2>1, <2>2 DEF ToSet
<1>8. IsInjective(u)
  BY <1>1, <1>5 DEF IsInjective
<1> QED BY <1>1, <1>6, <1>7, <1>8 DEF u

(* A list without a second element.                                         *)
LEMMA SingleElement ==
  ASSUME NEW S, NEW s \in Seq(S), s # <<>>, \A i \in 1 .. Len(s) - 1 : FALSE
  PROVE  Tail(s) = <<>> /\ ToSet(s) = {Head(s)}
<1>1. Len(s) \in Nat /\ Len(s) # 0 /\ Head(s) = s[1] /\ DOMAIN s = 1 .. Len(s)
  BY EmptySeq, LenProperties
<1>2. Len(s) = 1
  <2> DEFINE n == Len(s)
  <2>1. n \in Nat /\ n # 0 /\ \A i \in 1 .. n - 1 : FALSE
    BY <1>1
  <2> HIDE DEF n
  <2>2. ASSUME n > 1 PROVE FALSE
    <3> 1 \in 1 .. n - 1
      BY <2>1, <2>2
    <3> QED BY <2>1
  <2>3. n = 1
    BY <2>1, <2>2
  <2> QED BY <2>3 DEF n
<1>3. DOMAIN s = {1}
  BY <1>1, <1>2
<1>4. Tail(s) \in Seq(S) /\ Len(Tail(s)) = 0
  BY <1>2, HeadTailProperties
<1>5. Tail(s) = <<>>
  BY <1>4, EmptySeq
<1> QED BY <1>1, <1>3, <1>5 DEF ToSet

(* Ordered lists the elements of a set of numbers, each once.               *)
LEMMA OrderedFacts ==
  ASSUME NEW S \in SUBSET Nat, IsFiniteSet(S), NEW s, s = Ordered(S)
  PROVE  /\ Cardinality(S) \in Nat
         /\ s \in [1 .. Cardinality(S) -> S] /\ s \in Seq(S) /\ Len(s) = Cardinality(S)
         /\ \A i, j \in DOMAIN s : i < j => s[i] < s[j]
         /\ IsInjective(s) /\ ToSet(s) = S
<1> DEFINE n == Cardinality(S)
           Up(f) == \A i, j \in DOMAIN f : i < j => f[i] < f[j]
<1>1. n \in Nat
  BY FS_CardinalityType
<1>2. s \in [1 .. n -> S] /\ Up(s)
  <2>1. \E f \in [1 .. n -> S] : Up(f)
    BY AscendingExists
  <2>2. s = CHOOSE f \in [1 .. n -> S] : Up(f)
    BY DEF Ordered
  <2> HIDE DEF Up, n
  <2> QED BY <2>1, <2>2
<1>3. IsInjective(s)
  <2>1. ASSUME NEW i \in 1 .. n, NEW j \in 1 .. n, s[i] = s[j] PROVE i = j
    <3>1. s[i] \in Nat /\ s[j] \in Nat
      BY <1>2
    <3>2. ~ (i < j) /\ ~ (j < i)
      BY <1>2, <2>1, <3>1
    <3> HIDE DEF n
    <3> QED BY <1>1, <3>2
  <2>2. DOMAIN s = 1 .. n
    BY <1>2
  <2> QED BY <2>1, <2>2 DEF IsInjective
<1>4. \A x \in S : \E i \in 1 .. n : s[i] = x
  BY <1>2, <1>3, InjectiveIsOnto
<1>5. ToSet(s) = S
  BY <1>2, <1>4 DEF ToSet
<1> HIDE DEF n
<1>6. s \in Seq(S) /\ Len(s) = n
  BY <1>1, <1>2
<1> QED BY <1>1, <1>2, <1>3, <1>5, <1>6 DEF n

(* r lists the elements of list at the places in K, place by place.         *)
Selects(r, list, K, place) ==
  /\ place \in [1 .. Len(r) -> K] /\ IsInjective(place)
  /\ \A k \in K : \E i \in 1 .. Len(r) : place[i] = k
  /\ \A i \in 1 .. Len(r) : r[i] = list[place[i]]

(* ElementsAt keeps the elements at the places in K and nothing else, each  *)
(* from a place of its own.                                                 *)
LEMMA ElementsAtFacts ==
  ASSUME NEW S, NEW list \in Seq(S), NEW K \in SUBSET DOMAIN list, NEW r, r = ElementsAt(list, K)
  PROVE  /\ r \in Seq(S) /\ IsFiniteSet(K) /\ Len(r) = Cardinality(K) /\ Cardinality(K) \in Nat
         /\ \E place : Selects(r, list, K, place)
         /\ ToSet(r) = {list[k] : k \in K}
<1>1. Len(list) \in Nat /\ DOMAIN list = 1 .. Len(list)
  OBVIOUS
<1>2. K \in SUBSET Nat /\ IsFiniteSet(K)
  <2>1. IsFiniteSet(1 .. Len(list))
    BY <1>1, FS_Interval
  <2>2. IsFiniteSet(K)
    BY <1>1, <2>1, FS_Subset
  <2> QED BY <1>1, <2>2
<1> DEFINE place == Ordered(K)
           n == Cardinality(K)
<1>3. /\ n \in Nat /\ place \in [1 .. n -> K] /\ IsInjective(place) /\ ToSet(place) = K
  BY <1>2, OrderedFacts
<1>4. r = [i \in DOMAIN place |-> list[place[i]]]
  BY DEF ElementsAt
<1> HIDE DEF place, n
<1>5. DOMAIN place = 1 .. n /\ \A k \in K : \E i \in 1 .. n : place[i] = k
  BY <1>3 DEF ToSet
<1>6. DOMAIN r = 1 .. n /\ \A i \in 1 .. n : r[i] = list[place[i]] /\ r[i] \in S
  BY <1>1, <1>3, <1>4, <1>5
<1>7. r = [i \in 1 .. n |-> r[i]]
  BY <1>4, <1>6
<1>8. r \in [1 .. n -> S]
  BY <1>6, <1>7
<1>9. r \in Seq(S) /\ Len(r) = n
  BY <1>3, <1>8
<1>10. ToSet(r) = {list[k] : k \in K}
  BY <1>3, <1>5, <1>6 DEF ToSet
<1>11. Selects(r, list, K, place)
  BY <1>3, <1>5, <1>6, <1>9 DEF Selects
<1> QED BY <1>2, <1>3, <1>9, <1>10, <1>11 DEF n
(* Lists that go up and have the same elements are the same, so that a list *)
(* that goes up is the one that Ordered makes.                              *)
LEMMA AscendingIsOrdered ==
  ASSUME NEW S \in SUBSET Nat, NEW n \in Nat, NEW s \in [1 .. n -> S],
         \A i, j \in 1 .. n : i < j => s[i] < s[j],
         \A x \in S : \E i \in 1 .. n : s[i] = x
  PROVE  s = Ordered(S)
<1> DEFINE B == 1 .. n
<1>1. IsFiniteSet(B) /\ Cardinality(B) = n
  BY FS_Interval
<1>2. s \in Surjection(B, S)
  BY DEF Surjection
<1>3. s \in Injection(B, S)
  <2>1. ASSUME NEW i \in B, NEW j \in B, s[i] = s[j] PROVE i = j
    <3>1. s[i] \in Nat /\ s[j] \in Nat
      OBVIOUS
    <3>2. ~ (i < j) /\ ~ (j < i)
      BY <2>1, <3>1
    <3> QED BY <3>2
  <2> QED BY <2>1 DEF Injection, IsInjective
<1> HIDE DEF B
<1>4. IsFiniteSet(S) /\ Cardinality(S) = n
  BY <1>1, <1>2, <1>3, FS_Surjection
<1> DEFINE t == Ordered(S)
<1>5. /\ t \in [1 .. n -> S] /\ ToSet(t) = S
      /\ \A i, j \in DOMAIN t : i < j => t[i] < t[j]
  BY <1>4, OrderedFacts
<1> HIDE DEF t
<1>6. DOMAIN t = 1 .. n /\ \A x \in S : \E i \in 1 .. n : t[i] = x
  BY <1>5 DEF ToSet
<1> DEFINE Differ == {i \in 1 .. n : s[i] # t[i]}
<1>7. Differ = {}
  <2> SUFFICES ASSUME Differ # {} PROVE FALSE
    OBVIOUS
  <2>1. PICK m \in Differ : \A i \in Differ : m <= i
    <3> Differ \in SUBSET Nat OBVIOUS
    <3> HIDE DEF Differ
    <3> QED BY LeastNat
  <2>2. /\ m \in 1 .. n /\ s[m] \in S /\ t[m] \in S /\ s[m] \in Nat /\ t[m] \in Nat /\ s[m] # t[m]
        /\ \A i \in 1 .. n : i < m => s[i] = t[i]
    <3>1. \A i \in 1 .. n : i < m => ~ (m <= i)
      BY <2>1
    <3>2. m \in 1 .. n /\ s[m] \in S /\ t[m] \in S /\ s[m] # t[m]
      BY <1>5, <2>1
    <3> QED BY <2>1, <3>1, <3>2
  <2> HIDE DEF Differ
  <2>3. PICK i \in 1 .. n : t[i] = s[m]
    BY <1>6, <2>2
  <2>4. PICK j \in 1 .. n : s[j] = t[m]
    BY <2>2
  <2>5. i > m
    <3>1. i # m /\ ~ (i < m)
      <4>1. ASSUME i < m PROVE FALSE
        <5>1. s[i] = s[m] /\ s[i] < s[m]
          BY <2>2, <2>3, <4>1
        <5> QED BY <2>2, <5>1
      <4> QED BY <2>2, <2>3, <4>1
    <3> QED BY <2>2, <3>1
  <2>6. j > m
    <3>1. j # m /\ ~ (j < m)
      <4>1. ASSUME j < m PROVE FALSE
        <5>1. t[j] = t[m] /\ t[j] < t[m]
          BY <1>5, <1>6, <2>2, <2>4, <4>1
        <5> QED BY <2>2, <5>1
      <4> QED BY <2>2, <2>4, <4>1
    <3> QED BY <2>2, <3>1
  <2>7. t[m] < t[i] /\ s[m] < s[j]
    BY <1>5, <1>6, <2>2, <2>3, <2>4, <2>5, <2>6
  <2> QED BY <2>2, <2>3, <2>4, <2>7
<1>8. \A i \in 1 .. n : s[i] = t[i]
  BY <1>7
<1> QED BY <1>5, <1>8 DEF t

(* Taking elements of what was taken out of a list is taking them from the  *)
(* list at once.                                                            *)
LEMMA OrderedTwice ==
  ASSUME NEW K \in SUBSET Nat, IsFiniteSet(K), NEW p, p = Ordered(K),
         NEW L \in SUBSET DOMAIN p, NEW r, r = Ordered(L),
         NEW M, M = {p[i] : i \in L}
  PROVE  /\ DOMAIN r = DOMAIN Ordered(M)
         /\ \A i \in DOMAIN r : r[i] \in L /\ Ordered(M)[i] = p[r[i]]
<1> DEFINE n == Cardinality(K)
           l == Cardinality(L)
           s == [i \in 1 .. l |-> p[r[i]]]
<1>1. /\ n \in Nat /\ p \in [1 .. n -> K] /\ IsInjective(p)
      /\ \A i, j \in 1 .. n : i < j => p[i] < p[j]
  BY OrderedFacts
<1>2. L \in SUBSET Nat /\ IsFiniteSet(L)
  <2>1. DOMAIN p = 1 .. n /\ IsFiniteSet(1 .. n)
    BY <1>1, FS_Interval
  <2>2. IsFiniteSet(L)
    BY <2>1, FS_Subset
  <2> HIDE DEF n
  <2> QED BY <1>1, <2>1, <2>2
<1>3. /\ l \in Nat /\ r \in [1 .. l -> L] /\ ToSet(r) = L
      /\ \A i, j \in 1 .. l : i < j => r[i] < r[j]
  BY <1>2, OrderedFacts
<1> HIDE DEF n, l
<1>4. L \subseteq 1 .. n
  BY <1>1
<1>5. M \in SUBSET Nat
  BY <1>1, <1>4
<1>6. s \in [1 .. l -> M]
  BY <1>3
<1>7. ASSUME NEW i \in 1 .. l, NEW j \in 1 .. l, i < j PROVE s[i] < s[j]
  <2>1. r[i] < r[j] /\ r[i] \in 1 .. n /\ r[j] \in 1 .. n
    BY <1>3, <1>4, <1>7
  <2> QED BY <1>1, <2>1
<1>8. ASSUME NEW x \in M PROVE \E i \in 1 .. l : s[i] = x
  <2>1. PICK k \in L : p[k] = x
    OBVIOUS
  <2>2. PICK i \in 1 .. l : r[i] = k
    BY <1>3 DEF ToSet
  <2> QED BY <2>1, <2>2
<1> HIDE DEF s
<1>9. s = Ordered(M)
  BY <1>3, <1>5, <1>6, <1>7, <1>8, AscendingIsOrdered
<1>10. DOMAIN s = 1 .. l /\ \A i \in 1 .. l : s[i] = p[r[i]]
  BY DEF s
<1> QED BY <1>3, <1>9, <1>10

(* ... as it is said of lists, where the elements may be changed between.   *)
LEMMA ElementsAtTwice ==
  ASSUME NEW S, NEW list \in Seq(S), NEW K \in SUBSET DOMAIN list,
         NEW mid, mid = ElementsAt(list, K),
         NEW changed, NEW L \in SUBSET DOMAIN mid, NEW after, NEW M \in SUBSET K,
         DOMAIN after = DOMAIN list,
         \A i \in DOMAIN mid : \A k \in K : mid[i] = list[k] /\ Ordered(K)[i] = k =>
            /\ i \in L <=> k \in M
            /\ i \in L => changed[i] = after[k]
  PROVE  ElementsAt(changed, L) = ElementsAt(after, M)
<1> DEFINE p == Ordered(K)
           r == Ordered(L)
<1>1. K \in SUBSET Nat /\ IsFiniteSet(K)
  <2>1. Len(list) \in Nat /\ DOMAIN list = 1 .. Len(list) /\ IsFiniteSet(1 .. Len(list))
    BY FS_Interval
  <2>2. IsFiniteSet(K)
    BY <2>1, FS_Subset
  <2> QED BY <2>1, <2>2
<1>2. p \in [1 .. Cardinality(K) -> K] /\ ToSet(p) = K
  BY <1>1, OrderedFacts
<1>3. DOMAIN mid = DOMAIN p /\ \A i \in DOMAIN p : mid[i] = list[p[i]] /\ p[i] \in K
  BY <1>2 DEF ElementsAt
<1>4. \A i \in DOMAIN p : /\ i \in L <=> p[i] \in M
                          /\ i \in L => changed[i] = after[p[i]]
  BY <1>3
<1>5. M = {p[i] : i \in L}
  <2>1. ASSUME NEW k \in M PROVE \E i \in L : p[i] = k
    <3>1. PICK i \in DOMAIN p : p[i] = k
      BY <1>2 DEF ToSet
    <3> QED BY <1>4, <3>1
  <2> HIDE DEF p
  <2>2. \A i \in L : p[i] \in M
    BY <1>3, <1>4
  <2> QED BY <2>1, <2>2
<1>6. L \in SUBSET DOMAIN p
  BY <1>3
<1>7. /\ DOMAIN r = DOMAIN Ordered(M)
      /\ \A i \in DOMAIN r : r[i] \in L /\ Ordered(M)[i] = p[r[i]]
  <2>1. p = Ordered(K) /\ r = Ordered(L)
    OBVIOUS
  <2> HIDE DEF p, r
  <2> QED BY <1>1, <1>5, <1>6, <2>1, OrderedTwice
<1>8. \A i \in DOMAIN r : changed[r[i]] = after[Ordered(M)[i]]
  BY <1>4, <1>6, <1>7
<1> HIDE DEF r, p
<1>9. [i \in DOMAIN r |-> changed[r[i]]] = [i \in DOMAIN Ordered(M) |-> after[Ordered(M)[i]]]
  BY <1>7, <1>8
<1> QED BY <1>9 DEF ElementsAt, r

(* Nothing is changed by taking all elements.                               *)
LEMMA ElementsAtAll ==
  ASSUME NEW S, NEW list \in Seq(S)
  PROVE  ElementsAt(list, DOMAIN list) = list
<1> DEFINE n == Len(list)
           s == [i \in 1 .. n |-> i]
<1>1. n \in Nat /\ DOMAIN list = 1 .. n
  OBVIOUS
<1> HIDE DEF n
<1>2. s \in [1 .. n -> 1 .. n] /\ (1 .. n) \in SUBSET Nat
  BY <1>1
<1>3. s = Ordered(1 .. n)
  <2>1. \A i, j \in 1 .. n : i < j => s[i] < s[j]
    OBVIOUS
  <2>2. \A x \in 1 .. n : \E i \in 1 .. n : s[i] = x
    OBVIOUS
  <2> HIDE DEF s
  <2> QED BY <1>1, <1>2, <2>1, <2>2, AscendingIsOrdered
<1>4. ElementsAt(list, DOMAIN list) = [i \in DOMAIN s |-> list[s[i]]]
  BY <1>1, <1>3, Zenon DEF ElementsAt
<1>5. [i \in DOMAIN s |-> list[s[i]]] = [i \in 1 .. n |-> list[i]]
  OBVIOUS
<1>6. list = [i \in 1 .. n |-> list[i]]
  BY <1>1
<1> QED BY <1>4, <1>5, <1>6
(* f[i] is the concatenation of the first i of the lists in ss.             *)
Flat(f, ss) ==
  f = [i \in 1 .. Len(ss) |-> IF i = 1 THEN ss[i] ELSE f[i-1] \o ss[i]]

(* The folding function of FlattenSeq exists.                               *)
LEMMA FlatExists ==
  ASSUME NEW S, NEW ss \in Seq(Seq(S))
  PROVE  \E f \in [1 .. Len(ss) -> Seq(S)] : Flat(f, ss)
<1> DEFINE l == Len(ss)
           Upto(f, m) == \A i \in 1 .. m : f[i] = IF i = 1 THEN ss[i] ELSE f[i-1] \o ss[i]
           N == {m \in Nat : m <= l => \E f \in [1 .. m -> Seq(S)] : Upto(f, m)}
<1>1. l \in Nat /\ \A i \in 1 .. l : ss[i] \in Seq(S)
  OBVIOUS
<1> HIDE DEF l, Upto
<1>2. 0 \in N
  <2> DEFINE f == [i \in 1 .. 0 |-> <<>>]
  <2>1. f \in [1 .. 0 -> Seq(S)] /\ Upto(f, 0)
    BY DEF Upto
  <2> HIDE DEF f
  <2> QED BY <2>1
<1>3. ASSUME NEW m \in Nat, m \in N PROVE m + 1 \in N
  <2> SUFFICES ASSUME m + 1 <= l PROVE \E f \in [1 .. m + 1 -> Seq(S)] : Upto(f, m + 1)
    OBVIOUS
  <2>1. PICK g \in [1 .. m -> Seq(S)] : Upto(g, m)
    BY <1>1, <1>3
  <2> DEFINE f == [i \in 1 .. m + 1 |->
                     IF i <= m THEN g[i] ELSE IF i = 1 THEN ss[i] ELSE g[i-1] \o ss[i]]
  <2>2. ASSUME NEW i \in 1 .. m + 1
        PROVE  f[i] \in Seq(S) /\ f[i] = IF i = 1 THEN ss[i] ELSE f[i-1] \o ss[i]
    <3>1. ss[i] \in Seq(S)
      BY <1>1
    <3>2. CASE i <= m
      <4>1. i # 1 => i - 1 \in 1 .. m
        BY <3>2
      <4>2. f[i] = g[i] /\ (i # 1 => f[i-1] = g[i-1])
        BY <3>2, <4>1
      <4> HIDE DEF f
      <4>3. i \in 1 .. m
        BY <3>2
      <4>4. g[i] \in Seq(S) /\ g[i] = IF i = 1 THEN ss[i] ELSE g[i-1] \o ss[i]
        BY <2>1, <4>3 DEF Upto
      <4> QED BY <4>2, <4>4
    <3>3. CASE ~ (i <= m)
      <4>1. i # 1 => i - 1 \in 1 .. m
        BY <3>3
      <4>2. f[i] = (IF i = 1 THEN ss[i] ELSE g[i-1] \o ss[i]) /\ (i # 1 => f[i-1] = g[i-1])
        BY <3>3, <4>1
      <4>3. i # 1 => g[i-1] \o ss[i] \in Seq(S)
        <5>1. i # 1 => g[i-1] \in Seq(S)
          BY <4>1
        <5> QED BY <3>1, <5>1
      <4> HIDE DEF f
      <4> QED BY <3>1, <4>2, <4>3
    <3> QED BY <3>2, <3>3
  <2>3. f \in [1 .. m + 1 -> Seq(S)] /\ Upto(f, m + 1)
    <3>1. f = [i \in 1 .. m + 1 |-> f[i]]
      OBVIOUS
    <3> HIDE DEF f
    <3> QED BY <2>2, <3>1 DEF Upto
  <2> HIDE DEF f
  <2> QED BY <2>3
<1> HIDE DEF N
<1>4. l \in N
  BY <1>1, <1>2, <1>3, NatInductionSet
<1>5. PICK f \in [1 .. l -> Seq(S)] : Upto(f, l)
  BY <1>1, <1>4 DEF N
<1>6. f = [i \in 1 .. l |-> IF i = 1 THEN ss[i] ELSE f[i-1] \o ss[i]]
  <2>1. f = [i \in 1 .. l |-> f[i]]
    OBVIOUS
  <2> DEFINE g == [i \in 1 .. l |-> IF i = 1 THEN ss[i] ELSE f[i-1] \o ss[i]]
  <2>2. \A i \in 1 .. l : g[i] = f[i]
    BY <1>5 DEF Upto
  <2>3. DOMAIN g = 1 .. l /\ g = [i \in 1 .. l |-> g[i]]
    OBVIOUS
  <2> HIDE DEF g
  <2>4. f = g
    BY <2>1, <2>2, <2>3
  <2> QED BY <2>4 DEF g
<1> QED BY <1>6, Zenon DEF Flat, l

(* And there is but one.                                                    *)
LEMMA FlatUnique ==
  ASSUME NEW ss, Len(ss) \in Nat, NEW f, Flat(f, ss), NEW g, Flat(g, ss)
  PROVE  f = g
<1> DEFINE n == Len(ss)
           Differ == {i \in 1 .. n : f[i] # g[i]}
<1>1. /\ \A i \in 1 .. n : f[i] = IF i = 1 THEN ss[i] ELSE f[i-1] \o ss[i]
      /\ \A i \in 1 .. n : g[i] = IF i = 1 THEN ss[i] ELSE g[i-1] \o ss[i]
      /\ f = [i \in 1 .. n |-> f[i]] /\ g = [i \in 1 .. n |-> g[i]]
  BY DEF Flat
<1> SUFFICES ASSUME Differ # {} PROVE FALSE
  BY <1>1
<1>2. PICK k \in Differ : \A i \in Differ : k <= i
  <2> Differ \in SUBSET Nat OBVIOUS
  <2> HIDE DEF Differ
  <2> QED BY LeastNat
<1>3. k \in 1 .. n /\ f[k] # g[k]
  BY <1>2
<1>4. k # 1
  BY <1>1, <1>3
<1>5. k - 1 \in 1 .. n /\ ~ (k <= k - 1)
  BY <1>3, <1>4
<1>6. f[k-1] = g[k-1]
  BY <1>2, <1>5
<1> QED BY <1>1, <1>3, <1>4, <1>6, ZenonT(40)

(* FlattenSeq puts lists one behind the other.                              *)
LEMMA FlattenOne ==
  ASSUME NEW S, NEW ss \in Seq(Seq(S)), ss # <<>>, NEW f, Flat(f, ss)
  PROVE  FlattenSeq(ss) = f[Len(ss)]
<1>1. Len(ss) # 0 /\ Len(ss) \in Nat
  BY EmptySeq
<1> DEFINE h == CHOOSE g : Flat(g, ss)
<1>2. FlattenSeq(ss) = h[Len(ss)]
  BY <1>1, Zenon DEF FlattenSeq, Flat
<1>3. Flat(h, ss)
  BY Zenon
<1> HIDE DEF h
<1>4. f = h
  BY <1>1, <1>3, FlatUnique
<1> QED BY <1>2, <1>4

(* Flattening one list more appends it.                                     *)
LEMMA FlattenFacts ==
  ASSUME NEW S, NEW n \in Nat, NEW tt \in [1 .. n -> Seq(S)],
         NEW ss \in [1 .. n + 1 -> Seq(S)], \A i \in 1 .. n : ss[i] = tt[i]
  PROVE  /\ FlattenSeq(tt) \in Seq(S)
         /\ FlattenSeq(ss) = FlattenSeq(tt) \o ss[n + 1]
         /\ n = 0 => FlattenSeq(tt) = <<>>
<1>1. /\ tt \in Seq(Seq(S)) /\ Len(tt) = n
      /\ ss \in Seq(Seq(S)) /\ Len(ss) = n + 1 /\ ss[n + 1] \in Seq(S)
  OBVIOUS
<1>2. PICK f \in [1 .. n + 1 -> Seq(S)] : Flat(f, ss) /\ FlattenSeq(ss) = f[n + 1]
  <2>1. ss # <<>>
    BY <1>1
  <2>2. PICK f \in [1 .. n + 1 -> Seq(S)] : Flat(f, ss)
    BY <1>1, FlatExists
  <2>3. FlattenSeq(ss) = f[Len(ss)]
    BY <1>1, <2>1, <2>2, FlattenOne
  <2> QED BY <1>1, <2>2, <2>3
<1>3. f[n + 1] = IF n + 1 = 1 THEN ss[n + 1] ELSE f[(n + 1) - 1] \o ss[n + 1]
  <2>1. \A i \in 1 .. Len(ss) : f[i] = IF i = 1 THEN ss[i] ELSE f[i-1] \o ss[i]
    BY <1>2 DEF Flat
  <2>2. n + 1 \in 1 .. Len(ss)
    BY <1>1
  <2> QED BY <2>1, <2>2
<1>4. CASE n = 0
  <2>1. FlattenSeq(tt) = <<>>
    <3>1. tt = <<>>
      BY <1>1, <1>4, EmptySeq
    <3> QED BY <1>1, <1>4, <3>1 DEF FlattenSeq
  <2>2. f[n + 1] = ss[n + 1] /\ <<>> \o ss[n + 1] = ss[n + 1]
    BY <1>1, <1>3, <1>4
  <2> QED BY <1>2, <1>4, <2>1, <2>2
<1>5. CASE n # 0
  <2> DEFINE g == [i \in 1 .. n |-> f[i]]
  <2>1. \A i \in 1 .. n : g[i] = IF i = 1 THEN tt[i] ELSE g[i-1] \o tt[i]
    <3>1. \A i \in 1 .. Len(ss) : f[i] = IF i = 1 THEN ss[i] ELSE f[i-1] \o ss[i]
      BY <1>2 DEF Flat
    <3>2. \A i \in 1 .. n : i \in 1 .. Len(ss) /\ ss[i] = tt[i] /\ (i # 1 => i - 1 \in 1 .. n)
      BY <1>1
    <3> QED BY <3>1, <3>2
  <2>2. FlattenSeq(tt) = g[n]
    <3>1. tt # <<>>
      BY <1>1, <1>5
    <3>2. g = [i \in 1 .. n |-> g[i]]
      OBVIOUS
    <3> HIDE DEF g
    <3>3. g = [i \in 1 .. n |-> IF i = 1 THEN tt[i] ELSE g[i-1] \o tt[i]]
      BY <2>1, <3>2
    <3>4. Flat(g, tt)
      BY <1>1, <3>3, Zenon DEF Flat
    <3> QED BY <1>1, <3>1, <3>4, FlattenOne
  <2>3. n \in 1 .. n /\ n \in 1 .. n + 1 /\ (n + 1) - 1 = n /\ n + 1 # 1
    BY <1>5
  <2>4. g[n] = f[n] /\ f[n] \in Seq(S)
    BY <1>2, <2>3
  <2> HIDE DEF g
  <2>5. f[n + 1] = f[n] \o ss[n + 1]
    BY <1>3, <2>3
  <2> QED BY <1>2, <1>5, <2>2, <2>4, <2>5
<1> QED BY <1>4, <1>5
=============================================================================
