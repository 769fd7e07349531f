--------------------------- MODULE SelectionProofs ---------------------------
(***************************************************************************)
(* What Kept returns, for any sequence: the elements at the positions it   *)
(* is given, each once and in their order (KeptElements).  A definition by *)
(* recursion on a natural number is reasoned about without the library's   *)
(* induction theorems, whose operator parameter no prover instantiates: a  *)
(* set that holds 0 and with n also n + 1 holds every natural number,      *)
(* since otherwise it would miss a least one.                              *)
(***************************************************************************)
EXTENDS Selection, SequenceTheorems, FiniteSetTheorems, WellFoundedInduction, TLAPS

LEMMA LeastElement ==
    ASSUME NEW T \in SUBSET Nat, T # {}
    PROVE  \E m \in T : \A n \in T : m <= n
<1>1. IsWellFoundedOn(OpToRel(<, Nat), Nat)
  BY NatLessThanWellFounded
<1>2. PICK m \in T : \A n \in T : ~(<<n, m>> \in OpToRel(<, Nat))
  BY <1>1, WFMin
<1>3. \A n \in T : ~(n < m)
  BY <1>2 DEF OpToRel
<1> QED
  BY <1>3

LEMMA Induction ==
    ASSUME NEW S, 0 \in S, \A n \in Nat : n \in S => n + 1 \in S
    PROVE  Nat \subseteq S
<1> DEFINE T == Nat \ S
<1> SUFFICES ASSUME T # {} PROVE FALSE
  OBVIOUS
<1> HIDE DEF T
<1>1. PICK m \in T : \A n \in T : m <= n
  <2>1. T \in SUBSET Nat  BY DEF T
  <2> QED  BY <2>1, LeastElement
<1>2. m \in Nat /\ m # 0 /\ m - 1 \in Nat
  BY DEF T
<1>3. m - 1 \in S
  BY <1>1, <1>2 DEF T
<1>4. (m - 1) + 1 \in S
  BY <1>2, <1>3
<1> QED
  BY <1>2, <1>4 DEF T

\* f is what a recursive definition over 0..n says, whose values stay in S ...
Iterates(f, n, S, start, step) ==
    /\ f \in [0..n -> S]
    /\ f[0] = start /\ \A i \in 1..n : f[i] = step[i][f[i - 1]]

\* ... and there is such a function.
LEMMA RecursiveFunction ==
    ASSUME NEW n \in Nat, NEW S, NEW start \in S, NEW step, 
           \A i \in 1..n : \A x \in S : step[i][x] \in S
    PROVE  \E f : Iterates(f, n, S, start, step)
<1> DEFINE Good(m) == m <= n => \E f \in [0..m -> S] :
              f[0] = start /\ \A i \in 1..m : f[i] = step[i][f[i - 1]]
           Goods == {m \in Nat : Good(m)}
<1>1. 0 \in Goods
  <2> DEFINE f == [i \in 0..0 |-> start]
  <2>1. f \in [0..0 -> S] /\ f[0] = start /\ 1..0 = {}
    OBVIOUS
  <2> QED
    BY <2>1
<1>2. ASSUME NEW m \in Nat, m \in Goods PROVE m + 1 \in Goods
  <2> SUFFICES ASSUME m + 1 <= n
               PROVE \E f \in [0..(m + 1) -> S] :
                        f[0] = start /\ \A i \in 1..(m + 1) : f[i] = step[i][f[i - 1]]
    OBVIOUS
  <2>1. PICK g \in [0..m -> S] : g[0] = start /\ \A i \in 1..m : g[i] = step[i][g[i - 1]]
    BY <1>2
  <2> DEFINE f == [i \in 0..(m + 1) |-> IF i = m + 1 THEN step[m + 1][g[m]] ELSE g[i]]
  <2>2. step[m + 1][g[m]] \in S
    OBVIOUS
  <2>3. f \in [0..(m + 1) -> S]
    BY <2>2
  <2>4. f[0] = start /\ f[m + 1] = step[m + 1][g[m]] /\ \A i \in 0..m : f[i] = g[i]
    BY <2>1
  <2> HIDE DEF f
  <2>5. ASSUME NEW i \in 1..(m + 1) PROVE f[i] = step[i][f[i - 1]]
    <3>1. CASE i = m + 1
      BY <3>1, <2>4
    <3>2. CASE i # m + 1
      <4>1. i \in 1..m /\ i \in 0..m /\ i - 1 \in 0..m
        BY <3>2
      <4> QED
        BY <4>1, <2>1, <2>4
    <3> QED
      BY <3>1, <3>2
  <2> QED
    BY <2>3, <2>4, <2>5
<1> HIDE DEF Goods
<1>3. Nat \subseteq Goods
  BY <1>1, <1>2, Induction
<1>4. PICK f \in [0..n -> S] : f[0] = start /\ \A i \in 1..n : f[i] = step[i][f[i - 1]]
  BY <1>3 DEF Goods
<1> QED
  BY <1>4 DEF Iterates

\* The steps of Kept.
KeptStep(s, is, n, kept) == IF n \in is THEN Append(kept, s[n]) ELSE kept

LEMMA KeptStepType ==
    ASSUME NEW T, NEW s \in Seq(T), NEW is, NEW n \in 1..Len(s), NEW kept \in Seq(T)
    PROVE  KeptStep(s, is, n, kept) \in Seq(T)
<1>1. s[n] \in T
  OBVIOUS
<1> QED
  BY <1>1 DEF KeptStep

IsKept(f, s, is) ==
    f = [n \in 0..Len(s) |-> IF n = 0 THEN <<>>
                             ELSE IF n \in is THEN Append(f[n - 1], s[n]) ELSE f[n - 1]]

LEMMA IsKeptSteps ==
    ASSUME NEW T, NEW s \in Seq(T), NEW is, NEW f, IsKept(f, s, is)
    PROVE  /\ f[0] = <<>> /\ DOMAIN f = 0..Len(s)
           /\ \A n \in 1..Len(s) : f[n] = KeptStep(s, is, n, f[n - 1])
<1>1. Len(s) \in Nat
  OBVIOUS
<1>2. DOMAIN f = 0..Len(s)
  BY DEF IsKept
<1>3. ASSUME NEW n \in 0..Len(s)
      PROVE  f[n] = IF n = 0 THEN <<>>
                    ELSE IF n \in is THEN Append(f[n - 1], s[n]) ELSE f[n - 1]
  BY Zenon DEF IsKept
<1>4. f[0] = <<>>
  BY <1>1, <1>3
<1>5. ASSUME NEW n \in 1..Len(s)
      PROVE  f[n] = KeptStep(s, is, n, f[n - 1])
  <2>1. n \in 0..Len(s) /\ n # 0
    BY <1>1
  <2> QED
    BY <1>3, <2>1 DEF KeptStep
<1> QED
  BY <1>2, <1>4, <1>5

KeptUp(f, T, s, is) ==
    /\ f \in [0..Len(s) -> Seq(T)]
    /\ f[0] = <<>> /\ Kept(s, is) = f[Len(s)]
    /\ \A n \in 1..Len(s) : f[n] = KeptStep(s, is, n, f[n - 1])

LEMMA KeptSteps ==
    ASSUME NEW T, NEW s \in Seq(T), NEW is
    PROVE  \E f : KeptUp(f, T, s, is)
<1> DEFINE step == [i \in 1..Len(s) |-> [x \in Seq(T) |-> KeptStep(s, is, i, x)]]
<1>1. Len(s) \in Nat /\ <<>> \in Seq(T)
  OBVIOUS
<1>2. \A i \in 1..Len(s), x \in Seq(T) : step[i][x] = KeptStep(s, is, i, x)
  OBVIOUS
<1>3. \A i \in 1..Len(s) : \A x \in Seq(T) : step[i][x] \in Seq(T)
  BY <1>2, KeptStepType
<1> HIDE DEF step
<1>4. PICK f \in [0..Len(s) -> Seq(T)] :
        f[0] = <<>> /\ \A i \in 1..Len(s) : f[i] = step[i][f[i - 1]]
  <2>1. \E f : Iterates(f, Len(s), Seq(T), <<>>, step)
    BY <1>1, <1>3, RecursiveFunction
  <2> QED
    BY <2>1 DEF Iterates
<1>5. IsKept(f, s, is)
  <2>1. ASSUME NEW n \in 0..Len(s)
        PROVE f[n] = IF n = 0 THEN <<>>
                     ELSE IF n \in is THEN Append(f[n - 1], s[n]) ELSE f[n - 1]
    <3>1. CASE n = 0
      BY <3>1, <1>4
    <3>2. CASE n # 0
      <4>1. n \in 1..Len(s) /\ n - 1 \in 0..Len(s)
        BY <3>2, <1>1
      <4>2. f[n - 1] \in Seq(T)
        BY <4>1
      <4>3. f[n] = KeptStep(s, is, n, f[n - 1])
        BY <4>1, <4>2, <1>2, <1>4
      <4> QED
        BY <4>3, <3>2 DEF KeptStep
    <3> QED
      BY <3>1, <3>2
  <2>2. f = [n \in 0..Len(s) |-> f[n]]
    OBVIOUS
  <2> QED
    BY <2>1, <2>2 DEF IsKept
<1> DEFINE g == CHOOSE h : IsKept(h, s, is)
<1>6. IsKept(g, s, is)
  BY <1>5
<1>7. Kept(s, is) = g[Len(s)]
  BY DEF Kept, IsKept
<1> HIDE DEF g
<1>8. /\ g[0] = <<>> /\ DOMAIN g = 0..Len(s)
      /\ \A n \in 1..Len(s) : g[n] = KeptStep(s, is, n, g[n - 1])
  BY <1>6, IsKeptSteps
<1> DEFINE G == {n \in Nat : n <= Len(s) => g[n] \in Seq(T)}
<1>9. 0 \in G
  BY <1>1, <1>8
<1>10. \A n \in Nat : n \in G => n + 1 \in G
  <2> SUFFICES ASSUME NEW n \in Nat, n \in G, n + 1 <= Len(s) PROVE g[n + 1] \in Seq(T)
    OBVIOUS
  <2>1. n + 1 \in 1..Len(s) /\ (n + 1) - 1 = n /\ g[n] \in Seq(T)
    BY <1>1
  <2>2. KeptStep(s, is, n + 1, g[n]) \in Seq(T)
    BY <2>1, KeptStepType
  <2> QED
    BY <2>1, <2>2, <1>8
<1> HIDE DEF G
<1>11. Nat \subseteq G
  BY <1>9, <1>10, Induction
<1>12. g \in [0..Len(s) -> Seq(T)]
  <2>1. \A n \in 0..Len(s) : g[n] \in Seq(T)
    BY <1>11, <1>1 DEF G
  <2>2. g = [n \in 0..Len(s) |-> g[n]]
    BY <1>6 DEF IsKept
  <2> QED
    BY <2>1, <2>2
<1> QED
  BY <1>7, <1>8, <1>12 DEF KeptUp

\* p lists the elements of s at the positions is, one for each, in their order.
ListsAt(p, s, is) ==
    \E at \in [1..Len(p) -> is] :
        /\ \A i \in 1..Len(p) : p[i] = s[at[i]]
        /\ \A i, j \in 1..Len(p) : i < j => at[i] < at[j]
        /\ \A n \in is : \E i \in 1..Len(p) : at[i] = n

LEMMA EmptyListsAt ==
    ASSUME NEW s PROVE ListsAt(<<>>, s, {})
<1>1. 1..Len(<<>>) = {}
  OBVIOUS
<1>2. [i \in {} |-> {}] \in [{} -> {}]
  OBVIOUS
<1> QED
  BY <1>1, <1>2 DEF ListsAt

LEMMA LongerListsAt ==
    ASSUME NEW T, NEW p \in Seq(T), NEW s, NEW is, NEW n, n \in Nat, is \subseteq 1..(n - 1), ListsAt(p, s, is),
           s[n] \in T
    PROVE  ListsAt(Append(p, s[n]), s, is \cup {n})
<1> PICK l : l = Len(p)
  OBVIOUS
<1> PICK q : q = Append(p, s[n])
  OBVIOUS
<1>1. /\ Len(q) = l + 1 /\ l \in Nat
      /\ \A i \in 1..l : q[i] = p[i]
      /\ q[l + 1] = s[n]
  BY AppendProperties
<1>2. PICK at \in [1..l -> is] :
        /\ \A i \in 1..l : p[i] = s[at[i]]
        /\ \A i, j \in 1..l : i < j => at[i] < at[j]
        /\ \A m \in is : \E i \in 1..l : at[i] = m
  BY DEF ListsAt
<1> DEFINE to == [i \in 1..(l + 1) |-> IF i = l + 1 THEN n ELSE at[i]]
<1>3. to \in [1..(l + 1) -> is \cup {n}]
  BY <1>1, <1>2
<1>4. to[l + 1] = n /\ \A i \in 1..l : to[i] = at[i]
  BY <1>1
<1>5. \A i \in 1..l : at[i] \in is /\ at[i] < n
  <2>1. \A i \in 1..l : at[i] \in is
    BY <1>2
  <2>2. \A m \in is : m < n
    OBVIOUS
  <2> QED
    BY <2>1, <2>2
<1> HIDE DEF to
<1>6. \A i \in 1..(l + 1) : q[i] = s[to[i]]
  BY <1>1, <1>2, <1>4
<1>7. ASSUME NEW i \in 1..(l + 1), NEW j \in 1..(l + 1), i < j PROVE to[i] < to[j]
  <2>1. i \in 1..l
    BY <1>1, <1>7
  <2>2. CASE j = l + 1
    BY <1>4, <1>5, <2>1, <2>2
  <2>3. CASE j # l + 1
    <3>1. j \in 1..l
      BY <1>1, <2>3
    <3> QED
      BY <1>2, <1>4, <1>7, <2>1, <3>1
  <2> QED
    BY <2>2, <2>3
<1>8. ASSUME NEW m \in is \cup {n} PROVE \E i \in 1..(l + 1) : to[i] = m
  <2>1. CASE m = n
    BY <1>1, <1>4, <2>1
  <2>2. CASE m # n
    <3>1. PICK i \in 1..l : at[i] = m
      BY <1>2, <2>2
    <3> QED
      BY <1>1, <1>4, <3>1
  <2> QED
    BY <2>1, <2>2
<1>9. ListsAt(q, s, is \cup {n})
  <2>1. Len(q) = l + 1
    BY <1>1
  <2>2. /\ to \in [1..Len(q) -> is \cup {n}]
        /\ \A i \in 1..Len(q) : q[i] = s[to[i]]
        /\ \A i, j \in 1..Len(q) : i < j => to[i] < to[j]
        /\ \A m \in is \cup {n} : \E i \in 1..Len(q) : to[i] = m
    BY <1>3, <1>6, <1>7, <1>8, <2>1
  <2> QED
    BY <2>2 DEF ListsAt
<1> QED
  BY <1>9

ListsUpTo(f, s, is, n) == n <= Len(s) => ListsAt(f[n], s, is \cap (1..n))

LEMMA NextListed ==
    ASSUME NEW T, NEW s \in Seq(T), NEW is \in SUBSET (1..Len(s)), NEW f, KeptUp(f, T, s, is),
           NEW n \in Nat, ListsUpTo(f, s, is, n)
    PROVE  ListsUpTo(f, s, is, n + 1)
<1> SUFFICES ASSUME n + 1 <= Len(s) PROVE ListsAt(f[n + 1], s, is \cap (1..(n + 1)))
  BY DEF ListsUpTo
<1> PICK m : m = n + 1
  OBVIOUS
<1>1. m \in 1..Len(s) /\ m \in Nat /\ m - 1 = n /\ n \in 0..Len(s) /\ n <= Len(s)
  OBVIOUS
<1>2. ListsAt(f[n], s, is \cap (1..n))
  BY <1>1 DEF ListsUpTo
<1>3. f[m] = KeptStep(s, is, m, f[n]) /\ f[n] \in Seq(T) /\ s[m] \in T
  BY <1>1 DEF KeptUp
<1>4. CASE m \notin is
  <2>1. is \cap (1..m) = is \cap (1..n)
    BY <1>4
  <2> QED
    BY <1>2, <1>3, <1>4, <2>1 DEF KeptStep
<1>5. CASE m \in is
  <2> DEFINE js == is \cap (1..n)
  <2>1. is \cap (1..m) = js \cup {m}
    BY <1>1, <1>5
  <2>2. js \subseteq 1..(m - 1)
    BY <1>1
  <2>3. f[m] = Append(f[n], s[m])
    BY <1>3, <1>5 DEF KeptStep
  <2>4. ListsAt(f[n], s, js)
    BY <1>2
  <2> HIDE DEF js
  <2>5. ListsAt(Append(f[n], s[m]), s, js \cup {m})
    BY <1>1, <1>3, <2>2, <2>4, LongerListsAt
  <2> QED
    BY <2>1, <2>3, <2>5
<1> QED
  BY <1>4, <1>5

\* What is kept are the elements at the positions, one for each, in their order.
LEMMA KeptElements ==
    ASSUME NEW T, NEW s \in Seq(T), NEW is \in SUBSET (1..Len(s))
    PROVE  Kept(s, is) \in Seq(T) /\ ListsAt(Kept(s, is), s, is)
<1>1. PICK f : KeptUp(f, T, s, is)
  BY KeptSteps
<1> DEFINE G == {n \in Nat : ListsUpTo(f, s, is, n)}
<1>2. 0 \in G
  <2>1. is \cap (1..0) = {}
    OBVIOUS
  <2> QED
    BY <1>1, <2>1, EmptyListsAt DEF KeptUp, ListsUpTo
<1>3. \A n \in Nat : n \in G => n + 1 \in G
  BY <1>1, NextListed
<1> HIDE DEF G
<1>4. Nat \subseteq G
  BY <1>2, <1>3, Induction
<1>5. Len(s) \in Nat
  OBVIOUS
<1>6. ListsUpTo(f, s, is, Len(s)) /\ f[Len(s)] \in Seq(T)
  BY <1>1, <1>4, <1>5 DEF G, KeptUp
<1>7. ListsAt(f[Len(s)], s, is)
  <2> PICK js : js = is \cap (1..Len(s))
    OBVIOUS
  <2>1. js = is
    OBVIOUS
  <2>2. ListsAt(f[Len(s)], s, js)
    BY <1>5, <1>6 DEF ListsUpTo
  <2> QED
    BY <2>1, <2>2
<1> QED
  BY <1>1, <1>6, <1>7 DEF KeptUp
-----------------------------------------------------------------------------
(* What the proofs about lists and samples keep needing. *)

LEMMA GreatestElement ==
    ASSUME NEW S \in SUBSET Nat, S # {}, NEW b \in Nat, \A n \in S : n <= b
    PROVE  \E m \in S : \A n \in S : n <= m
<1> DEFINE T == {b - n : n \in S}
<1>1. T \in SUBSET Nat /\ T # {}
  <2>1. \A n \in S : n \in Nat /\ n <= b /\ b - n \in Nat
    OBVIOUS
  <2>2. T \subseteq Nat
    BY <2>1
  <2>3. PICK n \in S : TRUE
    OBVIOUS
  <2>4. b - n \in T
    OBVIOUS
  <2> QED
    BY <2>2, <2>4
<1> HIDE DEF T
<1>2. PICK t \in T : \A n \in T : t <= n
  BY <1>1, LeastElement
<1>3. PICK m \in S : t = b - m
  BY <1>2 DEF T
<1>4. ASSUME NEW n \in S PROVE n <= m
  <2>1. b - n \in T
    BY DEF T
  <2>2. b - m <= b - n /\ n \in Nat /\ m \in Nat
    BY <1>2, <1>3, <2>1
  <2> QED
    BY <2>2
<1> QED
  BY <1>4

LEMMA UpToSize ==
    ASSUME NEW n \in Nat
    PROVE  IsFiniteSet(1..n) /\ Cardinality(1..n) = n
<1>1. 1 \in Int /\ n \in Int
  OBVIOUS
<1>2. IsFiniteSet(1..n) /\ Cardinality(1..n) = (IF 1 > n THEN 0 ELSE n - 1 + 1)
  BY <1>1, FS_Interval
<1> QED
  BY <1>2

LEMMA SameSize ==
    ASSUME NEW A, IsFiniteSet(A), NEW B, NEW f, \A x \in A : f[x] \in B,
           \A x, y \in A : f[x] = f[y] => x = y, \A b \in B : \E x \in A : f[x] = b
    PROVE  IsFiniteSet(B) /\ Cardinality(B) = Cardinality(A)
<1> DEFINE g == [x \in A |-> f[x]]
<1>1. g \in [A -> B] /\ \A x \in A : g[x] = f[x]
  OBVIOUS
<1> HIDE DEF g
<1>2. g \in Bijection(A, B)
  BY <1>1 DEF Bijection, Injection, Surjection, IsInjective
<1>3. ExistsBijection(A, B)
  BY <1>2 DEF ExistsBijection
<1> QED
  BY <1>3, FS_Bijection

LEMMA ElementsIn ==
    ASSUME NEW T, NEW s \in Seq(T)
    PROVE  Len(s) \in Nat /\ \A i \in 1..Len(s) : s[i] \in T
OBVIOUS

LEMMA ReplacedAt ==
    ASSUME NEW T, NEW rows \in Seq(T), NEW i \in 1..Len(rows), NEW r \in T, NEW new,
           new = [rows EXCEPT ![i] = r]
    PROVE  /\ new \in Seq(T) /\ Len(new) = Len(rows) /\ new[i] = r
           /\ \A j \in 1..Len(rows) : j # i => new[j] = rows[j]
OBVIOUS

LEMMA AppendedAt ==
    ASSUME NEW T, NEW rows \in Seq(T), NEW r \in T, NEW new, new = Append(rows, r)
    PROVE  /\ new \in Seq(T) /\ Len(new) = Len(rows) + 1 /\ new[Len(rows) + 1] = r
           /\ \A j \in 1..Len(rows) : new[j] = rows[j]
OBVIOUS

LEMMA KeptSources ==
    ASSUME NEW T, NEW s \in Seq(T), NEW is \in SUBSET (1..Len(s))
    PROVE  LET p == Kept(s, is) IN
           /\ p \in Seq(T) /\ Len(p) \in Nat
           /\ \A i \in 1..Len(p) : \E n \in is : p[i] = s[n]
           /\ \A n \in is : \E i \in 1..Len(p) : p[i] = s[n]
<1> PICK p : p = Kept(s, is)
  OBVIOUS
<1>1. p \in Seq(T) /\ ListsAt(p, s, is)
  BY KeptElements
<1>2. PICK to \in [1..Len(p) -> is] :
        /\ \A i \in 1..Len(p) : p[i] = s[to[i]]
        /\ \A n \in is : \E i \in 1..Len(p) : to[i] = n
  BY <1>1 DEF ListsAt
<1>3. ASSUME NEW i \in 1..Len(p) PROVE \E n \in is : p[i] = s[n]
  <2>1. to[i] \in is
    BY <1>2
  <2>2. p[i] = s[to[i]]
    BY <1>2
  <2> QED
    BY <2>1, <2>2
<1>4. ASSUME NEW n \in is PROVE \E i \in 1..Len(p) : p[i] = s[n]
  <2>1. PICK i \in 1..Len(p) : to[i] = n
    BY <1>2
  <2>2. p[i] = s[to[i]]
    BY <1>2
  <2> QED
    BY <2>1, <2>2
<1> QED
  BY <1>1, <1>3, <1>4

LEMMA CountKept ==
    ASSUME NEW T, NEW s \in Seq(T), NEW is \in SUBSET (1..Len(s))
    PROVE  /\ Len(Kept(s, is)) = Cardinality(is)
           /\ IsFiniteSet(is)
<1> PICK p : p = Kept(s, is)
  OBVIOUS
<1>1. p \in Seq(T) /\ ListsAt(p, s, is)
  BY KeptElements
<1>2. PICK to \in [1..Len(p) -> is] :
        /\ \A i, j \in 1..Len(p) : i < j => to[i] < to[j]
        /\ \A n \in is : \E i \in 1..Len(p) : to[i] = n
  BY <1>1 DEF ListsAt
<1>3. Len(p) \in Nat /\ \A n \in is : n \in Nat
  BY <1>1
<1>4. \A i \in 1..Len(p) : i \in Nat /\ to[i] \in Nat
  <2>1. \A i \in 1..Len(p) : i \in Nat /\ to[i] \in is
    BY <1>2, <1>3
  <2> QED
    BY <1>3, <2>1
<1>5. ASSUME NEW i \in 1..Len(p), NEW j \in 1..Len(p), to[i] = to[j] PROVE i = j
  <2>1. ~(to[i] < to[j]) /\ ~(to[j] < to[i])
    BY <1>4, <1>5
  <2> QED
    BY <1>2, <1>4, <2>1
<1>6. to \in Bijection(1..Len(p), is)
  BY <1>2, <1>5 DEF Bijection, Injection, Surjection, IsInjective
<1>7. IsFiniteSet(1..Len(p)) /\ Cardinality(1..Len(p)) = Len(p)
  BY <1>3, UpToSize
<1>8. IsFiniteSet(is) /\ Cardinality(is) = Cardinality(1..Len(p))
  <2>1. ExistsBijection(1..Len(p), is)
    BY <1>6 DEF ExistsBijection
  <2> QED
    BY <1>7, <2>1, FS_Bijection
<1> QED
  BY <1>7, <1>8

\* to says from where each element of p was taken.
TakenFrom(to, p, s, is) ==
    /\ to \in [1..Len(p) -> is]
    /\ \A i \in 1..Len(p) : p[i] = s[to[i]]
    /\ \A i, j \in 1..Len(p) : to[i] = to[j] => i = j
    /\ \A n \in is : \E i \in 1..Len(p) : to[i] = n

LEMMA KeptPlaces ==
    ASSUME NEW T, NEW s \in Seq(T), NEW is \in SUBSET (1..Len(s))
    PROVE  \E to : TakenFrom(to, Kept(s, is), s, is)
<1> PICK p : p = Kept(s, is)
  OBVIOUS
<1>1. p \in Seq(T) /\ ListsAt(p, s, is)
  BY KeptElements
<1>2. PICK to \in [1..Len(p) -> is] :
        /\ \A i \in 1..Len(p) : p[i] = s[to[i]]
        /\ \A i, j \in 1..Len(p) : i < j => to[i] < to[j]
        /\ \A n \in is : \E i \in 1..Len(p) : to[i] = n
  BY <1>1 DEF ListsAt
<1>3. Len(p) \in Nat /\ \A n \in is : n \in Nat
  BY <1>1
<1>4. \A i \in 1..Len(p) : i \in Nat /\ to[i] \in Nat
  <2>1. \A i \in 1..Len(p) : i \in Nat /\ to[i] \in is
    BY <1>2, <1>3
  <2> QED
    BY <1>3, <2>1
<1>5. ASSUME NEW i \in 1..Len(p), NEW j \in 1..Len(p), to[i] = to[j] PROVE i = j
  <2>1. ~(to[i] < to[j]) /\ ~(to[j] < to[i])
    BY <1>4, <1>5
  <2> QED
    BY <1>2, <1>4, <2>1
<1>6. TakenFrom(to, p, s, is)
  BY <1>2, <1>5 DEF TakenFrom
<1> QED
  BY <1>6
=============================================================================
