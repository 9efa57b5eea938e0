--------------------------- MODULE JsonTreeShape ---------------------------
(***************************************************************************)
(* What the pointers of JsonTree say, for any heap: ListFrom finds a list  *)
(* that is linked to its end, Reached finds what is below an item, and     *)
(* each function on lists leaves the shape of the heap with one list       *)
(* changed as it should.                                                   *)
(***************************************************************************)
EXTENDS JsonTree, WellFoundedInduction, FiniteSetTheorems, SequenceTheorems, TLAPS

---------------------------------------------------------------------------
(* Iterations. *)
\* A set of numbers that is not empty has a least member.
LEMMA LeastNatural ==
  ASSUME NEW S \in SUBSET Nat, S # {}
  PROVE  \E x \in S : \A y \in S : x <= y
<1>1. PICK x \in S : \A y \in S : ~ (<<y, x>> \in OpToRel(<, Nat))
  BY NatLessThanWellFounded, WFMin, Zenon
<1>2. \A y \in S : ~ (y < x)
  BY <1>1, Zenon DEF OpToRel
<1>3. \A y \in S : x <= y
  BY <1>2
<1> QED  BY <1>3

\* What holds of 0, and of a number after the one before it, holds up to n.
LEMMA UpTo ==
  ASSUME NEW n \in Nat, NEW S, 0 \in S, \A i \in 0 .. n - 1 : i \in S => i + 1 \in S
  PROVE  \A i \in 0 .. n : i \in S
<1> SUFFICES ASSUME (0 .. n) \ S # {} PROVE FALSE
  OBVIOUS
<1>1. PICK x \in (0 .. n) \ S : \A y \in (0 .. n) \ S : x <= y
  <2>1. (0 .. n) \ S \in SUBSET Nat
    OBVIOUS
  <2> QED  BY <2>1, LeastNatural, Zenon
<1>2. x # 0 /\ x - 1 \in 0 .. n - 1
  BY <1>1
<1>3. x - 1 \in S
  BY <1>1, <1>2
<1> QED  BY <1>1, <1>2, <1>3

\* The values of a function defined along the numbers up to n exist.
IsStep(F, D) == F \in [D -> D]
IsIteration(f, n, D, d, F) ==
  f \in [0 .. n -> D] /\ f[0] = d /\ \A i \in 1 .. n : f[i] = F[f[i - 1]]
\* What a function defined by recursion on the numbers up to n is to be, exists.
LEMMA Iterates ==
  ASSUME NEW n \in Nat, NEW D, NEW d \in D, NEW F, IsStep(F, D)
  PROVE  \E f : IsIteration(f, n, D, d, F)
<1> USE DEF IsStep
<1> DEFINE Part(k, f) == f[0] = d /\ \A i \in 1 .. k : f[i] = F[f[i - 1]]
           G == {k \in 0 .. n : \E f \in [0 .. k -> D] : Part(k, f)}
<1>1. 0 \in G
  <2>1. [i \in 0 .. 0 |-> d] \in [0 .. 0 -> D] /\ Part(0, [i \in 0 .. 0 |-> d]) /\ 0 \in 0 .. n
    OBVIOUS
  <2> QED  BY <2>1
<1>2. ASSUME NEW k \in 0 .. n - 1, k \in G PROVE k + 1 \in G
  <2>1. PICK f \in [0 .. k -> D] : Part(k, f)
    BY <1>2
  <2> DEFINE g == [i \in 0 .. k + 1 |-> IF i = k + 1 THEN F[f[k]] ELSE f[i]]
  <2>2. g \in [0 .. k + 1 -> D] /\ k + 1 \in 0 .. n
    BY <2>1
  <2>3. Part(k + 1, g)
    BY <2>1
  <2> QED  BY <2>2, <2>3
<1>3. n \in G
  <2> HIDE DEF G
  <2>1. \A k \in 0 .. n - 1 : k \in G => k + 1 \in G
    BY <1>2
  <2>2. \A k \in 0 .. n : k \in G
    BY <1>1, <2>1, UpTo, Zenon
  <2> QED  BY <2>2
<1> QED  BY <1>3 DEF IsIteration

\* What grows in a finite set has stopped growing after as many steps as it has members.
Grows(n, D, F, f) ==
  /\ n \in Nat /\ IsFiniteSet(D) /\ Cardinality(D) = n
  /\ \A S \in SUBSET D : F[S] \in SUBSET D /\ S \subseteq F[S]
  /\ \A i \in 0 .. n : f[i] \in SUBSET D
  /\ f[0] # {} /\ \A i \in 1 .. n : f[i] = F[f[i - 1]]
\* So a set that grows by every step in a finite set is a fixed point after as many.
LEMMA StopsGrowing ==
  ASSUME NEW n, NEW D, NEW F, NEW f, Grows(n, D, F, f)
  PROVE  F[f[n]] = f[n]
<1>0. /\ n \in Nat /\ IsFiniteSet(D) /\ Cardinality(D) = n
      /\ \A S \in SUBSET D : F[S] \in SUBSET D /\ S \subseteq F[S]
      /\ \A i \in 0 .. n : f[i] \in SUBSET D
      /\ f[0] # {} /\ \A i \in 1 .. n : f[i] = F[f[i - 1]]
  BY DEF Grows
<1> DEFINE G == {i \in 0 .. n : F[f[i]] = f[i] \/ Cardinality(f[i]) >= i + 1}
<1>1. \A i \in 0 .. n : f[i] \in SUBSET D /\ IsFiniteSet(f[i]) /\ Cardinality(f[i]) \in Nat
  <2>1. \A i \in 0 .. n : f[i] \in SUBSET D
    BY <1>0
  <2> QED  BY <1>0, <2>1, FS_Subset, FS_CardinalityType
<1>2. 0 \in G
  <2>1. Cardinality(f[0]) # 0
    BY <1>0, <1>1, FS_EmptySet
  <2> QED  BY <1>0, <1>1, <2>1
<1>3. ASSUME NEW i \in 0 .. n - 1, i \in G PROVE i + 1 \in G
  <2>1. i + 1 \in 1 .. n /\ i + 1 \in 0 .. n /\ i \in 0 .. n
    BY <1>0
  <2>2. f[i + 1] = F[f[i]]
    BY <1>0, <2>1
  <2>3. CASE F[f[i]] = f[i]
    BY <2>1, <2>2, <2>3
  <2>4. CASE F[f[i]] # f[i]
    <3>1. Cardinality(f[i]) >= i + 1
      BY <1>3, <2>4
    <3>2. f[i] \in SUBSET f[i + 1] /\ f[i] # f[i + 1]
      BY <1>0, <1>1, <2>1, <2>2, <2>4
    <3>3. Cardinality(f[i]) < Cardinality(f[i + 1])
      <4>1. IsFiniteSet(f[i + 1]) /\ Cardinality(f[i + 1]) \in Nat /\ Cardinality(f[i]) \in Nat
        BY <1>1, <2>1
      <4>2. Cardinality(f[i]) <= Cardinality(f[i + 1])
            /\ (Cardinality(f[i]) = Cardinality(f[i + 1]) => f[i] = f[i + 1])
        BY <3>2, <4>1, FS_Subset
      <4> QED  BY <3>2, <4>1, <4>2
    <3> QED  BY <1>0, <1>1, <2>1, <3>1, <3>3
  <2> QED  BY <2>3, <2>4
<1>4. n \in G
  <2> HIDE DEF G
  <2>1. \A k \in 0 .. n - 1 : k \in G => k + 1 \in G
    BY <1>3
  <2>2. \A k \in 0 .. n : k \in G
    BY <1>0, <1>2, <2>1, UpTo, Zenon
  <2> QED  BY <1>0, <2>2
<1>5. Cardinality(f[n]) <= n
  BY <1>0, <1>1, FS_Subset
<1> QED  BY <1>0, <1>1, <1>4, <1>5

Links == Nodes \cup {NULL}
Item == [live : BOOLEAN, ref : BOOLEAN, next : Links, prev : Links, child : Links,
         key : {"none", "heap", "const"}, const : BOOLEAN]
Heap == [Nodes -> Item]

---------------------------------------------------------------------------
(* Lists. *)
In(x, s) == \E k \in 1 .. Len(s) : s[k] = x
Injective(s) == \A j, k \in 1 .. Len(s) : s[j] = s[k] => j = k
First(s) == IF s = <<>> THEN NULL ELSE s[1]
Chain(h, s) ==
  \A k \in 1 .. Len(s) : /\ h[s[k]].prev = s[IF k = 1 THEN Len(s) ELSE k - 1]
                         /\ h[s[k]].next = IF k = Len(s) THEN NULL ELSE s[k + 1]

\* The heap has room for finitely many items, and NULL is none of them.
LEMMA SizeIs == Size \in Nat /\ IsFiniteSet(Nodes) /\ NULL \notin Nodes
BY NodesAssumption, FS_CardinalityType DEF Size

\* A list without repetitions is not longer than the heap has items.
LEMMA ListShort ==
  ASSUME NEW s \in Seq(Nodes), Injective(s)
  PROVE  Len(s) \in Nat /\ Len(s) <= Size
<1>1. Len(s) \in Nat /\ s \in [1 .. Len(s) -> Nodes]
  OBVIOUS
<1>2. s \in Injection(1 .. Len(s), Nodes)
  BY <1>1 DEF Injection, IsInjective, Injective
<1>3. Cardinality(1 .. Len(s)) <= Size
  BY <1>2, NodesAssumption, FS_Injection DEF Size
<1>4. Cardinality(1 .. Len(s)) = Len(s)
  BY <1>1, FS_Interval
<1> QED  BY <1>1, <1>3, <1>4

\* ListFrom finds the whole of a list that is linked to its end.
LEMMA ListIs ==
  ASSUME NEW h \in Heap, NEW s \in Seq(Nodes), s # <<>>, Injective(s), Chain(h, s)
  PROVE  ListFrom(h, s[1]) = s
<1> DEFINE n == Len(s)
           Upto(i) == IF i < n THEN i + 1 ELSE n
           Part(i) == SubSeq(s, 1, Upto(i))
           More(t) == LET next == h[t[Len(t)]].next
                      IN IF next = NULL THEN t ELSE Append(t, next)
           Eqn(f) == f = [i \in 0 .. Size |->
                            IF i = 0 THEN <<s[1]>>
                            ELSE LET t == f[i - 1]
                                     next == h[t[Len(t)]].next
                                 IN IF next = NULL THEN t ELSE Append(t, next)]
           list == CHOOSE f : Eqn(f)
<1>1. n \in Nat \ {0} /\ n <= Size /\ Size \in Nat /\ s[1] \in Nodes /\ NULL \notin Nodes
  BY ListShort, SizeIs
<1>2. \A i \in 0 .. Size : /\ Upto(i) \in 1 .. n /\ Part(i) \in Seq(Nodes) /\ Len(Part(i)) = Upto(i)
                           /\ \A k \in 1 .. Upto(i) : Part(i)[k] = s[k]
  BY <1>1
<1>3. Part(0) = <<s[1]>> /\ Part(Size) = s
  <2>1. Upto(0) = 1
    BY <1>1
  <2>2. Upto(Size) = n
    <3>1. ~ (Size < n)
      BY <1>1
    <3> QED  BY <3>1
  <2>3. Part(0) = <<s[1]>>
    <3> DEFINE u == SubSeq(s, 1, 1)
    <3>1. u \in Seq(Nodes) /\ Len(u) = 1 /\ u[1] = s[1]
      BY <1>1
    <3>2. <<s[1]>> \in Seq(Nodes) /\ Len(<<s[1]>>) = 1 /\ <<s[1]>>[1] = s[1]
      BY <1>1
    <3>3. \A i \in 1 .. Len(u) : u[i] = <<s[1]>>[i]
      BY <3>1, <3>2
    <3> HIDE DEF u
    <3>4. u = <<s[1]>>
      BY <3>1, <3>2, <3>3, SeqEqual
    <3> QED  BY <2>1, <3>4 DEF u
  <2> QED  BY <1>1, <2>2, <2>3
<1>4. ASSUME NEW i \in 1 .. Size PROVE Part(i) = More(Part(i - 1))
  <2>1. i - 1 \in 0 .. Size /\ i \in 0 .. Size
    BY <1>1
  <2> DEFINE t == Part(i - 1)
             l == Upto(i - 1)
             next == h[t[Len(t)]].next
  <2>2. l \in 1 .. n /\ Len(t) = l /\ t[l] = s[l] /\ t \in Seq(Nodes)
    BY <1>2, <2>1
  <2>3. next = IF l = n THEN NULL ELSE s[l + 1]
    BY <1>1, <2>2 DEF Chain
  <2>4. CASE l = n
    <3>1. Upto(i) = n
      BY <1>1, <2>1, <2>4
    <3> QED  BY <2>3, <2>4, <3>1
  <2>5. CASE l < n
    <3>1. l = i /\ Upto(i) = i + 1
      BY <1>1, <2>1, <2>5
    <3>2. next = s[i + 1] /\ s[i + 1] \in Nodes /\ next # NULL
      BY <1>1, <2>2, <2>3, <2>5, <3>1
    <3>3. Part(i) = Append(t, s[i + 1])
      BY <1>1, <2>2, <2>5, <3>1
    <3> QED  BY <3>2, <3>3
  <2> QED  BY <1>1, <2>2, <2>4, <2>5
<1> HIDE DEF Part, Upto
<1>5. Eqn([i \in 0 .. Size |-> Part(i)])
  BY <1>1, <1>3, <1>4
<1>6. Eqn(list)
  BY <1>5
<1> HIDE DEF list
<1>7. list[0] = <<s[1]>> /\ \A i \in 1 .. Size : list[i] = More(list[i - 1])
  <2>1. 0 \in 0 .. Size /\ \A i \in 1 .. Size : i \in 0 .. Size /\ i # 0
    BY <1>1
  <2>2. \A i \in 0 .. Size : list[i] = IF i = 0 THEN <<s[1]>> ELSE More(list[i - 1])
    BY <1>6, Zenon
  <2> QED  BY <2>1, <2>2, Zenon
<1>8. \A i \in 0 .. Size : list[i] = Part(i)
  <2> DEFINE G == {i \in 0 .. Size : list[i] = Part(i)}
  <2>1. 0 \in G
    BY <1>1, <1>3, <1>7
  <2>2. ASSUME NEW i \in 0 .. Size - 1, i \in G PROVE i + 1 \in G
    <3>1. i + 1 \in 1 .. Size /\ i + 1 \in 0 .. Size /\ (i + 1) - 1 = i
      BY <1>1
    <3>2. list[i + 1] = More(list[i]) /\ Part(i + 1) = More(Part(i))
      BY <1>4, <1>7, <3>1
    <3> QED  BY <2>2, <3>1, <3>2
  <2> HIDE DEF G
  <2>3. \A i \in 0 .. Size : i \in G
    BY <1>1, <2>1, <2>2, UpTo
  <2> QED  BY <2>3 DEF G
<1>9. ListFrom(h, s[1]) = list[Size]
  BY <1>1 DEF ListFrom, list
<1> QED  BY <1>1, <1>3, <1>8, <1>9

---------------------------------------------------------------------------
(* What is reached. *)
Follow(h, S) == (S \cup {h[m].next : m \in S} \cup {h[m].child : m \in {x \in S : ~h[x].ref}}) \ {NULL}
Followed(h, T) == \A m \in T : /\ h[m].next \in T \cup {NULL}
                               /\ ~h[m].ref => h[m].child \in T \cup {NULL}

\* What follows items of the heap are items of the heap.
LEMMA FollowIs ==
  ASSUME NEW h \in Heap, NEW S \in SUBSET Nodes
  PROVE  Follow(h, S) \in SUBSET Nodes /\ S \subseteq Follow(h, S)
<1>1. \A m \in Nodes : h[m].next \in Nodes \cup {NULL} /\ h[m].child \in Nodes \cup {NULL}
  BY DEF Heap, Item, Links
<1> QED  BY <1>1, SizeIs DEF Follow

\* Reached is the least set that has the item and is closed under next and child.
LEMMA ReachedIs ==
  ASSUME NEW h \in Heap, NEW n \in Nodes
  PROVE  /\ n \in Reached(h, n) /\ Reached(h, n) \subseteq Nodes /\ Followed(h, Reached(h, n))
         /\ \A T \in SUBSET Nodes : n \in T /\ Followed(h, T) => Reached(h, n) \subseteq T
<1> DEFINE Eqn(f) == f = [i \in 0 .. Size |->
                            IF i = 0 THEN {n}
                            ELSE LET S == f[i - 1]
                                 IN (S \cup {h[m].next : m \in S}
                                       \cup {h[m].child : m \in {x \in S : ~h[x].ref}}) \ {NULL}]
           reach == CHOOSE f : Eqn(f)
           F == [S \in SUBSET Nodes |-> Follow(h, S)]
<1>1. Size \in Nat
  BY SizeIs
<1>2. F \in [SUBSET Nodes -> SUBSET Nodes] /\ \A S \in SUBSET Nodes : S \subseteq F[S] /\ F[S] = Follow(h, S)
  BY FollowIs
<1> HIDE DEF F
<1>3. PICK f \in [0 .. Size -> SUBSET Nodes] : f[0] = {n} /\ \A i \in 1 .. Size : f[i] = F[f[i - 1]]
  <2>1. {n} \in SUBSET Nodes /\ IsStep(F, SUBSET Nodes)
    BY <1>2 DEF IsStep
  <2>2. \E f : IsIteration(f, Size, SUBSET Nodes, {n}, F)
    BY <1>1, <2>1, Iterates
  <2> QED  BY <2>2 DEF IsIteration
<1>4. \A i \in 1 .. Size : f[i] = Follow(h, f[i - 1])
  BY <1>1, <1>2, <1>3
<1>5. Eqn(f)
  BY <1>3, <1>4 DEF Follow
<1>6. Eqn(reach)
  BY <1>5
<1> HIDE DEF reach
<1>7. Reached(h, n) = reach[Size]
  BY DEF Reached, reach
<1>8. reach[0] = {n} /\ \A i \in 1 .. Size : reach[i] = Follow(h, reach[i - 1])
  <2>1. \A i \in 0 .. Size : reach[i] = IF i = 0 THEN {n} ELSE Follow(h, reach[i - 1])
    BY <1>6, Zenon DEF Follow
  <2>2. 0 \in 0 .. Size /\ \A i \in 1 .. Size : i \in 0 .. Size /\ i # 0
    BY <1>1
  <2> QED  BY <2>1, <2>2, Zenon
<1>9. \A i \in 0 .. Size : reach[i] = f[i]
  <2> DEFINE G == {i \in 0 .. Size : reach[i] = f[i]}
  <2>1. 0 \in G
    <3>1. 0 \in 0 .. Size /\ reach[0] = f[0]
      BY <1>1, <1>3, <1>8
    <3> QED  BY <3>1
  <2>2. ASSUME NEW i \in 0 .. Size - 1, i \in G PROVE i + 1 \in G
    <3>1. i + 1 \in 1 .. Size /\ i + 1 \in 0 .. Size /\ (i + 1) - 1 = i
      BY <1>1
    <3>2. reach[i + 1] = Follow(h, reach[i]) /\ f[i + 1] = Follow(h, f[i])
      BY <1>4, <1>8, <3>1
    <3> QED  BY <2>2, <3>1, <3>2
  <2> HIDE DEF G
  <2>3. \A i \in 0 .. Size : i \in G
    BY <1>1, <2>1, <2>2, UpTo
  <2> QED  BY <2>3 DEF G
<1>10. Reached(h, n) = f[Size]
  BY <1>1, <1>7, <1>9
<1>11. F[f[Size]] = f[Size]
  <2>1. f[0] # {} /\ Size \in Nat /\ IsFiniteSet(Nodes) /\ Cardinality(Nodes) = Size
    BY <1>3, SizeIs DEF Size
  <2>2. \A S \in SUBSET Nodes : F[S] \in SUBSET Nodes /\ S \subseteq F[S]
    BY <1>2
  <2>3. (\A i \in 0 .. Size : f[i] \in SUBSET Nodes) /\ \A i \in 1 .. Size : f[i] = F[f[i - 1]]
    BY <1>3
  <2>4. Grows(Size, Nodes, F, f)
    BY <2>1, <2>2, <2>3 DEF Grows
  <2> QED  BY <1>1, <2>4, StopsGrowing
<1>12. \A i \in 0 .. Size : n \in f[i]
  <2> DEFINE G == {i \in 0 .. Size : n \in f[i]}
  <2>1. 0 \in G
    BY <1>1, <1>3
  <2>2. ASSUME NEW i \in 0 .. Size - 1, i \in G PROVE i + 1 \in G
    <3>1. i + 1 \in 1 .. Size /\ i + 1 \in 0 .. Size /\ (i + 1) - 1 = i /\ i \in 0 .. Size
      BY <1>1
    <3>2. f[i] \subseteq f[i + 1]
      BY <1>2, <1>3, <3>1
    <3> QED  BY <2>2, <3>1, <3>2
  <2> HIDE DEF G
  <2>3. \A i \in 0 .. Size : i \in G
    BY <1>1, <2>1, <2>2, UpTo
  <2> QED  BY <2>3 DEF G
<1>13. ASSUME NEW T \in SUBSET Nodes, n \in T, Followed(h, T) PROVE \A i \in 0 .. Size : f[i] \subseteq T
  <2> DEFINE G == {i \in 0 .. Size : f[i] \subseteq T}
  <2>1. 0 \in G
    BY <1>1, <1>3, <1>13
  <2>2. ASSUME NEW i \in 0 .. Size - 1, i \in G PROVE i + 1 \in G
    <3>1. i + 1 \in 1 .. Size /\ i + 1 \in 0 .. Size /\ (i + 1) - 1 = i /\ i \in 0 .. Size
      BY <1>1
    <3>2. f[i + 1] = Follow(h, f[i])
      BY <1>4, <3>1
    <3>3. Follow(h, f[i]) \subseteq T
      BY <1>13, <2>2 DEF Follow, Followed
    <3> QED  BY <3>1, <3>2, <3>3
  <2> HIDE DEF G
  <2>3. \A i \in 0 .. Size : i \in G
    BY <1>1, <2>1, <2>2, UpTo
  <2> QED  BY <2>3 DEF G
<1>14. Followed(h, f[Size])
  <2>1. f[Size] \in SUBSET Nodes /\ Follow(h, f[Size]) = f[Size]
    BY <1>1, <1>2, <1>3, <1>11
  <2> QED  BY <2>1 DEF Follow, Followed
<1> QED  BY <1>1, <1>3, <1>10, <1>12, <1>13, <1>14

---------------------------------------------------------------------------
(* The trees that lists K make: what is in the list of what. *)
Owned(K, x) == \E m \in Nodes : In(x, K[m])
Closed(K, T) == \A m \in T : \A y \in Nodes : In(y, K[m]) => y \in T
Below(K, n) == {x \in Nodes : \A T \in SUBSET Nodes : n \in T /\ Closed(K, T) => x \in T}
Acyclic(K) ==
  \A X \in SUBSET Nodes : X # {} => \E x \in X : \A m \in X : ~In(x, K[m])

\* Below is the least set that has the item and, with an item, all that is in its list.
LEMMA BelowIs ==
  ASSUME NEW K, NEW n \in Nodes
  PROVE  /\ n \in Below(K, n) /\ Below(K, n) \in SUBSET Nodes /\ Closed(K, Below(K, n))
         /\ \A T \in SUBSET Nodes : n \in T /\ Closed(K, T) => Below(K, n) \subseteq T
BY DEF Below, Closed

\* All but the root are in the list of another.
LEMMA BelowOwned ==
  ASSUME NEW K, NEW n \in Nodes, NEW x \in Below(K, n), x # n
  PROVE  \E m \in Below(K, n) : In(x, K[m])
<1> SUFFICES ASSUME \A m \in Below(K, n) : ~In(x, K[m]) PROVE FALSE
  OBVIOUS
<1> DEFINE T == Below(K, n) \ {x}
<1>1. n \in T /\ T \in SUBSET Nodes
  BY BelowIs
<1>2. Closed(K, T)
  BY BelowIs DEF Closed
<1> HIDE DEF T
<1>3. Below(K, n) \subseteq T
  BY <1>1, <1>2, BelowIs
<1> QED  BY <1>3 DEF T

\* Nothing is below itself.
LEMMA NotBelowItself ==
  ASSUME NEW K, Acyclic(K), NEW n \in Nodes, NEW i \in Nodes, In(i, K[n])
  PROVE  n \notin Below(K, i)
<1> SUFFICES ASSUME n \in Below(K, i) PROVE FALSE
  OBVIOUS
<1>1. \A x \in Below(K, i) : \E m \in Below(K, i) : In(x, K[m])
  BY BelowOwned
<1>2. Below(K, i) \in SUBSET Nodes /\ Below(K, i) # {}
  BY BelowIs
<1> QED  BY <1>1, <1>2, Zenon DEF Acyclic

\* A change of one row that is not in the tree leaves the tree.
LEMMA BelowSame ==
  ASSUME NEW K, NEW i \in Nodes, NEW n \in Nodes, n \notin Below(K, i),
         NEW L, \A m \in Nodes : m # n => L[m] = K[m]
  PROVE  Below(L, i) = Below(K, i)
<1>1. Closed(L, Below(K, i))
  BY BelowIs DEF Closed
<1>2. Below(L, i) \subseteq Below(K, i)
  BY <1>1, BelowIs
<1>3. Closed(K, Below(L, i))
  BY <1>2, BelowIs DEF Closed
<1>4. Below(K, i) \subseteq Below(L, i)
  BY <1>3, BelowIs
<1> QED  BY <1>2, <1>4

\* With what goes into a row not above it, the lists stay trees.
LEMMA RowAcyclic ==
  ASSUME NEW K \in [Nodes -> Seq(Nodes)], Acyclic(K), NEW n \in Nodes, NEW t \in Seq(Nodes),
         \A k \in 1 .. Len(t) : In(t[k], K[n]) \/ n \notin Below(K, t[k]),
         NEW L, L = [K EXCEPT ![n] = t]
  PROVE  Acyclic(L)
<1> SUFFICES ASSUME NEW X \in SUBSET Nodes, X # {}, \A x \in X : \E m \in X : In(x, L[m])
             PROVE  FALSE
  BY DEF Acyclic
<1> DEFINE New == {z \in Nodes : In(z, t) /\ ~In(z, K[n])}
           Y == {x \in X : \A z \in New : x \notin Below(K, z)}
<1>1. ASSUME NEW z \in New PROVE n \notin Below(K, z)
  <2>1. PICK k \in 1 .. Len(t) : t[k] = z
    BY DEF In
  <2> QED  BY <2>1
<1>2. L[n] = t /\ \A m \in Nodes : m # n => L[m] = K[m]
  OBVIOUS
<1>3. CASE n \notin X
  <2>1. \A x \in X : \E m \in X : In(x, K[m])
    BY <1>2, <1>3
  <2> QED  BY <2>1 DEF Acyclic
<1>4. CASE n \in X
  <2>1. Y \in SUBSET Nodes /\ n \in Y
    BY <1>1, <1>4
  <2>2. ASSUME NEW y \in Y PROVE \E m \in Y : In(y, K[m])
    <3>1. PICK m \in X : In(y, L[m])
      OBVIOUS
    <3>2. y \notin New
      BY BelowIs
    <3>3. In(y, K[m])
      BY <1>2, <3>1, <3>2
    <3>4. m \in Y
      <4> SUFFICES ASSUME NEW z \in New, m \in Below(K, z) PROVE FALSE
        BY <3>1
      <4>1. y \in Below(K, z)
        BY <3>3, BelowIs DEF Closed
      <4> QED  BY <4>1
    <3> QED  BY <3>3, <3>4
  <2> HIDE DEF Y
  <2> QED  BY <2>1, <2>2 DEF Acyclic
<1> QED  BY <1>3, <1>4

---------------------------------------------------------------------------
(* The shape of the heap. *)
Holds(h, n) == h[n].live /\ ~h[n].ref
Rows(h, K) == \A n \in Nodes : IF Holds(h, n) THEN h[n].child = First(K[n]) /\ Chain(h, K[n])
                               ELSE K[n] = <<>>
Once(K) ==
  \A m, n \in Nodes : \A j \in 1 .. Len(K[m]), k \in 1 .. Len(K[n]) :
    K[m][j] = K[n][k] => m = n /\ j = k
Listed(h, H, K) == \A n \in Nodes : \A k \in 1 .. Len(K[n]) : h[K[n][k]].live /\ K[n][k] \notin H
Loose(h, H, K) ==
  /\ \A n \in H : h[n].live
  /\ \A n \in Nodes : h[n].live /\ ~Owned(K, n) =>
       h[n].next = NULL /\ h[n].prev = NULL /\ (n \in H \/ (h[n].ref /\ h[n].key = "none"))
Target(h, x) == x = NULL \/ (x \in Nodes /\ h[x].live)
Pointing(h) ==
  \A n \in Nodes : h[n].live => Target(h, h[n].next) /\ Target(h, h[n].prev) /\ Target(h, h[n].child)
Shape(h, H, K) ==
  /\ h \in Heap /\ H \in SUBSET Nodes /\ K \in [Nodes -> Seq(Nodes)]
  /\ Rows(h, K) /\ Once(K) /\ Listed(h, H, K) /\ Loose(h, H, K) /\ Pointing(h)

\* A row of lists without repetitions has none.
LEMMA RowInjective ==
  ASSUME NEW K, Once(K), NEW n \in Nodes
  PROVE  Injective(K[n])
BY DEF Once, Injective

\* An item is in one row.
LEMMA OneRow ==
  ASSUME NEW K, Once(K), NEW m \in Nodes, NEW n \in Nodes, NEW x, In(x, K[m]), In(x, K[n])
  PROVE  m = n
BY DEF Once, In

\* What is in a list is an item, at a place of the list.
LEMMA InNodes ==
  ASSUME NEW s \in Seq(Nodes), NEW x, In(x, s)
  PROVE  x \in Nodes /\ s # <<>> /\ s[1] \in Nodes /\ In(s[1], s)
<1>1. PICK k \in 1 .. Len(s) : s[k] = x
  BY DEF In
<1>2. Len(s) \in Nat /\ 1 \in 1 .. Len(s)
  BY <1>1
<1> QED  BY <1>1, <1>2 DEF In

\* The neighbours in a chain are in it.
LEMMA Neighbours ==
  ASSUME NEW h, NEW s \in Seq(Nodes), Chain(h, s), NEW x, In(x, s)
  PROVE  /\ h[x].next = NULL \/ In(h[x].next, s)
         /\ In(h[x].prev, s)
<1>1. PICK k \in 1 .. Len(s) : s[k] = x
  BY DEF In
<1>2. /\ h[x].prev = s[IF k = 1 THEN Len(s) ELSE k - 1]
      /\ h[x].next = IF k = Len(s) THEN NULL ELSE s[k + 1]
  BY <1>1 DEF Chain
<1>3. Len(s) \in Nat /\ Len(s) \in 1 .. Len(s)
  BY <1>1
<1>4. (k = 1 \/ k - 1 \in 1 .. Len(s)) /\ (k = Len(s) \/ k + 1 \in 1 .. Len(s))
  BY <1>1, <1>3
<1> QED  BY <1>2, <1>3, <1>4 DEF In

---------------------------------------------------------------------------
(* A list is linked anew: what is in it was in it before or is taken from  *)
(* the caller's hand, and the caller gets what is in it no longer.         *)
Rewired(g, h, n, s, t) ==
  /\ g \in Heap /\ g[n].child = First(t) /\ Chain(g, t)
  /\ \A m \in Nodes : /\ g[m].live = h[m].live /\ g[m].ref = h[m].ref
                      /\ g[m].key = h[m].key /\ g[m].const = h[m].const
                      /\ m # n => g[m].child = h[m].child
  /\ \A m \in Nodes : ~In(m, t) => IF In(m, s) THEN g[m].next = NULL /\ g[m].prev = NULL
                                   ELSE g[m].next = h[m].next /\ g[m].prev = h[m].prev

\* A heap in which one list is linked anew has the lists of before but for this one.
LEMMA Rewire ==
  ASSUME NEW h, NEW H, NEW K, Shape(h, H, K), NEW n \in Nodes, Holds(h, n),
         NEW t \in Seq(Nodes), Injective(t), \A k \in 1 .. Len(t) : In(t[k], K[n]) \/ t[k] \in H,
         NEW g, Rewired(g, h, n, K[n], t),
         NEW G, G = {m \in H : ~In(m, t)} \cup {m \in Nodes : In(m, K[n]) /\ ~In(m, t)},
         NEW L, L = [K EXCEPT ![n] = t]
  PROVE  Shape(g, G, L)
<1>1. /\ h \in Heap /\ H \in SUBSET Nodes /\ K \in [Nodes -> Seq(Nodes)]
      /\ Rows(h, K) /\ Once(K) /\ Listed(h, H, K) /\ Loose(h, H, K) /\ Pointing(h)
  BY DEF Shape
<1>2. g \in Heap /\ G \in SUBSET Nodes /\ L \in [Nodes -> Seq(Nodes)]
  BY <1>1 DEF Rewired
<1>3. L[n] = t /\ \A m \in Nodes : m # n => L[m] = K[m]
  BY <1>1
<1>4. \A m \in Nodes : Holds(g, m) <=> Holds(h, m)
  BY DEF Holds, Rewired
<1>5. \A x : In(x, t) => x \in Nodes /\ h[x].live /\ (In(x, K[n]) \/ x \in H)
  <2> SUFFICES ASSUME NEW x, In(x, t) PROVE x \in Nodes /\ h[x].live /\ (In(x, K[n]) \/ x \in H)
    OBVIOUS
  <2>1. In(x, K[n]) \/ x \in H
    BY DEF In
  <2>2. x \in H => h[x].live
    BY <1>1 DEF Loose
  <2>3. In(x, K[n]) => h[x].live
    BY <1>1 DEF Listed, In
  <2> QED  BY <2>1, <2>2, <2>3, InNodes
<1>6. ASSUME NEW m \in Nodes, m # n, NEW x, In(x, K[m]) PROVE x \in Nodes /\ ~In(x, K[n]) /\ x \notin H /\ ~In(x, t)
  <2>1. ~In(x, K[n])
    BY <1>1, <1>6, OneRow
  <2>2. x \notin H
    BY <1>1, <1>6 DEF Listed, In
  <2>3. x \in Nodes
    BY <1>1, <1>6, InNodes
  <2> QED  BY <1>5, <2>1, <2>2, <2>3
<1>7. Rows(g, L)
  <2> SUFFICES ASSUME NEW m \in Nodes
               PROVE  IF Holds(g, m) THEN g[m].child = First(L[m]) /\ Chain(g, L[m]) ELSE L[m] = <<>>
    BY DEF Rows
  <2>1. CASE m = n
    BY <1>3, <1>4, <2>1 DEF Rewired
  <2>2. CASE m # n
    <3>1. IF Holds(h, m) THEN h[m].child = First(K[m]) /\ Chain(h, K[m]) ELSE K[m] = <<>>
      BY <1>1 DEF Rows
    <3>2. g[m].child = h[m].child
      BY <2>2 DEF Rewired
    <3>3. \A k \in 1 .. Len(K[m]) : g[K[m][k]].next = h[K[m][k]].next /\ g[K[m][k]].prev = h[K[m][k]].prev
      <4> SUFFICES ASSUME NEW k \in 1 .. Len(K[m])
                   PROVE  g[K[m][k]].next = h[K[m][k]].next /\ g[K[m][k]].prev = h[K[m][k]].prev
        OBVIOUS
      <4>1. In(K[m][k], K[m])
        BY DEF In
      <4>2. K[m][k] \in Nodes /\ ~In(K[m][k], K[n]) /\ ~In(K[m][k], t)
        BY <1>6, <2>2, <4>1
      <4> QED  BY <4>2 DEF Rewired
    <3>4. Chain(h, K[m]) => Chain(g, K[m])
      BY <3>3 DEF Chain
    <3> QED  BY <1>3, <1>4, <2>2, <3>1, <3>2, <3>4
  <2> QED  BY <2>1, <2>2
<1>8. Once(L)
  <2> SUFFICES ASSUME NEW m \in Nodes, NEW o \in Nodes, NEW j \in 1 .. Len(L[m]), NEW k \in 1 .. Len(L[o]),
                      L[m][j] = L[o][k]
               PROVE  m = o /\ j = k
    BY DEF Once
  <2>1. CASE m = n /\ o = n
    BY <1>3, <2>1 DEF Injective
  <2>2. CASE m # n /\ o # n
    BY <1>1, <1>3, <2>2 DEF Once
  <2>3. CASE m = n /\ o # n
    <3>1. In(L[m][j], t) /\ In(L[o][k], K[o])
      BY <1>3, <2>3 DEF In
    <3> QED  BY <1>6, <2>3, <3>1
  <2>4. CASE m # n /\ o = n
    <3>1. In(L[o][k], t) /\ In(L[m][j], K[m])
      BY <1>3, <2>4 DEF In
    <3> QED  BY <1>6, <2>4, <3>1
  <2> QED  BY <2>1, <2>2, <2>3, <2>4
<1>9. Listed(g, G, L)
  <2> SUFFICES ASSUME NEW m \in Nodes, NEW k \in 1 .. Len(L[m]) PROVE g[L[m][k]].live /\ L[m][k] \notin G
    BY DEF Listed
  <2> DEFINE x == L[m][k]
  <2>1. CASE m = n
    <3>1. In(x, t)
      BY <1>3, <2>1 DEF In
    <3>2. x \in Nodes /\ h[x].live
      BY <1>5, <3>1
    <3> QED  BY <3>1, <3>2 DEF Rewired
  <2>2. CASE m # n
    <3>1. In(x, K[m]) /\ h[x].live
      BY <1>1, <1>3, <2>2 DEF In, Listed
    <3>2. x \in Nodes /\ ~In(x, K[n]) /\ x \notin H
      BY <1>6, <2>2, <3>1
    <3> QED  BY <3>1, <3>2 DEF Rewired
  <2> QED  BY <2>1, <2>2
<1>10. Loose(g, G, L)
  <2>1. \A m \in G : g[m].live
    <3> SUFFICES ASSUME NEW m \in G PROVE g[m].live
      OBVIOUS
    <3>1. m \in Nodes /\ h[m].live
      BY <1>1 DEF Loose, Listed, In
    <3> QED  BY <3>1 DEF Rewired
  <2>2. ASSUME NEW m \in Nodes, g[m].live, ~Owned(L, m)
        PROVE  g[m].next = NULL /\ g[m].prev = NULL /\ (m \in G \/ (g[m].ref /\ g[m].key = "none"))
    <3>1. ~In(m, t) /\ \A o \in Nodes : o # n => ~In(m, K[o])
      BY <1>3, <2>2 DEF Owned
    <3>2. h[m].live /\ g[m].ref = h[m].ref /\ g[m].key = h[m].key
      BY <2>2 DEF Rewired
    <3>3. CASE In(m, K[n])
      BY <3>1, <3>3 DEF Rewired
    <3>4. CASE ~In(m, K[n])
      <4>1. ~Owned(K, m)
        BY <3>1, <3>4 DEF Owned
      <4>2. h[m].next = NULL /\ h[m].prev = NULL /\ (m \in H \/ (h[m].ref /\ h[m].key = "none"))
        BY <1>1, <3>2, <4>1 DEF Loose
      <4>3. g[m].next = h[m].next /\ g[m].prev = h[m].prev
        BY <3>1, <3>4 DEF Rewired
      <4> QED  BY <3>1, <3>2, <4>2, <4>3
    <3> QED  BY <3>3, <3>4
  <2> QED  BY <2>1, <2>2 DEF Loose
<1>11. Pointing(g)
  <2>1. \A x : Target(h, x) => Target(g, x)
    BY DEF Target, Rewired
  <2>2. \A x : In(x, t) => Target(h, x)
    BY <1>5 DEF Target
  <2> SUFFICES ASSUME NEW m \in Nodes, g[m].live
               PROVE  Target(h, g[m].next) /\ Target(h, g[m].prev) /\ Target(h, g[m].child)
    BY <2>1 DEF Pointing
  <2>3. h[m].live /\ Target(h, h[m].next) /\ Target(h, h[m].prev) /\ Target(h, h[m].child)
    BY <1>1 DEF Pointing, Rewired
  <2>4. Target(h, g[m].child)
    <3>1. CASE m = n
      <4>1. t = <<>> \/ In(t[1], t)
        BY DEF In
      <4> QED  BY <2>2, <3>1, <4>1 DEF Rewired, First, Target
    <3>2. CASE m # n
      BY <2>3, <3>2 DEF Rewired
    <3> QED  BY <3>1, <3>2
  <2>5. CASE In(m, t)
    <3>1. /\ g[m].next = NULL \/ In(g[m].next, t)
          /\ In(g[m].prev, t)
      BY <2>5, Neighbours DEF Rewired
    <3> QED  BY <2>2, <2>4, <3>1 DEF Target
  <2>6. CASE ~In(m, t)
    BY <2>3, <2>4, <2>6 DEF Rewired, Target
  <2> QED  BY <2>5, <2>6
<1> QED  BY <1>2, <1>7, <1>8, <1>9, <1>10, <1>11 DEF Shape

Lists(h) == [n \in Nodes |-> IF h[n].live /\ ~h[n].ref THEN Kids(h, n) ELSE <<>>]

\* The pointers lead to the lists and to nothing else.
LEMMA ListsAre ==
  ASSUME NEW h, NEW H, NEW K, Shape(h, H, K)
  PROVE  /\ \A n \in Nodes : Holds(h, n) => Kids(h, n) = K[n]
         /\ Lists(h) = K
<1>1. h \in Heap /\ K \in [Nodes -> Seq(Nodes)] /\ Rows(h, K) /\ Once(K)
  BY DEF Shape
<1>2. ASSUME NEW n \in Nodes, Holds(h, n) PROVE Kids(h, n) = K[n]
  <2>1. h[n].child = First(K[n]) /\ Chain(h, K[n]) /\ Injective(K[n]) /\ K[n] \in Seq(Nodes)
    BY <1>1, <1>2, RowInjective DEF Rows
  <2>2. CASE K[n] = <<>>
    BY <2>1, <2>2 DEF Kids, ListFrom, First
  <2>3. CASE K[n] # <<>>
    BY <1>1, <2>1, <2>3, ListIs DEF Kids, First
  <2> QED  BY <2>2, <2>3
<1>3. \A n \in Nodes : (IF Holds(h, n) THEN Kids(h, n) ELSE <<>>) = K[n]
  BY <1>1, <1>2 DEF Rows
<1>4. Lists(h) = [n \in Nodes |-> K[n]]
  BY <1>3 DEF Lists, Holds
<1> QED  BY <1>1, <1>2, <1>4

\* A new item x: linked to nothing, and with nothing in it if it is no reference.
Fresh(h, x) == /\ x \in Item /\ x.live /\ x.next = NULL /\ x.prev = NULL
               /\ Target(h, x.child) /\ (x.ref \/ x.child = NULL)
IsMade(g, h, new, x) == g = [h EXCEPT ![new] = x]

\* An item that was not live comes into the caller's hand, or is a reference that is lost.
LEMMA NewItem ==
  ASSUME NEW h, NEW H, NEW K, Shape(h, H, K), NEW new \in Nodes, ~h[new].live, NEW x, Fresh(h, x),
         NEW g, IsMade(g, h, new, x)
  PROVE  /\ Shape(g, H \cup {new}, K) /\ (x.ref /\ x.key = "none" => Shape(g, H, K))
         /\ K[new] = <<>> /\ ~Owned(K, new) /\ new \notin H
<1>0. /\ x \in Item /\ x.live /\ x.next = NULL /\ x.prev = NULL /\ Target(h, x.child)
      /\ (x.ref \/ x.child = NULL) /\ g = [h EXCEPT ![new] = x]
  BY DEF Fresh, IsMade
<1>1. /\ h \in Heap /\ H \in SUBSET Nodes /\ K \in [Nodes -> Seq(Nodes)]
      /\ Rows(h, K) /\ Once(K) /\ Listed(h, H, K) /\ Loose(h, H, K) /\ Pointing(h)
  BY DEF Shape
<1>2. g \in Heap /\ g[new] = x /\ \A m \in Nodes : m # new => g[m] = h[m]
  BY <1>0, <1>1 DEF Heap
<1>3. K[new] = <<>> /\ ~Owned(K, new) /\ new \notin H
  <2>1. K[new] = <<>>
    BY <1>1 DEF Rows, Holds
  <2>2. ~Owned(K, new)
    BY <1>1 DEF Listed, Owned, In
  <2> QED  BY <1>1, <2>1, <2>2 DEF Loose
<1>4. \A m \in Nodes : \A y : In(y, K[m]) => y \in Nodes /\ y # new
  BY <1>1, <1>3, InNodes DEF Owned
<1>5. Rows(g, K)
  <2> SUFFICES ASSUME NEW m \in Nodes
               PROVE  IF Holds(g, m) THEN g[m].child = First(K[m]) /\ Chain(g, K[m]) ELSE K[m] = <<>>
    BY DEF Rows
  <2>1. CASE m = new
    <3>1. First(K[m]) = NULL /\ Len(K[m]) = 0
      BY <1>3, <2>1 DEF First
    <3>2. Chain(g, K[m])
      BY <3>1 DEF Chain
    <3>3. Holds(g, m) => g[m].child = NULL
      BY <1>0, <1>2, <2>1 DEF Holds
    <3> QED  BY <1>3, <2>1, <3>1, <3>2, <3>3
  <2>2. CASE m # new
    <3>1. IF Holds(h, m) THEN h[m].child = First(K[m]) /\ Chain(h, K[m]) ELSE K[m] = <<>>
      BY <1>1 DEF Rows
    <3>2. \A k \in 1 .. Len(K[m]) : g[K[m][k]] = h[K[m][k]]
      BY <1>2, <1>4 DEF In
    <3>3. Chain(h, K[m]) => Chain(g, K[m])
      BY <3>2 DEF Chain
    <3> QED  BY <1>2, <2>2, <3>1, <3>3 DEF Holds
  <2> QED  BY <2>1, <2>2
<1>6. Pointing(g)
  <2>1. \A y : Target(h, y) => Target(g, y)
    BY <1>2 DEF Target
  <2>2. Target(h, NULL)
    BY DEF Target
  <2> QED  BY <1>0, <1>1, <1>2, <2>1, <2>2 DEF Pointing
<1>7. ASSUME NEW G, G = H \cup {new} \/ (G = H /\ x.ref /\ x.key = "none") PROVE Shape(g, G, K)
  <2>1. Listed(g, G, K)
    <3> SUFFICES ASSUME NEW m \in Nodes, NEW k \in 1 .. Len(K[m]) PROVE g[K[m][k]].live /\ K[m][k] \notin G
      BY DEF Listed
    <3>1. K[m][k] \in Nodes /\ K[m][k] # new
      BY <1>4 DEF In
    <3>2. h[K[m][k]].live /\ K[m][k] \notin H
      BY <1>1 DEF Listed
    <3> QED  BY <1>2, <1>7, <3>1, <3>2
  <2>2. Loose(g, G, K)
    <3>1. \A m \in G : g[m].live
      BY <1>0, <1>1, <1>2, <1>7 DEF Loose
    <3>2. ASSUME NEW m \in Nodes, g[m].live, ~Owned(K, m)
          PROVE  g[m].next = NULL /\ g[m].prev = NULL /\ (m \in G \/ (g[m].ref /\ g[m].key = "none"))
      BY <1>0, <1>1, <1>2, <1>7, <3>2 DEF Loose
    <3> QED  BY <3>1, <3>2 DEF Loose
  <2>3. G \in SUBSET Nodes
    BY <1>1, <1>7
  <2> QED  BY <1>1, <1>2, <1>5, <1>6, <2>1, <2>2, <2>3 DEF Shape
<1>8. Shape(g, H \cup {new}, K) /\ (x.ref /\ x.key = "none" => Shape(g, H, K))
  BY <1>7
<1> QED  BY <1>3, <1>8

\* A key given to or taken from an item in hand changes no list.
LEMMA NewKey ==
  ASSUME NEW h, NEW H, NEW K, Shape(h, H, K), NEW i \in H, NEW g \in Heap,
         \A m \in Nodes : /\ g[m].live = h[m].live /\ g[m].ref = h[m].ref /\ g[m].next = h[m].next
                          /\ g[m].prev = h[m].prev /\ g[m].child = h[m].child
                          /\ m # i => g[m].key = h[m].key
  PROVE  Shape(g, H, K)
<1>1. /\ h \in Heap /\ H \in SUBSET Nodes /\ K \in [Nodes -> Seq(Nodes)]
      /\ Rows(h, K) /\ Once(K) /\ Listed(h, H, K) /\ Loose(h, H, K) /\ Pointing(h)
  BY DEF Shape
<1>2. \A m \in Nodes : \A k \in 1 .. Len(K[m]) : K[m][k] \in Nodes
  BY <1>1
<1>3. Rows(g, K)
  <2> SUFFICES ASSUME NEW m \in Nodes
               PROVE  IF Holds(g, m) THEN g[m].child = First(K[m]) /\ Chain(g, K[m]) ELSE K[m] = <<>>
    BY DEF Rows
  <2>1. IF Holds(h, m) THEN h[m].child = First(K[m]) /\ Chain(h, K[m]) ELSE K[m] = <<>>
    BY <1>1 DEF Rows
  <2>2. Chain(h, K[m]) => Chain(g, K[m])
    BY <1>2 DEF Chain
  <2> QED  BY <2>1, <2>2 DEF Holds
<1>4. Listed(g, H, K)
  BY <1>1, <1>2 DEF Listed
<1>5. Loose(g, H, K)
  <2>1. \A m \in H : g[m].live
    BY <1>1 DEF Loose
  <2>2. ASSUME NEW m \in Nodes, g[m].live, ~Owned(K, m)
        PROVE  g[m].next = NULL /\ g[m].prev = NULL /\ (m \in H \/ (g[m].ref /\ g[m].key = "none"))
    BY <1>1, <2>2 DEF Loose
  <2> QED  BY <2>1, <2>2 DEF Loose
<1>6. Pointing(g)
  <2>1. \A x : Target(g, x) <=> Target(h, x)
    BY DEF Target
  <2>2. Pointing(h)
    BY <1>1
  <2> QED  BY <2>1, <2>2 DEF Pointing
<1> QED  BY <1>1, <1>3, <1>4, <1>5, <1>6 DEF Shape

---------------------------------------------------------------------------
(* What is deleted is what is below. *)
\* A set closed under next that has the first item of a list has all of them.
LEMMA RowFollowed ==
  ASSUME NEW h, NEW s \in Seq(Nodes), NEW T \in SUBSET Nodes, Followed(h, T), s # <<>>, s[1] \in T,
         \A k \in 1 .. Len(s) - 1 : h[s[k]].next = s[k + 1]
  PROVE  \A x : In(x, s) => x \in T
<1> DEFINE n == Len(s) - 1
           G == {k \in 0 .. n : s[k + 1] \in T}
<1>1. n \in Nat /\ Len(s) = n + 1
  OBVIOUS
<1>2. 0 \in G
  BY <1>1
<1>3. ASSUME NEW k \in 0 .. n - 1, k \in G PROVE k + 1 \in G
  <2>1. k + 1 \in 1 .. Len(s) - 1 /\ k + 1 \in 0 .. n /\ k + 2 \in 1 .. Len(s) /\ (k + 1) + 1 = k + 2
    BY <1>1
  <2>2. h[s[k + 1]].next = s[k + 2] /\ s[k + 2] \in Nodes /\ s[k + 2] # NULL
    BY <2>1, SizeIs
  <2>3. s[k + 2] \in T
    BY <1>3, <2>2 DEF Followed
  <2> QED  BY <2>1, <2>3
<1> HIDE DEF G
<1>4. \A k \in 0 .. n : k \in G
  BY <1>1, <1>2, <1>3, UpTo
<1> SUFFICES ASSUME NEW k \in 1 .. Len(s) PROVE s[k] \in T
  BY DEF In
<1>5. k - 1 \in 0 .. n /\ (k - 1) + 1 = k
  BY <1>1
<1> QED  BY <1>4, <1>5 DEF G

\* All that is below a live item is live.
LEMMA BelowLive ==
  ASSUME NEW h, NEW H, NEW K, Shape(h, H, K), NEW i \in Nodes, h[i].live, NEW x \in Below(K, i)
  PROVE  h[x].live
<1>1. CASE x = i
  BY <1>1
<1>2. CASE x # i
  <2>1. PICK m \in Below(K, i) : In(x, K[m])
    BY <1>2, BelowOwned
  <2>2. m \in Nodes
    BY BelowIs
  <2> QED  BY <2>1, <2>2 DEF Shape, Listed, In
<1> QED  BY <1>1, <1>2

\* g is h, but for the links of what is not below i and the next of i.
LEMMA ReachedBelow ==
  ASSUME NEW h, NEW H, NEW K, Shape(h, H, K), NEW i \in Nodes, h[i].live,
         \A m \in Below(K, i) : ~In(i, K[m]),
         NEW g \in Heap, g[i].next = NULL,
         \A m \in Below(K, i) : /\ m # i => g[m].next = h[m].next
                                /\ g[m].child = h[m].child /\ g[m].ref = h[m].ref
  PROVE  Reached(g, i) = Below(K, i)
<1> DEFINE B == Below(K, i)
           R == Reached(g, i)
<1>1. i \in B /\ B \in SUBSET Nodes /\ Closed(K, B)
  BY BelowIs
<1>2. i \in R /\ R \in SUBSET Nodes /\ Followed(g, R) /\ \A T \in SUBSET Nodes : i \in T /\ Followed(g, T) => R \subseteq T
  BY ReachedIs
<1>3. /\ h \in Heap /\ K \in [Nodes -> Seq(Nodes)] /\ Rows(h, K) /\ Once(K)
  BY DEF Shape
<1>4. Followed(g, B)
  <2> SUFFICES ASSUME NEW m \in B PROVE /\ g[m].next \in B \cup {NULL}
                                        /\ ~g[m].ref => g[m].child \in B \cup {NULL}
    BY DEF Followed
  <2>1. h[m].live /\ m \in Nodes
    BY <1>1, BelowLive
  <2>2. g[m].next \in B \cup {NULL}
    <3>1. CASE m = i
      BY <3>1
    <3>2. CASE m # i
      <4>1. PICK o \in B : In(m, K[o])
        BY <3>2, BelowOwned
      <4>2. o \in Nodes /\ Chain(h, K[o]) /\ K[o] \in Seq(Nodes)
        <5>1. o \in Nodes /\ K[o] \in Seq(Nodes)
          BY <1>1, <1>3
        <5> QED  BY <1>3, <4>1, <5>1, InNodes DEF Rows
      <4>3. h[m].next = NULL \/ In(h[m].next, K[o])
        BY <4>1, <4>2, Neighbours
      <4>4. In(h[m].next, K[o]) => h[m].next \in B
        BY <1>1, <4>1, <4>2, InNodes DEF Closed
      <4> QED  BY <3>2, <4>3, <4>4
    <3> QED  BY <3>1, <3>2
  <2>3. ASSUME ~g[m].ref PROVE g[m].child \in B \cup {NULL}
    <3>1. h[m].child = First(K[m]) /\ K[m] \in Seq(Nodes)
      BY <1>3, <2>1, <2>3 DEF Rows, Holds
    <3>2. K[m] # <<>> => In(K[m][1], K[m]) /\ K[m][1] \in Nodes
      <4> SUFFICES ASSUME K[m] # <<>> PROVE In(K[m][1], K[m]) /\ K[m][1] \in Nodes
        OBVIOUS
      <4>1. 1 \in 1 .. Len(K[m])
        BY <3>1
      <4> QED  BY <3>1, <4>1 DEF In
    <3> QED  BY <1>1, <2>1, <3>1, <3>2 DEF Closed, First
  <2> QED  BY <2>2, <2>3
<1>5. R \subseteq B
  BY <1>1, <1>2, <1>4
<1>6. Closed(K, R)
  <2> SUFFICES ASSUME NEW m \in R, NEW y \in Nodes, In(y, K[m]) PROVE y \in R
    BY DEF Closed
  <2> DEFINE s == K[m]
  <2>1. m \in B /\ m \in Nodes /\ s \in Seq(Nodes) /\ ~In(i, s)
    BY <1>1, <1>3, <1>5
  <2>2. s # <<>> /\ Holds(h, m) /\ h[m].child = s[1] /\ Chain(h, s) /\ s[1] \in Nodes
    BY <1>3, <2>1, InNodes DEF Rows, First
  <2>3. s[1] \in R
    <3>1. g[m].child = s[1] /\ ~g[m].ref
      BY <2>1, <2>2 DEF Holds
    <3> QED  BY <1>2, <2>2, <3>1, SizeIs DEF Followed
  <2>4. \A k \in 1 .. Len(s) - 1 : g[s[k]].next = s[k + 1]
    <3> SUFFICES ASSUME NEW k \in 1 .. Len(s) - 1 PROVE g[s[k]].next = s[k + 1]
      OBVIOUS
    <3>1. k \in 1 .. Len(s) /\ k # Len(s)
      BY <2>1
    <3>2. In(s[k], s) /\ s[k] \in Nodes
      BY <2>1, <3>1 DEF In
    <3>3. s[k] \in B /\ s[k] # i
      BY <1>1, <2>1, <3>2 DEF Closed
    <3>4. h[s[k]].next = s[k + 1]
      BY <2>2, <3>1 DEF Chain
    <3> QED  BY <3>3, <3>4
  <2> HIDE DEF s, R
  <2>5. \A x : In(x, s) => x \in R
    BY <1>2, <2>1, <2>2, <2>3, <2>4, RowFollowed
  <2> QED  BY <2>5 DEF s
<1>7. B \subseteq R
  BY <1>2, <1>6, BelowIs
<1> QED  BY <1>5, <1>7

\* What cJSON_Delete would reach of an item taken by itself is what is below it.
LEMMA SubtreeBelow ==
  ASSUME NEW h, NEW H, NEW K, Shape(h, H, K), Acyclic(K), NEW i \in Nodes, h[i].live
  PROVE  Subtree(h, i) = Below(K, i)
<1> DEFINE g == [h EXCEPT ![i].next = NULL]
<1>1. h \in Heap /\ Below(K, i) \in SUBSET Nodes
  BY BelowIs DEF Shape
<1>2. /\ g \in Heap /\ g[i].next = NULL
      /\ \A m \in Nodes : /\ m # i => g[m].next = h[m].next
                          /\ g[m].child = h[m].child /\ g[m].ref = h[m].ref
  BY <1>1 DEF Heap, Item, Links
<1>3. \A m \in Below(K, i) : ~In(i, K[m])
  BY <1>1, NotBelowItself
<1> HIDE DEF g
<1>4. Reached(g, i) = Below(K, i)
  BY <1>1, <1>2, <1>3, ReachedBelow
<1> QED  BY <1>4 DEF Subtree, g

\* From an item in hand, what is below it is reached.
LEMMA HandReaches ==
  ASSUME NEW h, NEW H, NEW K, Shape(h, H, K), NEW i \in H
  PROVE  Reached(h, i) = Below(K, i)
<1>1. h \in Heap /\ H \in SUBSET Nodes /\ Listed(h, H, K) /\ Loose(h, H, K)
  BY DEF Shape
<1>2. i \in Nodes /\ h[i].live
  BY <1>1 DEF Loose
<1>3. ~Owned(K, i)
  BY <1>1 DEF Owned, Listed, In
<1>4. h[i].next = NULL /\ \A m \in Below(K, i) : ~In(i, K[m])
  BY <1>1, <1>2, <1>3, BelowIs DEF Loose, Owned
<1> QED  BY <1>1, <1>2, <1>4, ReachedBelow

\* An item in hand is deleted with all that is below it.
LEMMA Cleared ==
  ASSUME NEW h, NEW H, NEW K, Shape(h, H, K), NEW i \in H, NEW S, S = Below(K, i),
         \A r \in Nodes \ S : h[r].live /\ h[r].ref => h[r].child \notin S,
         NEW g, g = [m \in Nodes |-> IF m \in S THEN Blank ELSE h[m]],
         NEW L, L = [m \in Nodes |-> IF m \in S THEN <<>> ELSE K[m]]
  PROVE  Shape(g, H \ {i}, L) /\ Reached(h, i) = S /\ \A m \in H : m # i => m \notin S
<1>1. /\ h \in Heap /\ H \in SUBSET Nodes /\ K \in [Nodes -> Seq(Nodes)]
      /\ Rows(h, K) /\ Once(K) /\ Listed(h, H, K) /\ Loose(h, H, K) /\ Pointing(h)
  BY DEF Shape
<1>2. i \in Nodes /\ h[i].live /\ ~Owned(K, i) /\ h[i].next = NULL
  <2>1. i \in Nodes /\ h[i].live
    BY <1>1 DEF Loose
  <2>2. ~Owned(K, i)
    BY <1>1 DEF Owned, Listed, In
  <2> QED  BY <1>1, <2>1, <2>2 DEF Loose
<1>3. i \in S /\ S \in SUBSET Nodes /\ Closed(K, S)
  BY <1>2, BelowIs
<1>4. Reached(h, i) = S
  BY HandReaches
<1>5. \A x \in S : x # i => \E m \in S : In(x, K[m])
  BY <1>2, BelowOwned
<1>6. \A m \in H : m # i => m \notin S
  <2> SUFFICES ASSUME NEW m \in H, m # i, m \in S PROVE FALSE
    OBVIOUS
  <2>1. PICK o \in S : In(m, K[o])
    BY <1>5
  <2>2. o \in Nodes
    BY <1>3
  <2>3. PICK k \in 1 .. Len(K[o]) : K[o][k] = m
    BY <2>1 DEF In
  <2> QED  BY <1>1, <2>2, <2>3 DEF Listed
<1>7. ASSUME NEW m \in Nodes \ S, NEW x, In(x, K[m]) PROVE x \in Nodes /\ x \notin S
  <2>1. x \in Nodes
    BY <1>1, <1>7, InNodes
  <2>2. x # i
    BY <1>2, <1>7 DEF Owned
  <2>3. ASSUME x \in S PROVE FALSE
    <3>1. PICK o \in S : In(x, K[o])
      BY <1>5, <2>2, <2>3
    <3>2. o = m
      BY <1>1, <1>3, <1>7, <3>1, OneRow
    <3> QED  BY <3>2
  <2> QED  BY <2>1, <2>3
<1>8. /\ g \in Heap /\ L \in [Nodes -> Seq(Nodes)]
      /\ \A m \in S : ~g[m].live /\ L[m] = <<>>
      /\ \A m \in Nodes \ S : g[m] = h[m] /\ L[m] = K[m]
  <2>1. Blank \in Item /\ ~Blank.live
    BY DEF Blank, Item, Links
  <2>2. <<>> \in Seq(Nodes)
    OBVIOUS
  <2> QED  BY <1>1, <1>3, <2>1, <2>2 DEF Heap
<1>9. \A m \in Nodes : L[m] # <<>> => m \notin S
  BY <1>8
<1>10. \A m \in Nodes : \A k \in 1 .. Len(L[m]) : L[m] # <<>>
  BY <1>8
<1>11. Rows(g, L)
  <2> SUFFICES ASSUME NEW m \in Nodes
               PROVE  IF Holds(g, m) THEN g[m].child = First(L[m]) /\ Chain(g, L[m]) ELSE L[m] = <<>>
    BY DEF Rows
  <2>1. CASE m \in S
    BY <1>8, <2>1 DEF Holds
  <2>2. CASE m \notin S
    <3>1. IF Holds(h, m) THEN h[m].child = First(K[m]) /\ Chain(h, K[m]) ELSE K[m] = <<>>
      BY <1>1 DEF Rows
    <3>2. \A k \in 1 .. Len(K[m]) : g[K[m][k]] = h[K[m][k]]
      BY <1>7, <1>8, <2>2 DEF In
    <3>3. Chain(h, K[m]) => Chain(g, K[m])
      BY <3>2 DEF Chain
    <3> QED  BY <1>8, <2>2, <3>1, <3>3 DEF Holds
  <2> QED  BY <2>1, <2>2
<1>12. Once(L)
  <2> SUFFICES ASSUME NEW m \in Nodes, NEW o \in Nodes, NEW j \in 1 .. Len(L[m]), NEW k \in 1 .. Len(L[o]),
                      L[m][j] = L[o][k]
               PROVE  m = o /\ j = k
    BY DEF Once
  <2>1. L[m] = K[m] /\ L[o] = K[o]
    <3>1. m \notin S /\ o \notin S
      BY <1>9, <1>10
    <3> QED  BY <1>8, <3>1
  <2>2. j \in 1 .. Len(K[m]) /\ k \in 1 .. Len(K[o]) /\ K[m][j] = K[o][k]
    BY <2>1
  <2> QED  BY <1>1, <2>2 DEF Once
<1>13. Listed(g, H \ {i}, L)
  <2> SUFFICES ASSUME NEW m \in Nodes, NEW k \in 1 .. Len(L[m]) PROVE g[L[m][k]].live /\ L[m][k] \notin H
    BY DEF Listed
  <2>1. m \notin S
    BY <1>9, <1>10
  <2>2. L[m] = K[m] /\ In(K[m][k], K[m])
    BY <1>8, <2>1 DEF In
  <2>3. K[m][k] \in Nodes /\ K[m][k] \notin S
    BY <1>7, <2>1, <2>2
  <2> QED  BY <1>1, <1>8, <2>2, <2>3 DEF Listed
<1>14. Loose(g, H \ {i}, L)
  <2>1. \A m \in H \ {i} : g[m].live
    BY <1>1, <1>6, <1>8 DEF Loose
  <2>2. ASSUME NEW m \in Nodes, g[m].live, ~Owned(L, m)
        PROVE  g[m].next = NULL /\ g[m].prev = NULL /\ (m \in H \ {i} \/ (g[m].ref /\ g[m].key = "none"))
    <3>1. m \notin S /\ g[m] = h[m] /\ m # i
      BY <1>3, <1>8, <2>2
    <3>2. ~Owned(K, m)
      <4> SUFFICES ASSUME NEW o \in Nodes, In(m, K[o]) PROVE FALSE
        BY DEF Owned
      <4>1. o \notin S
        BY <1>3, <3>1 DEF Closed
      <4> QED  BY <1>8, <2>2, <4>1 DEF Owned
    <3> QED  BY <1>1, <2>2, <3>1, <3>2 DEF Loose
  <2> QED  BY <2>1, <2>2 DEF Loose
<1>15. Pointing(g)
  <2> SUFFICES ASSUME NEW m \in Nodes, g[m].live
               PROVE  Target(g, g[m].next) /\ Target(g, g[m].prev) /\ Target(g, g[m].child)
    BY DEF Pointing
  <2>1. m \notin S /\ g[m] = h[m] /\ h[m].live
    BY <1>8
  <2>2. Target(h, h[m].next) /\ Target(h, h[m].prev) /\ Target(h, h[m].child)
    BY <1>1, <2>1 DEF Pointing
  <2>3. \A x : Target(h, x) /\ x \notin S => Target(g, x)
    BY <1>8 DEF Target
  <2>4. NULL \notin S
    BY <1>3, SizeIs
  <2>5. h[m].child \notin S
    <3>1. CASE h[m].ref
      BY <2>1, <3>1
    <3>2. CASE ~h[m].ref
      <4>1. h[m].child = First(K[m]) /\ K[m] \in Seq(Nodes)
        BY <1>1, <2>1, <3>2 DEF Rows, Holds
      <4>2. K[m] # <<>> => In(K[m][1], K[m])
        <5> SUFFICES ASSUME K[m] # <<>> PROVE In(K[m][1], K[m])
          OBVIOUS
        <5>1. 1 \in 1 .. Len(K[m])
          BY <4>1
        <5> QED  BY <5>1 DEF In
      <4> QED  BY <1>7, <2>1, <2>4, <4>1, <4>2 DEF First
    <3> QED  BY <3>1, <3>2
  <2>6. h[m].next \notin S /\ h[m].prev \notin S
    <3>1. CASE Owned(K, m)
      <4>1. PICK o \in Nodes : In(m, K[o])
        BY <3>1 DEF Owned
      <4>2. o \notin S
        BY <1>3, <2>1, <4>1 DEF Closed
      <4>3. Chain(h, K[o]) /\ K[o] \in Seq(Nodes)
        BY <1>1, <4>1, InNodes DEF Rows
      <4>4. /\ h[m].next = NULL \/ In(h[m].next, K[o])
            /\ In(h[m].prev, K[o])
        BY <4>1, <4>3, Neighbours
      <4> QED  BY <1>7, <2>4, <4>2, <4>4
    <3>2. CASE ~Owned(K, m)
      BY <1>1, <2>1, <2>4, <3>2 DEF Loose
    <3> QED  BY <3>1, <3>2
  <2> QED  BY <2>1, <2>2, <2>3, <2>5, <2>6
<1> QED  BY <1>1, <1>4, <1>6, <1>8, <1>11, <1>12, <1>13, <1>14, <1>15 DEF Shape

---------------------------------------------------------------------------
(* One assignment to a pointer. *)
Kept(g, h) == \A m \in Nodes : /\ g[m].live = h[m].live /\ g[m].ref = h[m].ref
                               /\ g[m].key = h[m].key /\ g[m].const = h[m].const

IsNextSet(g, h, n, v) == g = [h EXCEPT ![n].next = v]
IsPrevSet(g, h, n, v) == g = [h EXCEPT ![n].prev = v]
IsChildSet(g, h, n, v) == g = [h EXCEPT ![n].child = v]

\* An assignment to next changes that pointer of that item.
LEMMA SetNext ==
  ASSUME NEW h \in Heap, NEW n \in Nodes, NEW v \in Links, NEW g, IsNextSet(g, h, n, v)
  PROVE  /\ g \in Heap /\ Kept(g, h)
         /\ \A m \in Nodes : /\ g[m].next = IF m = n THEN v ELSE h[m].next
                             /\ g[m].prev = h[m].prev /\ g[m].child = h[m].child
BY DEF Heap, Item, Kept, IsNextSet, IsPrevSet, IsChildSet

\* The same of prev.
LEMMA SetPrev ==
  ASSUME NEW h \in Heap, NEW n \in Nodes, NEW v \in Links, NEW g, IsPrevSet(g, h, n, v)
  PROVE  /\ g \in Heap /\ Kept(g, h)
         /\ \A m \in Nodes : /\ g[m].prev = IF m = n THEN v ELSE h[m].prev
                             /\ g[m].next = h[m].next /\ g[m].child = h[m].child
BY DEF Heap, Item, Kept, IsNextSet, IsPrevSet, IsChildSet

\* The same of child.
LEMMA SetChild ==
  ASSUME NEW h \in Heap, NEW n \in Nodes, NEW v \in Links, NEW g, IsChildSet(g, h, n, v)
  PROVE  /\ g \in Heap /\ Kept(g, h)
         /\ \A m \in Nodes : /\ g[m].child = IF m = n THEN v ELSE h[m].child
                             /\ g[m].next = h[m].next /\ g[m].prev = h[m].prev
BY DEF Heap, Item, Kept, IsNextSet, IsPrevSet, IsChildSet

---------------------------------------------------------------------------
(* Changes of sequences. *)
\* What Append makes of a sequence: its length, its items, and what is in it.
LEMMA AppendIs ==
  ASSUME NEW s \in Seq(Nodes), NEW i \in Nodes
  PROVE  LET t == Append(s, i) IN
         /\ t \in Seq(Nodes) /\ Len(s) \in Nat /\ Len(t) = Len(s) + 1
         /\ \A k \in 1 .. Len(t) : t[k] = IF k = Len(t) THEN i ELSE s[k]
         /\ \A x : In(x, t) <=> In(x, s) \/ x = i
<1> DEFINE t == Append(s, i)
<1>1. /\ t \in Seq(Nodes) /\ Len(s) \in Nat /\ Len(t) = Len(s) + 1
      /\ \A k \in 1 .. Len(t) : t[k] = IF k = Len(t) THEN i ELSE s[k]
  OBVIOUS
<1>2. ASSUME NEW x, In(x, t) PROVE In(x, s) \/ x = i
  BY <1>1, <1>2 DEF In
<1>3. ASSUME NEW x, In(x, s) PROVE In(x, t)
  <2>1. PICK k \in 1 .. Len(s) : s[k] = x
    BY <1>3 DEF In
  <2>2. k \in 1 .. Len(t) /\ t[k] = x
    BY <1>1, <2>1
  <2> QED  BY <2>2 DEF In
<1>4. In(i, t)
  <2>1. Len(t) \in 1 .. Len(t) /\ t[Len(t)] = i
    BY <1>1
  <2> QED  BY <2>1 DEF In
<1> QED  BY <1>1, <1>2, <1>3, <1>4

\* What is in a concatenation, at which place.
LEMMA ConcatIs ==
  ASSUME NEW a \in Seq(Nodes), NEW b \in Seq(Nodes)
  PROVE  /\ a \o b \in Seq(Nodes) /\ Len(a \o b) = Len(a) + Len(b)
         /\ \A k \in 1 .. Len(a) + Len(b) : (a \o b)[k] = IF k <= Len(a) THEN a[k] ELSE b[k - Len(a)]
BY ConcatProperties

\* The same of RemoveAt.
LEMMA RemoveAtIs ==
  ASSUME NEW s \in Seq(Nodes), Injective(s), NEW p \in 1 .. Len(s)
  PROVE  LET t == RemoveAt(s, p) IN
         /\ t \in Seq(Nodes) /\ Len(s) \in Nat /\ Len(t) = Len(s) - 1
         /\ \A k \in 1 .. Len(t) : t[k] = IF k < p THEN s[k] ELSE s[k + 1]
         /\ \A x : In(x, t) <=> In(x, s) /\ x # s[p]
<1> DEFINE t == RemoveAt(s, p)
<1>1. Len(s) \in Nat /\ p \in Nat
  OBVIOUS
<1>2. /\ t \in Seq(Nodes) /\ Len(t) = Len(s) - 1
      /\ \A k \in 1 .. Len(t) : t[k] = IF k < p THEN s[k] ELSE s[k + 1]
  <2> DEFINE a == SubSeq(s, 1, p - 1)
             b == SubSeq(s, p + 1, Len(s))
  <2>1. a \in Seq(Nodes) /\ Len(a) = p - 1 /\ \A k \in 1 .. p - 1 : a[k] = s[k]
    BY <1>1
  <2>2. b \in Seq(Nodes) /\ Len(b) = Len(s) - p /\ \A k \in 1 .. Len(s) - p : b[k] = s[p + k]
    BY <1>1
  <2>3. t = a \o b
    BY DEF RemoveAt
  <2> HIDE DEF a, b
  <2>4. t \in Seq(Nodes) /\ Len(t) = Len(s) - 1
    <3>1. t \in Seq(Nodes) /\ Len(t) = Len(a) + Len(b)
      <4>1. a \in Seq(Nodes) /\ b \in Seq(Nodes)
        BY <2>1, <2>2
      <4> QED  BY <2>3, <4>1, ConcatIs
    <3>2. (p - 1) + (Len(s) - p) = Len(s) - 1
      BY <1>1
    <3> QED  BY <2>1, <2>2, <3>1, <3>2
  <2>5. \A k \in 1 .. Len(t) : t[k] = IF k < p THEN a[k] ELSE b[k - (p - 1)]
    <3>0. a \in Seq(Nodes) /\ b \in Seq(Nodes)
      BY <2>1, <2>2
    <3>1. \A k \in 1 .. Len(a) + Len(b) : (a \o b)[k] = IF k <= Len(a) THEN a[k] ELSE b[k - Len(a)]
      BY <3>0, ConcatIs
    <3>2. Len(t) = Len(a) + Len(b) /\ Len(a) = p - 1
      BY <2>1, <2>3, <3>0, ConcatIs
    <3>3. \A k \in 1 .. Len(t) : k <= p - 1 <=> k < p
      BY <1>1, <2>4
    <3> QED  BY <2>3, <3>1, <3>2, <3>3
  <2>6. ASSUME NEW k \in 1 .. Len(t) PROVE t[k] = IF k < p THEN s[k] ELSE s[k + 1]
    <3>1. CASE k < p
      BY <1>1, <2>1, <2>5, <3>1
    <3>2. CASE ~(k < p)
      <4>1. k - (p - 1) \in 1 .. Len(s) - p /\ p + (k - (p - 1)) = k + 1
        BY <1>1, <2>4, <3>2
      <4> QED  BY <2>2, <2>5, <3>2, <4>1
    <3> QED  BY <3>1, <3>2
  <2> QED  BY <2>4, <2>6
<1>3. ASSUME NEW x, In(x, t) PROVE In(x, s) /\ x # s[p]
  <2>1. PICK k \in 1 .. Len(t) : t[k] = x
    BY <1>3 DEF In
  <2>2. CASE k < p
    BY <1>1, <1>2, <2>1, <2>2 DEF In, Injective
  <2>3. CASE ~(k < p)
    <3>1. k + 1 \in 1 .. Len(s) /\ k + 1 # p /\ s[k + 1] = x
      BY <1>1, <1>2, <2>1, <2>3
    <3> QED  BY <3>1 DEF In, Injective
  <2> QED  BY <2>2, <2>3
<1>4. ASSUME NEW x, In(x, s), x # s[p] PROVE In(x, t)
  <2>1. PICK k \in 1 .. Len(s) : s[k] = x
    BY <1>4 DEF In
  <2>2. CASE k < p
    <3>1. k \in 1 .. Len(t) /\ t[k] = x
      BY <1>1, <1>2, <2>1, <2>2
    <3> QED  BY <3>1 DEF In
  <2>3. CASE ~(k < p)
    <3>1. k - 1 \in 1 .. Len(t) /\ ~(k - 1 < p) /\ (k - 1) + 1 = k
      BY <1>1, <1>2, <1>4, <2>1, <2>3
    <3>2. t[k - 1] = x
      BY <1>2, <2>1, <3>1
    <3> QED  BY <3>1, <3>2 DEF In
  <2> QED  BY <2>2, <2>3
<1> QED  BY <1>1, <1>2, <1>3, <1>4

\* The same of InsertAt.
LEMMA InsertAtIs ==
  ASSUME NEW s \in Seq(Nodes), NEW p \in 1 .. Len(s), NEW i \in Nodes
  PROVE  LET t == InsertAt(s, p, i) IN
         /\ t \in Seq(Nodes) /\ Len(s) \in Nat /\ Len(t) = Len(s) + 1
         /\ \A k \in 1 .. Len(t) : t[k] = IF k < p THEN s[k] ELSE IF k = p THEN i ELSE s[k - 1]
         /\ \A x : In(x, t) <=> In(x, s) \/ x = i
<1> DEFINE t == InsertAt(s, p, i)
<1>1. Len(s) \in Nat /\ p \in Nat
  OBVIOUS
<1>2. /\ t \in Seq(Nodes) /\ Len(t) = Len(s) + 1
      /\ \A k \in 1 .. Len(t) : t[k] = IF k < p THEN s[k] ELSE IF k = p THEN i ELSE s[k - 1]
  <2> DEFINE a == SubSeq(s, 1, p - 1)
             b == SubSeq(s, p, Len(s))
             c == a \o <<i>>
  <2>1. a \in Seq(Nodes) /\ Len(a) = p - 1 /\ \A k \in 1 .. p - 1 : a[k] = s[k]
    BY <1>1
  <2>2. b \in Seq(Nodes) /\ Len(b) = Len(s) - p + 1 /\ \A k \in 1 .. Len(s) - p + 1 : b[k] = s[p + k - 1]
    BY <1>1
  <2>3. t = c \o b
    BY DEF InsertAt
  <2> HIDE DEF a, b
  <2>4. c \in Seq(Nodes) /\ Len(c) = p /\ \A k \in 1 .. p : c[k] = IF k = p THEN i ELSE s[k]
    BY <1>1, <2>1
  <2> HIDE DEF c
  <2>5. t \in Seq(Nodes) /\ Len(t) = Len(s) + 1
    <3>1. t \in Seq(Nodes) /\ Len(t) = Len(c) + Len(b)
      <4>1. c \in Seq(Nodes) /\ b \in Seq(Nodes)
        BY <2>2, <2>4
      <4> QED  BY <2>3, <4>1, ConcatIs
    <3>2. p + (Len(s) - p + 1) = Len(s) + 1
      BY <1>1
    <3> QED  BY <2>2, <2>4, <3>1, <3>2
  <2>6. \A k \in 1 .. Len(t) : t[k] = IF k <= p THEN c[k] ELSE b[k - p]
    BY <1>1, <2>2, <2>3, <2>4
  <2>7. ASSUME NEW k \in 1 .. Len(t) PROVE t[k] = IF k < p THEN s[k] ELSE IF k = p THEN i ELSE s[k - 1]
    <3>1. CASE k <= p
      BY <1>1, <2>4, <2>6, <3>1
    <3>2. CASE ~(k <= p)
      <4>1. k - p \in 1 .. Len(s) - p + 1 /\ p + (k - p) - 1 = k - 1
        BY <1>1, <2>5, <3>2
      <4> QED  BY <1>1, <2>2, <2>6, <3>2, <4>1
    <3> QED  BY <3>1, <3>2
  <2> QED  BY <2>5, <2>7
<1>3. ASSUME NEW x, In(x, t) PROVE In(x, s) \/ x = i
  <2>1. PICK k \in 1 .. Len(t) : t[k] = x
    BY <1>3 DEF In
  <2>2. CASE k < p
    <3>1. k \in 1 .. Len(s) /\ s[k] = x
      BY <1>1, <1>2, <2>1, <2>2
    <3> QED  BY <3>1 DEF In
  <2>3. CASE k > p
    <3>1. k - 1 \in 1 .. Len(s) /\ s[k - 1] = x
      BY <1>1, <1>2, <2>1, <2>3
    <3> QED  BY <3>1 DEF In
  <2> QED  BY <1>1, <1>2, <2>1, <2>2, <2>3
<1>4. ASSUME NEW x, In(x, s) PROVE In(x, t)
  <2>1. PICK k \in 1 .. Len(s) : s[k] = x
    BY <1>4 DEF In
  <2>2. CASE k < p
    <3>1. k \in 1 .. Len(t) /\ t[k] = x
      BY <1>1, <1>2, <2>1, <2>2
    <3> QED  BY <3>1 DEF In
  <2>3. CASE ~(k < p)
    <3>1. k + 1 \in 1 .. Len(t) /\ ~(k + 1 < p) /\ k + 1 # p /\ (k + 1) - 1 = k
      BY <1>1, <1>2, <2>1, <2>3
    <3>2. t[k + 1] = x
      BY <1>2, <2>1, <3>1
    <3> QED  BY <3>1, <3>2 DEF In
  <2> QED  BY <2>2, <2>3
<1>5. In(i, t)
  <2>1. p \in 1 .. Len(t) /\ t[p] = i
    BY <1>1, <1>2
  <2> QED  BY <2>1 DEF In
<1> QED  BY <1>1, <1>2, <1>3, <1>4, <1>5

\* The same of ReplaceAt.
LEMMA ReplaceAtIs ==
  ASSUME NEW s \in Seq(Nodes), Injective(s), NEW p \in 1 .. Len(s), NEW i \in Nodes
  PROVE  LET t == ReplaceAt(s, p, i) IN
         /\ t \in Seq(Nodes) /\ Len(s) \in Nat /\ Len(t) = Len(s)
         /\ \A k \in 1 .. Len(t) : t[k] = IF k = p THEN i ELSE s[k]
         /\ \A x : In(x, t) <=> (In(x, s) /\ x # s[p]) \/ x = i
<1> DEFINE t == ReplaceAt(s, p, i)
<1>1. Len(s) \in Nat /\ p \in Nat
  OBVIOUS
<1>2. /\ t \in Seq(Nodes) /\ Len(t) = Len(s)
      /\ \A k \in 1 .. Len(t) : t[k] = IF k = p THEN i ELSE s[k]
  BY <1>1 DEF ReplaceAt
<1>3. ASSUME NEW x, In(x, t) PROVE (In(x, s) /\ x # s[p]) \/ x = i
  BY <1>1, <1>2, <1>3 DEF In, Injective
<1>4. ASSUME NEW x, In(x, s), x # s[p] PROVE In(x, t)
  <2>1. PICK k \in 1 .. Len(s) : s[k] = x
    BY <1>4 DEF In
  <2>2. k \in 1 .. Len(t) /\ t[k] = x
    BY <1>2, <1>4, <2>1
  <2> QED  BY <2>2 DEF In
<1>5. In(i, t)
  <2>1. p \in 1 .. Len(t) /\ t[p] = i
    BY <1>1, <1>2
  <2> QED  BY <2>1 DEF In
<1> QED  BY <1>1, <1>2, <1>3, <1>4, <1>5

\* The list of an item that is no reference: linked both ways, without repetitions.
LEMMA RowFacts ==
  ASSUME NEW h, NEW H, NEW K, Shape(h, H, K), NEW n \in Nodes, Holds(h, n)
  PROVE  /\ h \in Heap /\ K[n] \in Seq(Nodes) /\ Injective(K[n]) /\ Chain(h, K[n])
         /\ h[n].child = First(K[n]) /\ Len(K[n]) \in Nat
         /\ \A k \in 1 .. Len(K[n]) : K[n][k] \in Nodes /\ K[n][k] # NULL /\ K[n][k] \notin H
<1>1. K[n] \in Seq(Nodes) /\ Injective(K[n])
  BY RowInjective DEF Shape
<1> QED  BY <1>1, SizeIs DEF Shape, Rows, Listed

\* An item in hand is live, linked to nothing and in no list.
LEMMA HandFacts ==
  ASSUME NEW h, NEW H, NEW K, Shape(h, H, K), NEW i \in H
  PROVE  /\ i \in Nodes /\ i # NULL /\ h[i].live /\ h[i].next = NULL /\ h[i].prev = NULL
         /\ \A m \in Nodes : ~In(i, K[m])
<1>1. i \in Nodes /\ h[i].live
  BY DEF Shape, Loose
<1>2. \A m \in Nodes : ~In(i, K[m])
  BY DEF Shape, Listed, In
<1>3. ~Owned(K, i)
  BY <1>2 DEF Owned
<1> QED  BY <1>1, <1>2, <1>3, SizeIs DEF Shape, Loose

---------------------------------------------------------------------------
(* The functions on lists. *)
\* add_item_to_array appends.
LEMMA AppendRewires ==
  ASSUME NEW h, NEW H, NEW K, Shape(h, H, K), NEW n \in Nodes, Holds(h, n), NEW i \in H,
         NEW t, t = Append(K[n], i), NEW g, g = add_item_to_array(h, n, i)
  PROVE  Rewired(g, h, n, K[n], t) /\ t \in Seq(Nodes) /\ Injective(t)
<1>0. PICK s : s = K[n]
  OBVIOUS
<1> DEFINE l == Len(s)
<1>1. /\ h \in Heap /\ s \in Seq(Nodes) /\ Injective(s) /\ Chain(h, s) /\ h[n].child = First(s)
      /\ l \in Nat /\ \A k \in 1 .. l : s[k] \in Nodes /\ s[k] # NULL /\ s[k] # i
  BY <1>0, RowFacts
<1>2. i \in Nodes /\ i # NULL /\ h[i].next = NULL /\ ~In(i, s)
  BY <1>0, HandFacts
<1>3. /\ t \in Seq(Nodes) /\ Len(t) = l + 1
      /\ \A k \in 1 .. Len(t) : t[k] = IF k = Len(t) THEN i ELSE s[k]
      /\ \A x : In(x, t) <=> In(x, s) \/ x = i
  BY <1>0, <1>1, <1>2, AppendIs
<1>4. Injective(t)
  <2> SUFFICES ASSUME NEW j \in 1 .. Len(t), NEW k \in 1 .. Len(t), t[j] = t[k] PROVE j = k
    BY DEF Injective
  <2>1. ASSUME NEW o \in 1 .. Len(t) PROVE IF o = Len(t) THEN t[o] = i ELSE o \in 1 .. l /\ t[o] = s[o]
    BY <1>1, <1>3
  <2>2. CASE j = Len(t) \/ k = Len(t)
    BY <1>1, <2>1, <2>2
  <2>3. CASE j # Len(t) /\ k # Len(t)
    <3>1. j \in 1 .. l /\ k \in 1 .. l /\ s[j] = s[k]
      BY <2>1, <2>3
    <3> QED  BY <1>1, <3>1 DEF Injective
  <2> QED  BY <2>2, <2>3
<1>5. i \in Links /\ NULL \in Links /\ n \in Nodes
  BY <1>2 DEF Links
<1>6. CASE s = <<>>
  <2>1. h[n].child = NULL /\ l = 0
    BY <1>1, <1>6 DEF First
  <2>2a. PICK h1 : IsChildSet(h1, h, n, i)
    BY DEF IsChildSet
  <2>2b. PICK h2 : IsPrevSet(h2, h1, i, i)
    BY DEF IsPrevSet
  <2>2c. PICK h3 : IsNextSet(h3, h2, i, NULL)
    BY DEF IsNextSet
  <2>2. g = h3
    BY <2>1, <2>2a, <2>2b, <2>2c DEF IsNextSet, IsPrevSet, IsChildSet, add_item_to_array
  <2>3. /\ h1 \in Heap /\ Kept(h1, h)
        /\ \A m \in Nodes : /\ h1[m].child = IF m = n THEN i ELSE h[m].child
                            /\ h1[m].next = h[m].next /\ h1[m].prev = h[m].prev
    BY <1>1, <1>5, <2>2a, SetChild
  <2>4. /\ h2 \in Heap /\ Kept(h2, h1)
        /\ \A m \in Nodes : /\ h2[m].prev = IF m = i THEN i ELSE h1[m].prev
                            /\ h2[m].next = h1[m].next /\ h2[m].child = h1[m].child
    BY <1>2, <1>5, <2>2b, <2>3, SetPrev
  <2>5. /\ h3 \in Heap /\ Kept(h3, h2)
        /\ \A m \in Nodes : /\ h3[m].next = IF m = i THEN NULL ELSE h2[m].next
                            /\ h3[m].prev = h2[m].prev /\ h3[m].child = h2[m].child
    BY <1>2, <1>5, <2>2c, <2>4, SetNext
  <2>6. /\ \A m \in Nodes : /\ g[m].next = IF m = i THEN NULL ELSE h[m].next
                            /\ g[m].prev = IF m = i THEN i ELSE h[m].prev
                            /\ g[m].child = IF m = n THEN i ELSE h[m].child
        /\ g \in Heap /\ Kept(g, h)
    BY <2>2, <2>3, <2>4, <2>5 DEF Kept
  <2>7. First(t) = i /\ t # <<>> /\ Len(t) = 1 /\ t[1] = i
    BY <1>3, <2>1 DEF First
  <2>8. Chain(g, t)
    BY <1>2, <2>6, <2>7 DEF Chain
  <2>9. \A m \in Nodes : ~In(m, t) => ~In(m, s) /\ m # i
    BY <1>3
  <2> QED  BY <1>0, <1>3, <1>4, <2>6, <2>7, <2>8, <2>9 DEF Rewired, Kept
<1>7. CASE s # <<>>
  <2>1. l \in 1 .. l /\ 1 \in 1 .. l /\ h[n].child = s[1] /\ h[s[1]].prev = s[l]
    BY <1>1, <1>7 DEF First, Chain
  <2> DEFINE first == s[1]
             last == s[l]
  <2>2a. PICK h1 : IsNextSet(h1, h, last, i)
    BY DEF IsNextSet
  <2>2b. PICK h2 : IsPrevSet(h2, h1, i, last)
    BY DEF IsPrevSet
  <2>2c. PICK h3 : IsPrevSet(h3, h2, first, i)
    BY DEF IsPrevSet
  <2>2. first \in Nodes /\ last \in Nodes /\ first # NULL /\ last # NULL /\ last # i /\ first # i /\ last \in Links
    BY <1>1, <2>1 DEF Links
  <2>3. g = h3
    BY <1>0, <2>1, <2>2, <2>2a, <2>2b, <2>2c DEF IsNextSet, IsPrevSet, IsChildSet, add_item_to_array, suffix_object
  <2>4. /\ h1 \in Heap /\ Kept(h1, h)
        /\ \A m \in Nodes : /\ h1[m].next = IF m = last THEN i ELSE h[m].next
                            /\ h1[m].prev = h[m].prev /\ h1[m].child = h[m].child
    BY <1>1, <1>5, <2>2, <2>2a, SetNext
  <2>5. /\ h2 \in Heap /\ Kept(h2, h1)
        /\ \A m \in Nodes : /\ h2[m].prev = IF m = i THEN last ELSE h1[m].prev
                            /\ h2[m].next = h1[m].next /\ h2[m].child = h1[m].child
    BY <1>2, <2>2, <2>2b, <2>4, SetPrev
  <2>6. /\ h3 \in Heap /\ Kept(h3, h2)
        /\ \A m \in Nodes : /\ h3[m].prev = IF m = first THEN i ELSE h2[m].prev
                            /\ h3[m].next = h2[m].next /\ h3[m].child = h2[m].child
    BY <1>5, <2>2, <2>2c, <2>5, SetPrev
  <2>7. /\ \A m \in Nodes : /\ g[m].next = IF m = last THEN i ELSE h[m].next
                            /\ g[m].prev = IF m = first THEN i ELSE IF m = i THEN last ELSE h[m].prev
                            /\ g[m].child = h[m].child
        /\ g \in Heap /\ Kept(g, h)
    BY <2>3, <2>4, <2>5, <2>6 DEF Kept
  <2>8. First(t) = first /\ t[1] = first
    BY <1>3, <2>1 DEF First
  <2>9. Chain(g, t)
    <3> SUFFICES ASSUME NEW k \in 1 .. Len(t)
                 PROVE  /\ g[t[k]].prev = t[IF k = 1 THEN Len(t) ELSE k - 1]
                        /\ g[t[k]].next = IF k = Len(t) THEN NULL ELSE t[k + 1]
      BY DEF Chain
    <3>1. CASE k = l + 1
      <4>1. t[k] = i /\ k # 1 /\ k - 1 = l /\ t[l] = last
        BY <1>1, <1>3, <2>1, <3>1
      <4> QED  BY <1>2, <1>3, <2>2, <2>7, <3>1, <4>1
    <3>2. CASE k \in 1 .. l
      <4>1. t[k] = s[k] /\ s[k] \in Nodes /\ s[k] # i /\ t[l + 1] = i
        BY <1>1, <1>3, <2>1, <3>2
      <4>2. (s[k] = first <=> k = 1) /\ (s[k] = last <=> k = l)
        BY <1>1, <2>1, <3>2 DEF Injective
      <4>3. /\ h[s[k]].prev = s[IF k = 1 THEN l ELSE k - 1]
            /\ h[s[k]].next = IF k = l THEN NULL ELSE s[k + 1]
        BY <1>1, <3>2 DEF Chain
      <4>4. (k # 1 => t[k - 1] = s[k - 1]) /\ (k # l => t[k + 1] = s[k + 1])
        <5>1. (k # 1 => k - 1 \in 1 .. Len(t) /\ k - 1 # Len(t)) /\ (k # l => k + 1 \in 1 .. Len(t) /\ k + 1 # Len(t))
          BY <1>1, <1>3, <3>2
        <5> QED  BY <1>3, <5>1
      <4>5. g[t[k]].prev = t[IF k = 1 THEN Len(t) ELSE k - 1]
        BY <1>3, <2>7, <4>1, <4>2, <4>3, <4>4
      <4>6. g[t[k]].next = IF k = Len(t) THEN NULL ELSE t[k + 1]
        BY <1>1, <1>3, <2>7, <3>2, <4>1, <4>2, <4>3, <4>4
      <4> QED  BY <4>5, <4>6
    <3> QED  BY <1>1, <1>3, <3>1, <3>2
  <2>10. \A m \in Nodes : ~In(m, t) => ~In(m, s) /\ m # i /\ m # first /\ m # last
    BY <1>3, <2>1 DEF In
  <2> QED  BY <1>0, <1>1, <1>3, <1>4, <2>1, <2>7, <2>8, <2>9, <2>10 DEF Rewired, Kept
<1> QED  BY <1>6, <1>7

\* cJSON_DetachItemViaPointer takes the item out of its list.
LEMMA UnlinkRewires ==
  ASSUME NEW h, NEW H, NEW K, Shape(h, H, K), NEW n \in Nodes, Holds(h, n), NEW p \in 1 .. Len(K[n]),
         NEW i, i = K[n][p], NEW t, t = RemoveAt(K[n], p), NEW g, g = Unlink(h, n, i)
  PROVE  Rewired(g, h, n, K[n], t) /\ t \in Seq(Nodes) /\ Injective(t)
<1>0. PICK s : s = K[n]
  OBVIOUS
<1> DEFINE l == Len(s)
           next == IF p = l THEN NULL ELSE s[p + 1]
           prev == s[IF p = 1 THEN l ELSE p - 1]
<1>1. /\ h \in Heap /\ s \in Seq(Nodes) /\ Injective(s) /\ Chain(h, s) /\ h[n].child = First(s)
      /\ l \in Nat /\ \A k \in 1 .. l : s[k] \in Nodes /\ s[k] # NULL
  BY <1>0, RowFacts
<1>2. p \in 1 .. l /\ p \in Nat /\ 1 \in 1 .. l /\ l \in 1 .. l /\ i = s[p] /\ i \in Nodes /\ s[1] \in Nodes
  BY <1>0, <1>1
<1>3. /\ t \in Seq(Nodes) /\ Len(t) = l - 1
      /\ \A k \in 1 .. Len(t) : t[k] = IF k < p THEN s[k] ELSE s[k + 1]
      /\ \A x : In(x, t) <=> In(x, s) /\ x # i
  BY <1>0, <1>1, <1>2, RemoveAtIs
<1>4. h[i].next = next /\ h[i].prev = prev /\ h[n].child = s[1] /\ (i = s[1] <=> p = 1)
  <2>1. s # <<>>
    BY <1>2
  <2> QED  BY <1>1, <1>2, <2>1 DEF Chain, First, Injective
<1>5. /\ prev \in Nodes /\ prev \in Links /\ next \in Links /\ NULL \in Links
      /\ (next = NULL <=> p = l) /\ (next # NULL => next \in Nodes)
      /\ (p # 1 => p - 1 \in 1 .. l) /\ (p # l => p + 1 \in 1 .. l)
  BY <1>1, <1>2 DEF Links
<1> HIDE DEF next, prev
<1>6. Injective(t)
  <2> SUFFICES ASSUME NEW j \in 1 .. Len(t), NEW k \in 1 .. Len(t), t[j] = t[k] PROVE j = k
    BY DEF Injective
  <2>1. PICK a \in 1 .. l : t[j] = s[a] /\ a = IF j < p THEN j ELSE j + 1
    BY <1>1, <1>2, <1>3
  <2>2. PICK b \in 1 .. l : t[k] = s[b] /\ b = IF k < p THEN k ELSE k + 1
    BY <1>1, <1>2, <1>3
  <2>3. a = b
    BY <1>1, <2>1, <2>2 DEF Injective
  <2> QED  BY <1>1, <1>2, <1>3, <2>1, <2>2, <2>3
<1>7. PICK h1 : (p = 1 => h1 = h) /\ (p # 1 => IsNextSet(h1, h, prev, next))
  <2>1. p = 1 \/ p # 1
    OBVIOUS
  <2> QED  BY <2>1 DEF IsNextSet
<1>8. PICK h2 : (next = NULL => h2 = h1) /\ (next # NULL => IsPrevSet(h2, h1, next, prev))
  BY DEF IsPrevSet
<1>9. PICK h3 : /\ p = 1 => IsChildSet(h3, h2, n, next)
                /\ p # 1 /\ next = NULL => IsPrevSet(h3, h2, s[1], prev)
                /\ p # 1 /\ next # NULL => h3 = h2
  BY DEF IsChildSet, IsPrevSet
<1>10. PICK h4 : IsPrevSet(h4, h3, i, NULL)
  BY DEF IsPrevSet
<1>11. PICK h5 : IsNextSet(h5, h4, i, NULL)
  BY DEF IsNextSet
<1>12. /\ h1 \in Heap /\ Kept(h1, h)
       /\ \A m \in Nodes : /\ h1[m].next = IF p # 1 /\ m = prev THEN next ELSE h[m].next
                           /\ h1[m].prev = h[m].prev /\ h1[m].child = h[m].child
  <2>1. CASE p = 1
    BY <1>1, <1>7, <2>1 DEF Kept
  <2>2. CASE p # 1
    BY <1>1, <1>5, <1>7, <2>2, SetNext
  <2> QED  BY <2>1, <2>2
<1>13. /\ h2 \in Heap /\ Kept(h2, h1)
       /\ \A m \in Nodes : /\ h2[m].prev = IF next # NULL /\ m = next THEN prev ELSE h1[m].prev
                           /\ h2[m].next = h1[m].next /\ h2[m].child = h1[m].child
  <2>1. CASE next = NULL
    BY <1>8, <1>12, <2>1 DEF Kept
  <2>2. CASE next # NULL
    BY <1>5, <1>8, <1>12, <2>2, SetPrev
  <2> QED  BY <2>1, <2>2
<1>14. /\ h3 \in Heap /\ Kept(h3, h2)
       /\ \A m \in Nodes : /\ h3[m].child = IF p = 1 /\ m = n THEN next ELSE h2[m].child
                           /\ h3[m].prev = IF p # 1 /\ next = NULL /\ m = s[1] THEN prev ELSE h2[m].prev
                           /\ h3[m].next = h2[m].next
  <2>1. CASE p = 1
    <3>1. /\ h3 \in Heap /\ Kept(h3, h2)
          /\ \A m \in Nodes : /\ h3[m].child = IF m = n THEN next ELSE h2[m].child
                              /\ h3[m].next = h2[m].next /\ h3[m].prev = h2[m].prev
      BY <1>5, <1>9, <1>13, <2>1, SetChild
    <3> QED  BY <2>1, <3>1
  <2>2. CASE p # 1 /\ next = NULL
    <3>1. /\ h3 \in Heap /\ Kept(h3, h2)
          /\ \A m \in Nodes : /\ h3[m].prev = IF m = s[1] THEN prev ELSE h2[m].prev
                              /\ h3[m].next = h2[m].next /\ h3[m].child = h2[m].child
      BY <1>2, <1>5, <1>9, <1>13, <2>2, SetPrev
    <3> QED  BY <2>2, <3>1
  <2>3. CASE p # 1 /\ next # NULL
    BY <1>9, <1>13, <2>3 DEF Kept
  <2> QED  BY <2>1, <2>2, <2>3
<1>15. /\ h4 \in Heap /\ Kept(h4, h3)
       /\ \A m \in Nodes : /\ h4[m].prev = IF m = i THEN NULL ELSE h3[m].prev
                           /\ h4[m].next = h3[m].next /\ h4[m].child = h3[m].child
  BY <1>2, <1>5, <1>10, <1>14, SetPrev
<1>16. /\ h5 \in Heap /\ Kept(h5, h4)
       /\ \A m \in Nodes : /\ h5[m].next = IF m = i THEN NULL ELSE h4[m].next
                           /\ h5[m].prev = h4[m].prev /\ h5[m].child = h4[m].child
  BY <1>2, <1>5, <1>11, <1>15, SetNext
<1>17. g = h5
  <2>1. h2[n].child = s[1] /\ n \in Nodes
    BY <1>4, <1>12, <1>13
  <2>2. h1 = IF i = h[n].child THEN h ELSE [h EXCEPT ![h[i].prev].next = h[i].next]
    BY <1>4, <1>7 DEF IsNextSet
  <2>3. h2 = IF h[i].next = NULL THEN h1 ELSE [h1 EXCEPT ![h[i].next].prev = h[i].prev]
    BY <1>4, <1>8 DEF IsPrevSet
  <2>4. h3 = CASE i = h[n].child -> [h2 EXCEPT ![n].child = h[i].next]
               [] i # h[n].child /\ h[i].next = NULL -> [h2 EXCEPT ![h2[n].child].prev = h[i].prev]
               [] OTHER -> h2
    <3>1. CASE p = 1
      BY <1>4, <1>9, <3>1 DEF IsChildSet
    <3>2. CASE p # 1 /\ next = NULL
      BY <1>4, <1>9, <2>1, <3>2 DEF IsPrevSet
    <3>3. CASE p # 1 /\ next # NULL
      BY <1>4, <1>9, <3>3
    <3> QED  BY <3>1, <3>2, <3>3
  <2>5. g = [h3 EXCEPT ![i].prev = NULL, ![i].next = NULL]
    <3> DEFINE A == IF i = h[n].child THEN h ELSE [h EXCEPT ![h[i].prev].next = h[i].next]
               B(x) == IF h[i].next = NULL THEN x ELSE [x EXCEPT ![h[i].next].prev = h[i].prev]
               C(x) == CASE i = h[n].child -> [x EXCEPT ![n].child = h[i].next]
                         [] i # h[n].child /\ h[i].next = NULL -> [x EXCEPT ![x[n].child].prev = h[i].prev]
                         [] OTHER -> x
               D(x) == [x EXCEPT ![i].prev = NULL, ![i].next = NULL]
    <3>1. g = D(C(B(A)))
      BY DEF Unlink
    <3>2. A = h1 /\ B(h1) = h2 /\ C(h2) = h3
      BY <2>2, <2>3, <2>4, Zenon
    <3> HIDE DEF A, B, C
    <3> QED  BY <3>1, <3>2
  <2> QED  BY <1>10, <1>11, <2>5 DEF IsNextSet, IsPrevSet
<1>18. /\ \A m \in Nodes :
            /\ g[m].next = IF m = i THEN NULL ELSE IF p # 1 /\ m = prev THEN next ELSE h[m].next
            /\ g[m].prev = IF m = i THEN NULL
                           ELSE IF p # 1 /\ next = NULL /\ m = s[1] THEN prev
                           ELSE IF next # NULL /\ m = next THEN prev ELSE h[m].prev
            /\ g[m].child = IF p = 1 /\ m = n THEN next ELSE h[m].child
       /\ g \in Heap /\ Kept(g, h)
  BY <1>12, <1>13, <1>14, <1>15, <1>16, <1>17 DEF Kept
<1>19. g[n].child = First(t)
  <2>1. CASE l = 1
    <3>1. t = <<>> /\ p = 1
      BY <1>2, <1>3, <2>1
    <3> QED  BY <1>5, <1>18, <2>1, <3>1 DEF First
  <2>2. CASE l # 1
    <3>1. t # <<>> /\ 1 \in 1 .. Len(t) /\ t[1] = IF p = 1 THEN s[2] ELSE s[1]
      BY <1>1, <1>2, <1>3, <2>2
    <3>2. p = 1 => next = s[2]
      BY <2>2 DEF next
    <3> QED  BY <1>4, <1>18, <3>1, <3>2 DEF First
  <2> QED  BY <2>1, <2>2
<1>20. Chain(g, t)
  <2> SUFFICES ASSUME NEW k \in 1 .. Len(t)
               PROVE  /\ g[t[k]].prev = t[IF k = 1 THEN Len(t) ELSE k - 1]
                      /\ g[t[k]].next = IF k = Len(t) THEN NULL ELSE t[k + 1]
    BY DEF Chain
  <2> DEFINE j == IF k < p THEN k ELSE k + 1
  <2>1. j \in 1 .. l /\ j # p /\ t[k] = s[j] /\ s[j] \in Nodes /\ s[j] # i
    BY <1>1, <1>2, <1>3 DEF Injective
  <2>2. /\ h[s[j]].prev = s[IF j = 1 THEN l ELSE j - 1]
        /\ h[s[j]].next = IF j = l THEN NULL ELSE s[j + 1]
    BY <1>1, <2>1 DEF Chain
  <2>3. /\ p # 1 => (s[j] = prev <=> j = p - 1)
        /\ next # NULL => (s[j] = next <=> j = p + 1)
        /\ s[j] = s[1] <=> j = 1
    BY <1>1, <1>2, <1>5, <2>1 DEF Injective, next, prev
  <2>4. g[s[j]].next = IF k = Len(t) THEN NULL ELSE t[k + 1]
    <3>1. CASE p # 1 /\ j = p - 1
      <4>1. k = p - 1 /\ g[s[j]].next = next
        BY <1>2, <1>18, <2>1, <2>3, <3>1
      <4>2. CASE p = l
        BY <1>1, <1>3, <1>5, <4>1, <4>2
      <4>3. CASE p # l
        <5>1. k # Len(t) /\ k + 1 \in 1 .. Len(t) /\ ~(k + 1 < p) /\ (k + 1) + 1 = p + 1
          BY <1>1, <1>2, <1>3, <4>1, <4>3
        <5>2. t[k + 1] = s[p + 1]
          BY <1>3, <5>1
        <5> QED  BY <4>1, <4>3, <5>1, <5>2 DEF next
      <4> QED  BY <4>2, <4>3
    <3>2. CASE ~(p # 1 /\ j = p - 1)
      <4>1. g[s[j]].next = IF j = l THEN NULL ELSE s[j + 1]
        BY <1>18, <2>1, <2>2, <2>3, <3>2
      <4>2. j = l <=> k = Len(t)
        BY <1>1, <1>2, <1>3, <2>1, <3>2
      <4>3. j # l => k + 1 \in 1 .. Len(t) /\ j + 1 = IF k + 1 < p THEN k + 1 ELSE (k + 1) + 1
        <5>1. CASE k < p
          BY <1>1, <1>2, <1>3, <3>2, <5>1
        <5>2. CASE ~(k < p)
          BY <1>1, <1>2, <1>3, <5>2
        <5> QED  BY <5>1, <5>2
      <4> HIDE DEF j
      <4>4. j # l => t[k + 1] = s[j + 1]
        BY <1>3, <4>3
      <4> QED  BY <4>1, <4>2, <4>4
    <3> QED  BY <3>1, <3>2
  <2>5. g[s[j]].prev = t[IF k = 1 THEN Len(t) ELSE k - 1]
    <3>1. CASE p # l /\ j = p + 1
      <4>1. k = p /\ g[s[j]].prev = prev
        BY <1>2, <1>5, <1>18, <2>1, <2>3, <3>1
      <4>2. CASE p = 1
        <5>1. Len(t) \in 1 .. Len(t) /\ ~(Len(t) < p) /\ Len(t) + 1 = l
          BY <1>1, <1>3, <4>2
        <5>2. t[Len(t)] = s[l]
          BY <1>3, <5>1
        <5> QED  BY <4>1, <4>2, <5>2 DEF prev
      <4>3. CASE p # 1
        <5>1. k # 1 /\ k - 1 \in 1 .. Len(t) /\ k - 1 < p /\ k - 1 = p - 1
          BY <1>1, <1>2, <1>3, <4>1, <4>3
        <5>2. t[k - 1] = s[p - 1]
          BY <1>3, <5>1
        <5> QED  BY <4>1, <4>3, <5>1, <5>2 DEF prev
      <4> QED  BY <4>2, <4>3
    <3>2. CASE p # 1 /\ p = l /\ j = 1
      <4>1. k = 1 /\ g[s[j]].prev = prev
        BY <1>2, <1>5, <1>18, <2>1, <2>3, <3>2
      <4>2. Len(t) \in 1 .. Len(t) /\ Len(t) < p /\ Len(t) = p - 1
        BY <1>1, <1>3, <3>2
      <4>3. t[Len(t)] = s[p - 1]
        BY <1>3, <4>2
      <4> QED  BY <3>2, <4>1, <4>3 DEF prev
    <3>3. CASE ~(p # l /\ j = p + 1) /\ ~(p # 1 /\ p = l /\ j = 1)
      <4>1. g[s[j]].prev = s[IF j = 1 THEN l ELSE j - 1]
        BY <1>5, <1>18, <2>1, <2>2, <2>3, <3>3
      <4>2. CASE j = 1
        <5>1. k = 1 /\ p # l
          BY <1>1, <1>2, <1>3, <2>1, <3>3, <4>2
        <5>2. Len(t) \in 1 .. Len(t) /\ ~(Len(t) < p) /\ Len(t) + 1 = l
          BY <1>1, <1>2, <1>3, <5>1
        <5>3. t[Len(t)] = s[l]
          BY <1>3, <5>2
        <5> QED  BY <4>1, <4>2, <5>1, <5>3
      <4>3. CASE j # 1
        <5>1. k # 1 /\ k - 1 \in 1 .. Len(t) /\ j - 1 = IF k - 1 < p THEN k - 1 ELSE (k - 1) + 1
          BY <1>1, <1>2, <1>3, <2>1, <3>3, <4>3
        <5> HIDE DEF j
        <5>2. t[k - 1] = s[j - 1]
          BY <1>3, <5>1
        <5> QED  BY <4>1, <4>3, <5>1, <5>2
      <4> QED  BY <4>2, <4>3
    <3> QED  BY <3>1, <3>2, <3>3
  <2> QED  BY <2>1, <2>4, <2>5
<1>21. \A m \in Nodes : ~In(m, s) => m # i /\ m # prev /\ (next # NULL => m # next) /\ m # s[1]
  <2>1. In(i, s) /\ In(prev, s) /\ (next # NULL => In(next, s)) /\ In(s[1], s)
    BY <1>2, <1>5 DEF In, prev, next
  <2> QED  BY <2>1
<1>22. \A m \in Nodes : ~In(m, t) => IF In(m, s) THEN g[m].next = NULL /\ g[m].prev = NULL
                                   ELSE g[m].next = h[m].next /\ g[m].prev = h[m].prev
  BY <1>3, <1>18, <1>21
<1> QED  BY <1>0, <1>3, <1>6, <1>18, <1>19, <1>20, <1>22 DEF Rewired, Kept

\* cJSON_InsertItemInArray puts the item before the one that is there.
LEMMA LinkedRewires ==
  ASSUME NEW h, NEW H, NEW K, Shape(h, H, K), NEW n \in Nodes, Holds(h, n), NEW p \in 1 .. Len(K[n]),
         NEW i \in H, NEW t, t = InsertAt(K[n], p, i), NEW g, g = Linked(h, n, K[n][p], i)
  PROVE  Rewired(g, h, n, K[n], t) /\ t \in Seq(Nodes) /\ Injective(t)
<1>0. PICK s : s = K[n]
  OBVIOUS
<1> DEFINE l == Len(s)
           after == s[p]
           prev == s[IF p = 1 THEN l ELSE p - 1]
<1>1. /\ h \in Heap /\ s \in Seq(Nodes) /\ Injective(s) /\ Chain(h, s) /\ h[n].child = First(s)
      /\ l \in Nat /\ \A k \in 1 .. l : s[k] \in Nodes /\ s[k] # NULL /\ s[k] # i
  BY <1>0, RowFacts
<1>2. i \in Nodes /\ i # NULL /\ h[i].next = NULL /\ ~In(i, s)
  BY <1>0, HandFacts
<1>3. p \in 1 .. l /\ p \in Nat /\ 1 \in 1 .. l /\ l \in 1 .. l
  BY <1>0, <1>1
<1>4. /\ t \in Seq(Nodes) /\ Len(t) = l + 1
      /\ \A k \in 1 .. Len(t) : t[k] = IF k < p THEN s[k] ELSE IF k = p THEN i ELSE s[k - 1]
      /\ \A x : In(x, t) <=> In(x, s) \/ x = i
  <2>1. t = InsertAt(s, p, i)
    BY <1>0
  <2>2. s \in Seq(Nodes) /\ p \in 1 .. Len(s) /\ i \in Nodes
    BY <1>1, <1>2, <1>3
  <2>3. LET u == InsertAt(s, p, i) IN
        /\ u \in Seq(Nodes) /\ Len(s) \in Nat /\ Len(u) = Len(s) + 1
        /\ \A k \in 1 .. Len(u) : u[k] = IF k < p THEN s[k] ELSE IF k = p THEN i ELSE s[k - 1]
        /\ \A x : In(x, u) <=> In(x, s) \/ x = i
    BY <2>2, InsertAtIs
  <2> QED  BY <2>1, <2>3
<1>5. Injective(t)
  <2> SUFFICES ASSUME NEW j \in 1 .. Len(t), NEW k \in 1 .. Len(t), t[j] = t[k] PROVE j = k
    BY DEF Injective
  <2>1. CASE j = p \/ k = p
    <3>1. ASSUME NEW o \in 1 .. Len(t), o # p PROVE t[o] # i
      <4>1. CASE o < p
        <5>1. o \in 1 .. l /\ t[o] = s[o]
          BY <1>3, <1>4, <4>1
        <5> QED  BY <1>1, <5>1
      <4>2. CASE ~(o < p)
        <5>1. o - 1 \in 1 .. l /\ t[o] = s[o - 1]
          BY <1>3, <1>4, <3>1, <4>2
        <5> QED  BY <1>1, <5>1
      <4> QED  BY <4>1, <4>2
    <3> QED  BY <1>3, <1>4, <2>1, <3>1
  <2>2. CASE j # p /\ k # p
    <3>1. PICK a \in 1 .. l : t[j] = s[a] /\ a = IF j < p THEN j ELSE j - 1
      BY <1>1, <1>3, <1>4, <2>2
    <3>2. PICK b \in 1 .. l : t[k] = s[b] /\ b = IF k < p THEN k ELSE k - 1
      BY <1>1, <1>3, <1>4, <2>2
    <3>3. a = b
      BY <1>1, <3>1, <3>2 DEF Injective
    <3> QED  BY <1>1, <1>3, <1>4, <2>2, <3>1, <3>2, <3>3
  <2> QED  BY <2>1, <2>2
<1>6. h[after].prev = prev /\ h[n].child = s[1] /\ (after = s[1] <=> p = 1)
  <2>1. s # <<>>
    BY <1>3
  <2> QED  BY <1>1, <1>3, <2>1 DEF Chain, First, Injective
<1>7. /\ prev \in Nodes /\ prev \in Links /\ after \in Nodes /\ after \in Links /\ i \in Links
      /\ prev # i /\ after # i /\ (p # 1 => p - 1 \in 1 .. l)
  BY <1>1, <1>2, <1>3 DEF Links
<1>8. PICK h1 : IsNextSet(h1, h, i, after)
  BY DEF IsNextSet
<1>9. PICK h2 : IsPrevSet(h2, h1, i, prev)
  BY DEF IsPrevSet
<1>10. PICK h3 : IsPrevSet(h3, h2, after, i)
  BY DEF IsPrevSet
<1>11. PICK h4 : (p = 1 => IsChildSet(h4, h3, n, i)) /\ (p # 1 => IsNextSet(h4, h3, prev, i))
  BY DEF IsChildSet, IsNextSet
<1> HIDE DEF after, prev
<1>12. /\ h1 \in Heap /\ Kept(h1, h)
       /\ \A m \in Nodes : /\ h1[m].next = IF m = i THEN after ELSE h[m].next
                           /\ h1[m].prev = h[m].prev /\ h1[m].child = h[m].child
  BY <1>1, <1>2, <1>7, <1>8, SetNext
<1>13. /\ h2 \in Heap /\ Kept(h2, h1)
       /\ \A m \in Nodes : /\ h2[m].prev = IF m = i THEN prev ELSE h1[m].prev
                           /\ h2[m].next = h1[m].next /\ h2[m].child = h1[m].child
  BY <1>2, <1>7, <1>9, <1>12, SetPrev
<1>14. /\ h3 \in Heap /\ Kept(h3, h2)
       /\ \A m \in Nodes : /\ h3[m].prev = IF m = after THEN i ELSE h2[m].prev
                           /\ h3[m].next = h2[m].next /\ h3[m].child = h2[m].child
  BY <1>7, <1>10, <1>13, SetPrev
<1>15. /\ h4 \in Heap /\ Kept(h4, h3)
       /\ \A m \in Nodes : /\ h4[m].next = IF p # 1 /\ m = prev THEN i ELSE h3[m].next
                           /\ h4[m].child = IF p = 1 /\ m = n THEN i ELSE h3[m].child
                           /\ h4[m].prev = h3[m].prev
  <2>1. CASE p = 1
    <3>1. /\ h4 \in Heap /\ Kept(h4, h3)
          /\ \A m \in Nodes : /\ h4[m].child = IF m = n THEN i ELSE h3[m].child
                              /\ h4[m].next = h3[m].next /\ h4[m].prev = h3[m].prev
      BY <1>7, <1>11, <1>14, <2>1, SetChild
    <3> QED  BY <2>1, <3>1
  <2>2. CASE p # 1
    <3>1. /\ h4 \in Heap /\ Kept(h4, h3)
          /\ \A m \in Nodes : /\ h4[m].next = IF m = prev THEN i ELSE h3[m].next
                              /\ h4[m].prev = h3[m].prev /\ h4[m].child = h3[m].child
      BY <1>7, <1>11, <1>14, <2>2, SetNext
    <3> QED  BY <2>2, <3>1
  <2> QED  BY <2>1, <2>2
<1>16. g = h4
  <2>1. h3[n].child = s[1] /\ h3[i].prev = prev
    BY <1>2, <1>6, <1>7, <1>12, <1>13, <1>14
  <2>2. h3 = [[h EXCEPT ![i].next = after, ![i].prev = h[after].prev] EXCEPT ![after].prev = i]
    BY <1>6, <1>8, <1>9, <1>10 DEF IsNextSet, IsPrevSet
  <2>3. g = IF after = h3[n].child THEN [h3 EXCEPT ![n].child = i] ELSE [h3 EXCEPT ![h3[i].prev].next = i]
    <3>1. g = Linked(h, n, after, i)
      BY <1>0 DEF after
    <3> QED  BY <2>2, <3>1 DEF Linked
  <2> QED  BY <1>6, <1>11, <2>1, <2>3 DEF IsNextSet, IsChildSet
<1>17. /\ \A m \in Nodes :
            /\ g[m].next = IF p # 1 /\ m = prev THEN i ELSE IF m = i THEN after ELSE h[m].next
            /\ g[m].prev = IF m = after THEN i ELSE IF m = i THEN prev ELSE h[m].prev
            /\ g[m].child = IF p = 1 /\ m = n THEN i ELSE h[m].child
       /\ g \in Heap /\ Kept(g, h)
  BY <1>12, <1>13, <1>14, <1>15, <1>16 DEF Kept
<1>18. g[n].child = First(t)
  <2>1. t # <<>> /\ 1 \in 1 .. Len(t) /\ t[1] = IF p = 1 THEN i ELSE s[1]
    BY <1>1, <1>3, <1>4
  <2> QED  BY <1>6, <1>17, <2>1 DEF First
<1>19. Chain(g, t)
  <2> SUFFICES ASSUME NEW k \in 1 .. Len(t)
               PROVE  /\ g[t[k]].prev = t[IF k = 1 THEN Len(t) ELSE k - 1]
                      /\ g[t[k]].next = IF k = Len(t) THEN NULL ELSE t[k + 1]
    BY DEF Chain
  <2>1. CASE k = p
    <3>1. t[k] = i /\ g[i].next = after /\ g[i].prev = prev
      BY <1>2, <1>4, <1>7, <1>17, <2>1
    <3>2. k # Len(t) /\ k + 1 \in 1 .. Len(t) /\ ~(k + 1 < p) /\ k + 1 # p /\ (k + 1) - 1 = p
      BY <1>1, <1>3, <1>4, <2>1
    <3>3. t[k + 1] = after
      BY <1>4, <3>2 DEF after
    <3>4. CASE p = 1
      <4>1. Len(t) \in 1 .. Len(t) /\ ~(Len(t) < p) /\ Len(t) # p /\ Len(t) - 1 = l
        BY <1>1, <1>3, <1>4, <3>4
      <4>2. t[Len(t)] = s[l]
        BY <1>4, <4>1
      <4> QED  BY <2>1, <3>1, <3>2, <3>3, <3>4, <4>2 DEF prev
    <3>5. CASE p # 1
      <4>1. k - 1 \in 1 .. Len(t) /\ k - 1 < p
        BY <1>1, <1>3, <1>4, <1>7, <2>1, <3>5
      <4>2. t[k - 1] = s[p - 1]
        BY <1>4, <2>1, <4>1
      <4> QED  BY <2>1, <3>1, <3>2, <3>3, <3>5, <4>2 DEF prev
    <3> QED  BY <3>4, <3>5
  <2>2. CASE k # p
    <3> DEFINE j == IF k < p THEN k ELSE k - 1
    <3>1. j \in 1 .. l /\ t[k] = s[j] /\ s[j] \in Nodes /\ s[j] # i
      BY <1>1, <1>3, <1>4, <2>2
    <3>2. /\ h[s[j]].prev = s[IF j = 1 THEN l ELSE j - 1]
          /\ h[s[j]].next = IF j = l THEN NULL ELSE s[j + 1]
      BY <1>1, <3>1 DEF Chain
    <3>3. /\ p # 1 => (s[j] = prev <=> j = p - 1)
          /\ s[j] = after <=> j = p
      BY <1>1, <1>3, <1>7, <3>1 DEF Injective, after, prev
    <3>4. g[s[j]].next = IF k = Len(t) THEN NULL ELSE t[k + 1]
      <4>1. CASE k = p - 1
        <5>1. j = p - 1 /\ p # 1 /\ k # Len(t) /\ k + 1 = p /\ p \in 1 .. Len(t)
          BY <1>1, <1>3, <1>4, <4>1
        <5>2. t[p] = i
          BY <1>3, <1>4, <5>1
        <5> QED  BY <1>17, <3>1, <3>3, <5>1, <5>2
      <4>2. CASE k # p - 1
        <5>1. ~(p # 1 /\ j = p - 1)
          BY <1>1, <1>3, <1>4, <2>2, <4>2
        <5>2. g[s[j]].next = IF j = l THEN NULL ELSE s[j + 1]
          BY <1>17, <3>1, <3>2, <3>3, <5>1
        <5>3. j = l <=> k = Len(t)
          BY <1>1, <1>3, <1>4, <2>2, <4>2
        <5>4. j # l => k + 1 \in 1 .. Len(t) /\ k + 1 # p /\ j + 1 = IF k + 1 < p THEN k + 1 ELSE (k + 1) - 1
          <6>1. CASE k < p
            BY <1>1, <1>3, <1>4, <4>2, <6>1
          <6>2. CASE ~(k < p)
            BY <1>1, <1>3, <1>4, <6>2
          <6> QED  BY <6>1, <6>2
        <5> HIDE DEF j
        <5>5. j # l => t[k + 1] = s[j + 1]
          BY <1>4, <5>4
        <5> QED  BY <5>2, <5>3, <5>5
      <4> QED  BY <4>1, <4>2
    <3>5. g[s[j]].prev = t[IF k = 1 THEN Len(t) ELSE k - 1]
      <4>1. CASE k = p + 1
        <5>1. j = p /\ k # 1 /\ k - 1 = p /\ p \in 1 .. Len(t)
          BY <1>1, <1>3, <1>4, <4>1
        <5>2. t[p] = i
          BY <1>3, <1>4, <5>1
        <5> QED  BY <1>17, <3>1, <3>3, <5>1, <5>2
      <4>2. CASE k # p + 1
        <5>1. j # p
          BY <1>1, <1>3, <1>4, <2>2, <4>2
        <5>2. g[s[j]].prev = s[IF j = 1 THEN l ELSE j - 1]
          BY <1>17, <3>1, <3>2, <3>3, <5>1
        <5>3. CASE k = 1
          <6>1. j = 1 /\ Len(t) \in 1 .. Len(t) /\ ~(Len(t) < p) /\ Len(t) # p /\ Len(t) - 1 = l
            BY <1>1, <1>3, <1>4, <2>2, <5>3
          <6>2. t[Len(t)] = s[l]
            BY <1>4, <6>1
          <6> QED  BY <5>2, <5>3, <6>1, <6>2
        <5>4. CASE k # 1
          <6>1. j # 1 /\ k - 1 \in 1 .. Len(t) /\ k - 1 # p /\ j - 1 = IF k - 1 < p THEN k - 1 ELSE (k - 1) - 1
            <7>1. CASE k < p
              BY <1>1, <1>3, <1>4, <5>4, <7>1
            <7>2. CASE ~(k < p)
              BY <1>1, <1>3, <1>4, <2>2, <4>2, <5>4, <7>2
            <7> QED  BY <7>1, <7>2
          <6> HIDE DEF j
          <6>2. t[k - 1] = s[j - 1]
            BY <1>4, <6>1
          <6> QED  BY <5>2, <5>4, <6>1, <6>2
        <5> QED  BY <5>3, <5>4
      <4> QED  BY <4>1, <4>2
    <3> QED  BY <3>1, <3>4, <3>5
  <2> QED  BY <2>1, <2>2
<1>20. \A m \in Nodes : ~In(m, t) => ~In(m, s) /\ m # i /\ m # prev /\ m # after
  <2>1. In(prev, s) /\ In(after, s)
    BY <1>3, <1>7 DEF In, prev, after
  <2> QED  BY <1>4, <2>1
<1> QED  BY <1>0, <1>4, <1>5, <1>17, <1>18, <1>19, <1>20 DEF Rewired, Kept

\* cJSON_ReplaceItemViaPointer puts the replacement where the item was.
LEMMA ExchangedRewires ==
  ASSUME NEW h, NEW H, NEW K, Shape(h, H, K), NEW n \in Nodes, Holds(h, n), NEW p \in 1 .. Len(K[n]),
         NEW item, item = K[n][p], NEW i \in H, NEW t, t = ReplaceAt(K[n], p, i),
         NEW g, g = Exchanged(h, n, item, i)
  PROVE  Rewired(g, h, n, K[n], t) /\ t \in Seq(Nodes) /\ Injective(t)
<1>0. PICK s : s = K[n]
  OBVIOUS
<1> DEFINE l == Len(s)
           next == IF p = l THEN NULL ELSE s[p + 1]
           prev == s[IF p = 1 THEN l ELSE p - 1]
<1>1. /\ h \in Heap /\ s \in Seq(Nodes) /\ Injective(s) /\ Chain(h, s) /\ h[n].child = First(s)
      /\ l \in Nat /\ \A k \in 1 .. l : s[k] \in Nodes /\ s[k] # NULL /\ s[k] # i
  BY <1>0, RowFacts
<1>2. i \in Nodes /\ i # NULL /\ h[i].next = NULL /\ ~In(i, s)
  BY <1>0, HandFacts
<1>3. p \in 1 .. l /\ p \in Nat /\ 1 \in 1 .. l /\ l \in 1 .. l /\ item = s[p] /\ item \in Nodes /\ s[1] \in Nodes
  BY <1>0, <1>1
<1>4. /\ t \in Seq(Nodes) /\ Len(t) = l
      /\ \A k \in 1 .. Len(t) : t[k] = IF k = p THEN i ELSE s[k]
      /\ \A x : In(x, t) <=> (In(x, s) /\ x # item) \/ x = i
  <2>1. t = ReplaceAt(s, p, i)
    BY <1>0
  <2>2. s \in Seq(Nodes) /\ Injective(s) /\ p \in 1 .. Len(s) /\ i \in Nodes
    BY <1>1, <1>2, <1>3
  <2>3. LET u == ReplaceAt(s, p, i) IN
        /\ u \in Seq(Nodes) /\ Len(s) \in Nat /\ Len(u) = Len(s)
        /\ \A k \in 1 .. Len(u) : u[k] = IF k = p THEN i ELSE s[k]
        /\ \A x : In(x, u) <=> (In(x, s) /\ x # s[p]) \/ x = i
    BY <2>2, ReplaceAtIs
  <2> QED  BY <1>3, <2>1, <2>3
<1>5. Injective(t)
  <2> SUFFICES ASSUME NEW j \in 1 .. Len(t), NEW k \in 1 .. Len(t), t[j] = t[k] PROVE j = k
    BY DEF Injective
  <2>1. CASE j # p /\ k # p
    BY <1>1, <1>4, <2>1 DEF Injective
  <2>2. CASE j = p \/ k = p
    BY <1>1, <1>4, <2>2
  <2> QED  BY <2>1, <2>2
<1>6. h[item].next = next /\ h[item].prev = prev /\ h[n].child = s[1] /\ (item = s[1] <=> p = 1)
  <2>1. s # <<>>
    BY <1>3
  <2> QED  BY <1>1, <1>3, <2>1 DEF Chain, First, Injective
<1>7. /\ prev \in Nodes /\ prev \in Links /\ next \in Links /\ NULL \in Links /\ i \in Links
      /\ (next = NULL <=> p = l) /\ (next # NULL => next \in Nodes /\ next # item /\ next # i)
      /\ (p # 1 => p - 1 \in 1 .. l) /\ (p # l => p + 1 \in 1 .. l)
      /\ prev # i /\ item # i /\ prev # NULL /\ (prev = item <=> l = 1)
  <2>1. p + 1 # p /\ p - 1 # p /\ (p # 1 => p - 1 \in 1 .. l) /\ (p # l => p + 1 \in 1 .. l)
    BY <1>1, <1>3
  <2>2. (next # NULL => next # item) /\ (prev = item <=> l = 1)
    <3>1. p # l => s[p + 1] # s[p]
      BY <1>3, <2>1 , <1>1 DEF Injective
    <3>2. p # 1 => s[p - 1] # s[p]
      BY <1>3, <2>1, <1>1 DEF Injective
    <3>3. s[l] = s[p] => l = p
      BY <1>3, <1>1 DEF Injective
    <3>4. p # 1 => l # 1
      BY <1>1, <1>3
    <3> QED  BY <1>3, <3>1, <3>2, <3>3, <3>4
  <2> QED  BY <1>1, <1>2, <1>3, <2>1, <2>2 DEF Links
<1> HIDE DEF next, prev
<1>8. PICK h1 : IsNextSet(h1, h, i, next)
  BY DEF IsNextSet
<1>9. PICK h2 : IsPrevSet(h2, h1, i, prev)
  BY DEF IsPrevSet
<1>10. PICK h3 : (next = NULL => h3 = h2) /\ (next # NULL => IsPrevSet(h3, h2, next, i))
  BY DEF IsPrevSet
<1>11. PICK h4 : /\ l = 1 => IsPrevSet(h4, h3, i, i)
                 /\ l # 1 /\ p # 1 => IsNextSet(h4, h3, prev, i)
                 /\ l # 1 /\ p = 1 => h4 = h3
  BY DEF IsPrevSet, IsNextSet
<1>12. PICK h5 : /\ p = 1 => IsChildSet(h5, h4, n, i)
                 /\ p # 1 /\ next = NULL => IsPrevSet(h5, h4, s[1], i)
                 /\ p # 1 /\ next # NULL => h5 = h4
  BY DEF IsPrevSet, IsChildSet
<1>13. PICK h6 : IsNextSet(h6, h5, item, NULL)
  BY DEF IsNextSet
<1>14. PICK h7 : IsPrevSet(h7, h6, item, NULL)
  BY DEF IsPrevSet
<1>15. l = 1 => p = 1
  BY <1>3
<1>16. /\ h1 \in Heap /\ Kept(h1, h)
       /\ \A m \in Nodes : /\ h1[m].next = IF m = i THEN next ELSE h[m].next
                           /\ h1[m].prev = h[m].prev /\ h1[m].child = h[m].child
  BY <1>1, <1>2, <1>7, <1>8, SetNext
<1>17. /\ h2 \in Heap /\ Kept(h2, h1)
       /\ \A m \in Nodes : /\ h2[m].prev = IF m = i THEN prev ELSE h1[m].prev
                           /\ h2[m].next = h1[m].next /\ h2[m].child = h1[m].child
  BY <1>2, <1>7, <1>9, <1>16, SetPrev
<1>18. /\ h3 \in Heap /\ Kept(h3, h2)
       /\ \A m \in Nodes : /\ h3[m].prev = IF next # NULL /\ m = next THEN i ELSE h2[m].prev
                           /\ h3[m].next = h2[m].next /\ h3[m].child = h2[m].child
  <2>1. CASE next = NULL
    BY <1>10, <1>17, <2>1 DEF Kept
  <2>2. CASE next # NULL
    <3>1. /\ h3 \in Heap /\ Kept(h3, h2)
          /\ \A m \in Nodes : /\ h3[m].prev = IF m = next THEN i ELSE h2[m].prev
                              /\ h3[m].next = h2[m].next /\ h3[m].child = h2[m].child
      BY <1>7, <1>10, <1>17, <2>2, SetPrev
    <3> QED  BY <2>2, <3>1
  <2> QED  BY <2>1, <2>2
<1>19. /\ h4 \in Heap /\ Kept(h4, h3)
       /\ \A m \in Nodes : /\ h4[m].prev = IF l = 1 /\ m = i THEN i ELSE h3[m].prev
                           /\ h4[m].next = IF p # 1 /\ m = prev THEN i ELSE h3[m].next
                           /\ h4[m].child = h3[m].child
  <2>1. CASE l = 1
    <3>1. /\ h4 \in Heap /\ Kept(h4, h3)
          /\ \A m \in Nodes : /\ h4[m].prev = IF m = i THEN i ELSE h3[m].prev
                              /\ h4[m].next = h3[m].next /\ h4[m].child = h3[m].child
      BY <1>2, <1>7, <1>11, <1>18, <2>1, SetPrev
    <3> QED  BY <1>15, <2>1, <3>1
  <2>2. CASE l # 1 /\ p # 1
    <3>1. /\ h4 \in Heap /\ Kept(h4, h3)
          /\ \A m \in Nodes : /\ h4[m].next = IF m = prev THEN i ELSE h3[m].next
                              /\ h4[m].prev = h3[m].prev /\ h4[m].child = h3[m].child
      BY <1>7, <1>11, <1>18, <2>2, SetNext
    <3> QED  BY <2>2, <3>1
  <2>3. CASE l # 1 /\ p = 1
    BY <1>11, <1>18, <2>3 DEF Kept
  <2> QED  BY <2>1, <2>2, <2>3
<1>20. /\ h5 \in Heap /\ Kept(h5, h4)
       /\ \A m \in Nodes : /\ h5[m].child = IF p = 1 /\ m = n THEN i ELSE h4[m].child
                           /\ h5[m].prev = IF p # 1 /\ next = NULL /\ m = s[1] THEN i ELSE h4[m].prev
                           /\ h5[m].next = h4[m].next
  <2>1. CASE p = 1
    <3>1. /\ h5 \in Heap /\ Kept(h5, h4)
          /\ \A m \in Nodes : /\ h5[m].child = IF m = n THEN i ELSE h4[m].child
                              /\ h5[m].next = h4[m].next /\ h5[m].prev = h4[m].prev
      BY <1>7, <1>12, <1>19, <2>1, SetChild
    <3> QED  BY <2>1, <3>1
  <2>2. CASE p # 1 /\ next = NULL
    <3>1. /\ h5 \in Heap /\ Kept(h5, h4)
          /\ \A m \in Nodes : /\ h5[m].prev = IF m = s[1] THEN i ELSE h4[m].prev
                              /\ h5[m].next = h4[m].next /\ h5[m].child = h4[m].child
      BY <1>3, <1>7, <1>12, <1>19, <2>2, SetPrev
    <3> QED  BY <2>2, <3>1
  <2>3. CASE p # 1 /\ next # NULL
    BY <1>12, <1>19, <2>3 DEF Kept
  <2> QED  BY <2>1, <2>2, <2>3
<1>21. /\ h6 \in Heap /\ Kept(h6, h5)
       /\ \A m \in Nodes : /\ h6[m].next = IF m = item THEN NULL ELSE h5[m].next
                           /\ h6[m].prev = h5[m].prev /\ h6[m].child = h5[m].child
  BY <1>3, <1>7, <1>13, <1>20, SetNext
<1>22. /\ h7 \in Heap /\ Kept(h7, h6)
       /\ \A m \in Nodes : /\ h7[m].prev = IF m = item THEN NULL ELSE h6[m].prev
                           /\ h7[m].next = h6[m].next /\ h7[m].child = h6[m].child
  BY <1>3, <1>7, <1>14, <1>21, SetPrev
<1>23. g = h7
  <2>1. h3[n].child = s[1] /\ h3[item].prev = prev /\ h4[n].child = s[1]
    BY <1>3, <1>6, <1>7, <1>16, <1>17, <1>18, <1>19
  <2> DEFINE A == [h EXCEPT ![i].next = h[item].next, ![i].prev = h[item].prev]
             B(x) == IF h[item].next = NULL THEN x ELSE [x EXCEPT ![h[item].next].prev = i]
             C(x) == IF h[item].prev = NULL THEN x ELSE [x EXCEPT ![h[item].prev].next = i]
             D(x) == IF h[item].next = NULL THEN [x EXCEPT ![x[n].child].prev = i] ELSE x
             E(x) == IF x[n].child = item
                     THEN IF x[item].prev = item THEN [x EXCEPT ![i].prev = i, ![n].child = i]
                          ELSE [x EXCEPT ![n].child = i]
                     ELSE D(C(x))
             F(x) == [x EXCEPT ![item].next = NULL, ![item].prev = NULL]
  <2>2. g = F(E(B(A)))
    BY DEF Exchanged
  <2>3. A = h2
    BY <1>6, <1>8, <1>9 DEF IsNextSet, IsPrevSet
  <2>4. B(h2) = h3
    BY <1>6, <1>10 DEF IsPrevSet
  <2>5. F(h5) = h7
    BY <1>13, <1>14 DEF IsNextSet, IsPrevSet
  <2>6. C(h3) = IF l # 1 /\ p # 1 THEN h4 ELSE C(h3)
    BY <1>6, <1>7, <1>11 DEF IsNextSet
  <2>7. p # 1 => D(h4) = h5
    BY <1>6, <1>12, <2>1 DEF IsPrevSet
  <2> HIDE DEF A, B, C, D, F
  <2>8. E(h3) = h5
    <3>1. CASE l = 1
      <4>1. h5 = [h3 EXCEPT ![i].prev = i, ![n].child = i]
        BY <1>11, <1>12, <1>15, <3>1 DEF IsPrevSet, IsChildSet
      <4> QED  BY <1>6, <1>7, <1>15, <2>1, <3>1, <4>1
    <3>2. CASE l # 1 /\ p = 1
      <4>1. h5 = [h3 EXCEPT ![n].child = i]
        BY <1>11, <1>12, <3>2 DEF IsChildSet
      <4> QED  BY <1>6, <1>7, <2>1, <3>2, <4>1
    <3>3. CASE l # 1 /\ p # 1
      BY <1>6, <2>1, <2>6, <2>7, <3>3
    <3> QED  BY <3>1, <3>2, <3>3
  <2> HIDE DEF E
  <2> QED  BY <2>2, <2>3, <2>4, <2>5, <2>8
<1>24. /\ \A m \in Nodes :
            /\ g[m].next = IF m = item THEN NULL ELSE IF p # 1 /\ m = prev THEN i
                           ELSE IF m = i THEN next ELSE h[m].next
            /\ g[m].prev = IF m = item THEN NULL
                           ELSE IF p # 1 /\ next = NULL /\ m = s[1] THEN i
                           ELSE IF l = 1 /\ m = i THEN i
                           ELSE IF next # NULL /\ m = next THEN i
                           ELSE IF m = i THEN prev ELSE h[m].prev
            /\ g[m].child = IF p = 1 /\ m = n THEN i ELSE h[m].child
       /\ g \in Heap /\ Kept(g, h)
  <2>1. g \in Heap /\ Kept(g, h)
    BY <1>16, <1>17, <1>18, <1>19, <1>20, <1>21, <1>22, <1>23 DEF Kept
  <2>2. \A m \in Nodes : g[m].next = IF m = item THEN NULL ELSE IF p # 1 /\ m = prev THEN i
                                     ELSE IF m = i THEN next ELSE h[m].next
    BY <1>16, <1>17, <1>18, <1>19, <1>20, <1>21, <1>22, <1>23
  <2>3. \A m \in Nodes : h3[m].prev = IF next # NULL /\ m = next THEN i ELSE IF m = i THEN prev ELSE h[m].prev
    BY <1>16, <1>17, <1>18
  <2>4. \A m \in Nodes : g[m].prev = IF m = item THEN NULL
                                     ELSE IF p # 1 /\ next = NULL /\ m = s[1] THEN i
                                     ELSE IF l = 1 /\ m = i THEN i ELSE h3[m].prev
    BY <1>19, <1>20, <1>21, <1>22, <1>23
  <2>5. \A m \in Nodes : g[m].child = IF p = 1 /\ m = n THEN i ELSE h[m].child
    BY <1>16, <1>17, <1>18, <1>19, <1>20, <1>21, <1>22, <1>23
  <2> QED  BY <2>1, <2>2, <2>3, <2>4, <2>5
<1>25. t # <<>> /\ 1 \in 1 .. Len(t) /\ t[1] = (IF p = 1 THEN i ELSE s[1]) /\ p \in 1 .. Len(t) /\ t[p] = i
  BY <1>1, <1>3, <1>4
<1>26. g[n].child = First(t)
  BY <1>6, <1>24, <1>25 DEF First
<1>27. Chain(g, t)
  <2> SUFFICES ASSUME NEW k \in 1 .. Len(t)
               PROVE  /\ g[t[k]].prev = t[IF k = 1 THEN Len(t) ELSE k - 1]
                      /\ g[t[k]].next = IF k = Len(t) THEN NULL ELSE t[k + 1]
    BY DEF Chain
  <2>0. k \in 1 .. l
    BY <1>4
  <2>1. CASE k = p
    <3>1. g[i].next = next
      BY <1>2, <1>7, <1>24
    <3>2. p # l => t[p + 1] = s[p + 1]
      BY <1>3, <1>4, <1>7
    <3>3. p # 1 => t[p - 1] = s[p - 1]
      BY <1>3, <1>4, <1>7
    <3>4. l # 1 /\ p = 1 => t[l] = s[l]
      BY <1>3, <1>4
    <3>5. g[i].prev = IF l = 1 THEN i ELSE prev
      BY <1>1, <1>2, <1>3, <1>7, <1>24
    <3>6. g[t[k]].next = IF k = Len(t) THEN NULL ELSE t[k + 1]
      BY <1>4, <1>25, <2>1, <3>1, <3>2 DEF next
    <3>7. g[t[k]].prev = t[IF k = 1 THEN Len(t) ELSE k - 1]
      <4>1. CASE l = 1
        BY <1>4, <1>15, <1>25, <2>1, <3>5, <4>1
      <4>2. CASE l # 1
        BY <1>4, <1>25, <2>1, <3>3, <3>4, <3>5, <4>2 DEF prev
      <4> QED  BY <4>1, <4>2
    <3> QED  BY <3>6, <3>7
  <2>2. CASE k # p
    <3>1. t[k] = s[k] /\ s[k] \in Nodes /\ s[k] # i /\ s[k] # item
      BY <1>1, <1>3, <1>4, <2>0, <2>2 DEF Injective
    <3>2. /\ h[s[k]].prev = s[IF k = 1 THEN l ELSE k - 1]
          /\ h[s[k]].next = IF k = l THEN NULL ELSE s[k + 1]
      BY <1>1, <2>0 DEF Chain
    <3>3. /\ p # 1 => (s[k] = prev <=> k = p - 1)
          /\ next # NULL => (s[k] = next <=> k = p + 1)
          /\ s[k] = s[1] <=> k = 1
      BY <1>1, <1>3, <1>7, <2>0 DEF Injective, prev, next
    <3>4. g[s[k]].next = IF k = Len(t) THEN NULL ELSE t[k + 1]
      <4>1. CASE k = p - 1
        <5>1. p # 1 /\ k # Len(t) /\ k + 1 = p
          BY <1>3, <1>4, <2>0, <4>1
        <5> QED  BY <1>24, <1>25, <3>1, <3>3, <4>1, <5>1
      <4>2. CASE k # p - 1
        <5>1. k # l => k + 1 \in 1 .. Len(t) /\ k + 1 # p
          BY <1>1, <1>3, <1>4, <2>0, <4>2
        <5>2. k # l => t[k + 1] = s[k + 1]
          BY <1>4, <5>1
        <5>3. g[s[k]].next = IF k = l THEN NULL ELSE s[k + 1]
          BY <1>24, <3>1, <3>2, <3>3, <4>2
        <5> QED  BY <1>4, <5>2, <5>3
      <4> QED  BY <4>1, <4>2
    <3>5. g[s[k]].prev = t[IF k = 1 THEN Len(t) ELSE k - 1]
      <4>1. CASE next # NULL /\ k = p + 1
        <5>1. k # 1 /\ k - 1 = p
          BY <1>3, <4>1
        <5> QED  BY <1>24, <1>25, <3>1, <3>3, <4>1, <5>1
      <4>2. CASE p # 1 /\ next = NULL /\ k = 1
        BY <1>4, <1>7, <1>24, <1>25, <3>1, <4>2
      <4>3. CASE ~(next # NULL /\ k = p + 1) /\ ~(p # 1 /\ next = NULL /\ k = 1)
        <5>1. g[s[k]].prev = s[IF k = 1 THEN l ELSE k - 1]
          BY <1>24, <3>1, <3>2, <3>3, <4>3
        <5>2. CASE k = 1
          <6>1. l # p
            BY <1>7, <2>2, <4>3, <5>2
          <6>2. l \in 1 .. Len(t)
            BY <1>3, <1>4
          <6> QED  BY <1>4, <5>1, <5>2, <6>1, <6>2
        <5>3. CASE k # 1
          <6>1. k - 1 \in 1 .. Len(t)
            BY <1>1, <1>4, <2>0, <5>3
          <6>2. k - 1 # p
            <7>1. CASE next # NULL
              BY <1>3, <2>0, <4>3, <7>1
            <7>2. CASE next = NULL
              BY <1>3, <1>7, <2>0, <7>2
            <7> QED  BY <7>1, <7>2
          <6> QED  BY <1>4, <5>1, <5>3, <6>1, <6>2
        <5> QED  BY <5>2, <5>3
      <4> QED  BY <4>1, <4>2, <4>3
    <3> QED  BY <3>1, <3>4, <3>5
  <2> QED  BY <2>1, <2>2
<1>28. \A m \in Nodes : ~In(m, t) => /\ m # i /\ (In(m, s) <=> m = item)
                                     /\ m # item => m # prev /\ (next # NULL => m # next) /\ m # s[1]
  <2>1. In(prev, s) /\ In(item, s) /\ (next # NULL => In(next, s)) /\ In(s[1], s)
    BY <1>3, <1>7 DEF In, prev, next
  <2> QED  BY <1>4, <2>1
<1>29. \A m \in Nodes : ~In(m, t) => IF In(m, s) THEN g[m].next = NULL /\ g[m].prev = NULL
                                   ELSE g[m].next = h[m].next /\ g[m].prev = h[m].prev
  BY <1>24, <1>28
<1> QED  BY <1>0, <1>4, <1>5, <1>24, <1>26, <1>27, <1>29 DEF Rewired, Kept
============================================================================
