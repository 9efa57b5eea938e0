--------------------------- MODULE JsonTreeProofs ---------------------------
(***************************************************************************)
(* Theorems about JsonTree, for any number of items, keys and references:  *)
(* the invariant says that the heap is sound (its pointers lead to lists   *)
(* that are trees, whose items have one owner) and that its keys are       *)
(* counted.  Each call keeps it and is a step of JsonForest.               *)
(***************************************************************************)
EXTENDS JsonTreeShape

---------------------------------------------------------------------------
(* A sound heap: its pointers are the lists they lead to, and these are trees. *)
Sound(h, H) == Shape(h, H, Lists(h)) /\ Acyclic(Lists(h))

\* Lists that have the shape of a heap are the ones its pointers lead to.
LEMMA SoundIs ==
  ASSUME NEW h, NEW H, NEW K, Shape(h, H, K), Acyclic(K)
  PROVE  Sound(h, H) /\ Lists(h) = K
<1>1. Lists(h) = K
  BY ListsAre
<1> QED  BY <1>1 DEF Sound

\* In a sound heap Kids finds the lists, and Subtree what is below an item.
LEMMA SoundFacts ==
  ASSUME NEW h, NEW H, Sound(h, H), NEW K, K = Lists(h)
  PROVE  /\ h \in Heap /\ H \in SUBSET Nodes /\ K \in [Nodes -> Seq(Nodes)] /\ Shape(h, H, K) /\ Acyclic(K)
         /\ \A n \in Nodes : Holds(h, n) => Kids(h, n) = K[n] /\ Range(Kids(h, n)) = {x \in Nodes : In(x, K[n])}
         /\ \A n \in Nodes : h[n].live => Subtree(h, n) = Below(K, n)
<1>1. h \in Heap /\ H \in SUBSET Nodes /\ K \in [Nodes -> Seq(Nodes)] /\ Shape(h, H, K) /\ Acyclic(K)
  BY DEF Sound, Shape
<1>2. ASSUME NEW n \in Nodes, Holds(h, n)
      PROVE  Kids(h, n) = K[n] /\ Range(Kids(h, n)) = {x \in Nodes : In(x, K[n])}
  <2>1. Kids(h, n) = K[n]
    BY <1>1, <1>2, ListsAre
  <2>2. K[n] \in Seq(Nodes)
    BY <1>1
  <2> QED  BY <2>1, <2>2 DEF Range, In
<1>3. \A n \in Nodes : h[n].live => Subtree(h, n) = Below(K, n)
  BY <1>1, SubtreeBelow
<1> QED  BY <1>1, <1>2, <1>3

\* What the caller holds when list s has become t.
HandAfter(H, s, t) == {m \in H : ~In(m, t)} \cup {m \in Nodes : In(m, s) /\ ~In(m, t)}

\* No reference points elsewhere.
Aimed(g, h) == \A m \in Nodes : h[m].ref => g[m].child = h[m].child

\* A list that is linked anew, none of its new items above it.
LEMMA RewireSound ==
  ASSUME NEW h, NEW H, Sound(h, H), NEW K, K = Lists(h), NEW n \in Nodes, Holds(h, n),
         NEW t \in Seq(Nodes), Injective(t),
         \A k \in 1 .. Len(t) : In(t[k], K[n]) \/ (t[k] \in H /\ n \notin Below(K, t[k])),
         NEW g, Rewired(g, h, n, K[n], t)
  PROVE  Sound(g, HandAfter(H, K[n], t)) /\ Lists(g) = [K EXCEPT ![n] = t] /\ Kept(g, h) /\ Aimed(g, h)
<1> DEFINE L == [K EXCEPT ![n] = t]
           G == HandAfter(H, K[n], t)
<1>1. Shape(h, H, K) /\ Acyclic(K) /\ K \in [Nodes -> Seq(Nodes)]
  BY DEF Sound, Shape
<1>2. Shape(g, G, L)
  BY <1>1, Rewire DEF HandAfter
<1>3. Acyclic(L)
  BY <1>1, RowAcyclic
<1>4. Sound(g, G) /\ Lists(g) = L
  BY <1>2, <1>3, SoundIs
<1>5. Aimed(g, h)
  BY DEF Rewired, Holds, Aimed
<1> QED  BY <1>4, <1>5 DEF Rewired, Kept

\* What becomes of the lists: L is K with one row changed.
Appended(L, K, n, i) == L = [K EXCEPT ![n] = Append(K[n], i)]
Inserted(L, K, n, p, i) == L = [K EXCEPT ![n] = InsertAt(K[n], p, i)]
Removed(L, K, n, p) == L = [K EXCEPT ![n] = RemoveAt(K[n], p)]
Exchanging(L, K, n, p, i) == L = [K EXCEPT ![n] = ReplaceAt(K[n], p, i)]

\* An item in hand goes into the list of an item that is not below it.
MayAdd(h, H, n, i) ==
  Sound(h, H) /\ n \in Nodes /\ Holds(h, n) /\ i \in H /\ n \notin Below(Lists(h), i)
Adds(h, H, n, i, g) == MayAdd(h, H, n, i) /\ g = add_item_to_array(h, n, i)
\* add_item_to_array appends the item, and the heap stays sound.
LEMMA AddSound ==
  ASSUME NEW h, NEW H, NEW n, NEW i, NEW g, Adds(h, H, n, i, g)
  PROVE  Sound(g, H \ {i}) /\ Appended(Lists(g), Lists(h), n, i) /\ Kept(g, h)
<1> PICK K : K = Lists(h)
  OBVIOUS
<1>0. Sound(h, H) /\ n \in Nodes /\ Holds(h, n) /\ i \in H /\ n \notin Below(K, i) /\ g = add_item_to_array(h, n, i)
  BY DEF Adds, MayAdd
<1> USE <1>0
<1> DEFINE t == Append(K[n], i)
           G == HandAfter(H, K[n], t)
<1>1. Shape(h, H, K) /\ H \in SUBSET Nodes /\ K[n] \in Seq(Nodes) /\ i \in Nodes
  BY DEF Sound, Shape
<1>2. Rewired(g, h, n, K[n], t) /\ t \in Seq(Nodes) /\ Injective(t)
  BY <1>1, AppendRewires
<1>3. \A x : In(x, t) <=> In(x, K[n]) \/ x = i
  BY <1>1, AppendIs
<1> HIDE DEF t
<1>4. \A k \in 1 .. Len(t) : In(t[k], K[n]) \/ (t[k] \in H /\ n \notin Below(K, t[k]))
  <2>1. \A k \in 1 .. Len(t) : In(t[k], t)
    BY DEF In
  <2> QED  BY <1>3, <2>1
<1>5. G = H \ {i}
  <2>1. \A m \in H : ~In(m, K[n])
    BY <1>1, HandFacts
  <2>2. {m \in Nodes : In(m, K[n]) /\ ~In(m, t)} = {}
    BY <1>3
  <2>3. {m \in H : ~In(m, t)} = H \ {i}
    BY <1>1, <1>3, <2>1
  <2>4. G = {m \in H : ~In(m, t)} \cup {m \in Nodes : In(m, K[n]) /\ ~In(m, t)}
    BY DEF HandAfter, G
  <2> QED  BY <2>2, <2>3, <2>4
<1>6. Sound(g, G) /\ Lists(g) = [K EXCEPT ![n] = t] /\ Kept(g, h)
  BY <1>2, <1>4, RewireSound
<1> QED  BY <1>5, <1>6 DEF t, Appended

Inserts(h, H, n, p, i, g) ==
  MayAdd(h, H, n, i) /\ p \in 1 .. Len(Lists(h)[n]) /\ g = Linked(h, n, Lists(h)[n][p], i)
\* Linked puts the item before the one at place p, and the heap stays sound.
LEMMA InsertSound ==
  ASSUME NEW h, NEW H, NEW n, NEW p, NEW i, NEW g, Inserts(h, H, n, p, i, g)
  PROVE  Sound(g, H \ {i}) /\ Inserted(Lists(g), Lists(h), n, p, i) /\ Kept(g, h)
<1> PICK K : K = Lists(h)
  OBVIOUS
<1>0. /\ Sound(h, H) /\ n \in Nodes /\ Holds(h, n) /\ i \in H /\ n \notin Below(K, i)
      /\ p \in 1 .. Len(K[n]) /\ g = Linked(h, n, K[n][p], i)
  BY DEF Inserts, MayAdd
<1> USE <1>0
<1> DEFINE t == InsertAt(K[n], p, i)
           G == HandAfter(H, K[n], t)
<1>1. Shape(h, H, K) /\ H \in SUBSET Nodes /\ K[n] \in Seq(Nodes) /\ i \in Nodes
  BY DEF Sound, Shape
<1>2. Rewired(g, h, n, K[n], t) /\ t \in Seq(Nodes) /\ Injective(t)
  BY <1>1, LinkedRewires
<1>3. \A x : In(x, t) <=> In(x, K[n]) \/ x = i
  BY <1>1, InsertAtIs
<1> HIDE DEF t
<1>4. \A k \in 1 .. Len(t) : In(t[k], K[n]) \/ (t[k] \in H /\ n \notin Below(K, t[k]))
  <2>1. \A k \in 1 .. Len(t) : In(t[k], t)
    BY DEF In
  <2> QED  BY <1>3, <2>1
<1>5. G = H \ {i}
  <2>1. \A m \in H : ~In(m, K[n])
    BY <1>1, HandFacts
  <2>2. {m \in Nodes : In(m, K[n]) /\ ~In(m, t)} = {}
    BY <1>3
  <2>3. {m \in H : ~In(m, t)} = H \ {i}
    BY <1>1, <1>3, <2>1
  <2>4. G = {m \in H : ~In(m, t)} \cup {m \in Nodes : In(m, K[n]) /\ ~In(m, t)}
    BY DEF HandAfter, G
  <2> QED  BY <2>2, <2>3, <2>4
<1>6. Sound(g, G) /\ Lists(g) = [K EXCEPT ![n] = t] /\ Kept(g, h)
  BY <1>2, <1>4, RewireSound, SMTT(30)
<1> QED  BY <1>5, <1>6 DEF t, Inserted

\* An item is taken from its place p in the list of n.
Unlinks(h, H, n, p, i, g) ==
  /\ Sound(h, H) /\ n \in Nodes /\ Holds(h, n)
  /\ p \in 1 .. Len(Lists(h)[n]) /\ i = Lists(h)[n][p] /\ g = Unlink(h, n, i)
\* Unlink takes the item at place p out, with all below it, and the heap stays sound.
LEMMA UnlinkSound ==
  ASSUME NEW h, NEW H, NEW n, NEW p, NEW i, NEW g, Unlinks(h, H, n, p, i, g)
  PROVE  /\ Sound(g, H \cup {i}) /\ Removed(Lists(g), Lists(h), n, p) /\ Kept(g, h) /\ Aimed(g, h)
         /\ i \in Nodes /\ i \notin H /\ h[i].live
         /\ Below(Lists(g), i) = Below(Lists(h), i) /\ n \notin Below(Lists(h), i)
<1> PICK K : K = Lists(h)
  OBVIOUS
<1>0. /\ Sound(h, H) /\ n \in Nodes /\ Holds(h, n) /\ g = Unlink(h, n, i)
      /\ p \in 1 .. Len(K[n]) /\ i = K[n][p]
  BY DEF Unlinks
<1> USE <1>0
<1> DEFINE t == RemoveAt(K[n], p)
           G == HandAfter(H, K[n], t)
           L == [K EXCEPT ![n] = t]
<1>1. Shape(h, H, K) /\ H \in SUBSET Nodes /\ K \in [Nodes -> Seq(Nodes)] /\ Acyclic(K)
  BY DEF Sound, Shape
<1>2. Rewired(g, h, n, K[n], t) /\ t \in Seq(Nodes) /\ Injective(t)
  BY <1>1, UnlinkRewires
<1>3. K[n] \in Seq(Nodes) /\ Injective(K[n]) /\ i \in Nodes /\ i \notin H /\ In(i, K[n]) /\ h[i].live
  BY <1>1, RowFacts DEF In, Shape, Listed
<1>4. \A x : In(x, t) <=> In(x, K[n]) /\ x # i
  BY <1>3, RemoveAtIs
<1> HIDE DEF t
<1>5. \A k \in 1 .. Len(t) : In(t[k], K[n]) \/ (t[k] \in H /\ n \notin Below(K, t[k]))
  <2>1. \A k \in 1 .. Len(t) : In(t[k], t)
    BY DEF In
  <2> QED  BY <1>4, <2>1
<1>6. G = H \cup {i}
  <2>1. \A m \in H : ~In(m, K[n])
    BY <1>1, HandFacts
  <2> QED  BY <1>1, <1>3, <1>4, <2>1 DEF HandAfter
<1>7. Sound(g, G) /\ Lists(g) = L /\ Kept(g, h) /\ Aimed(g, h)
  BY <1>2, <1>5, RewireSound
<1>8. n \notin Below(K, i)
  BY <1>1, <1>3, NotBelowItself
<1>9. Below(L, i) = Below(K, i)
  <2>1. \A m \in Nodes : m # n => L[m] = K[m]
    BY <1>1
  <2> HIDE DEF L
  <2> QED  BY <1>3, <1>8, <2>1, BelowSame
<1> QED  BY <1>3, <1>6, <1>7, <1>8, <1>9 DEF t, Removed

Exchanges(h, H, n, p, item, i, g) ==
  /\ MayAdd(h, H, n, i) /\ p \in 1 .. Len(Lists(h)[n]) /\ item = Lists(h)[n][p]
  /\ g = Exchanged(h, n, item, i)
\* Exchanged puts the item for the one at place p, which is linked to nothing then.
LEMMA ExchangedSound ==
  ASSUME NEW h, NEW H, NEW n, NEW p, NEW item, NEW i, NEW g, Exchanges(h, H, n, p, item, i, g)
  PROVE  /\ Sound(g, (H \ {i}) \cup {item}) /\ Kept(g, h) /\ Aimed(g, h)
         /\ Exchanging(Lists(g), Lists(h), n, p, i)
         /\ item \in Nodes /\ item \notin H /\ h[item].live
         /\ Below(Lists(g), item) = Below(Lists(h), item) /\ n \notin Below(Lists(h), item)
<1> PICK K : K = Lists(h)
  OBVIOUS
<1>0. /\ Sound(h, H) /\ n \in Nodes /\ Holds(h, n) /\ i \in H /\ n \notin Below(K, i)
      /\ p \in 1 .. Len(K[n]) /\ item = K[n][p] /\ g = Exchanged(h, n, item, i)
  BY DEF Exchanges, MayAdd
<1> USE <1>0
<1> DEFINE t == ReplaceAt(K[n], p, i)
           G == HandAfter(H, K[n], t)
           L == [K EXCEPT ![n] = t]
<1>1. Shape(h, H, K) /\ H \in SUBSET Nodes /\ K \in [Nodes -> Seq(Nodes)] /\ Acyclic(K) /\ i \in Nodes
  BY DEF Sound, Shape
<1>2. Rewired(g, h, n, K[n], t) /\ t \in Seq(Nodes) /\ Injective(t)
  BY <1>1, ExchangedRewires
<1>3. K[n] \in Seq(Nodes) /\ Injective(K[n]) /\ item \in Nodes /\ item \notin H /\ In(item, K[n]) /\ h[item].live
  BY <1>1, RowFacts DEF In, Shape, Listed
<1>4. \A x : In(x, t) <=> (In(x, K[n]) /\ x # item) \/ x = i
  <2>1. PICK s : s = K[n]
    OBVIOUS
  <2>2. s \in Seq(Nodes) /\ Injective(s) /\ p \in 1 .. Len(s) /\ i \in Nodes
    BY <1>1, <1>3, <2>1
  <2>3. LET u == ReplaceAt(s, p, i) IN
        /\ u \in Seq(Nodes) /\ Len(s) \in Nat /\ Len(u) = Len(s)
        /\ \A k \in 1 .. Len(u) : u[k] = IF k = p THEN i ELSE s[k]
        /\ \A x : In(x, u) <=> (In(x, s) /\ x # s[p]) \/ x = i
    BY <2>2, ReplaceAtIs
  <2> QED  BY <2>1, <2>3
<1> HIDE DEF t
<1>5. \A k \in 1 .. Len(t) : In(t[k], K[n]) \/ (t[k] \in H /\ n \notin Below(K, t[k]))
  <2>1. \A k \in 1 .. Len(t) : In(t[k], t)
    BY DEF In
  <2> QED  BY <1>4, <2>1
<1>6. G = (H \ {i}) \cup {item}
  <2>1. \A m \in H : ~In(m, K[n])
    BY <1>1, HandFacts
  <2> QED  BY <1>1, <1>3, <1>4, <2>1 DEF HandAfter
<1>7. Sound(g, G) /\ Lists(g) = L /\ Kept(g, h) /\ Aimed(g, h)
  BY <1>2, <1>5, RewireSound
<1>8. n \notin Below(K, item)
  BY <1>1, <1>3, NotBelowItself
<1>9. Below(L, item) = Below(K, item)
  <2>1. \A m \in Nodes : m # n => L[m] = K[m]
    BY <1>1
  <2> HIDE DEF L
  <2> QED  BY <1>3, <1>8, <2>1, BelowSame
<1> QED  BY <1>3, <1>6, <1>7, <1>8, <1>9 DEF t, Exchanging

Gone(K, S) == [m \in Nodes |-> IF m \in S THEN <<>> ELSE K[m]]

\* What is below an item in hand is deleted, nothing else pointing to it.
Clears(h, H, i, g) ==
  /\ Sound(h, H) /\ i \in H
  /\ \A r \in Nodes \ Below(Lists(h), i) : h[r].live /\ h[r].ref => h[r].child \notin Below(Lists(h), i)
  /\ g = [m \in Nodes |-> IF m \in Below(Lists(h), i) THEN Blank ELSE h[m]]
\* What is below an item in hand is freed, and the heap stays sound if nothing points there.
LEMMA ClearedSound ==
  ASSUME NEW h, NEW H, NEW i, NEW g, Clears(h, H, i, g)
  PROVE  /\ Sound(g, H \ {i}) /\ Lists(g) = Gone(Lists(h), Below(Lists(h), i))
         /\ Reached(h, i) = Below(Lists(h), i)
<1> PICK K : K = Lists(h)
  OBVIOUS
<1> PICK S : S = Below(K, i)
  OBVIOUS
<1>0. /\ Sound(h, H) /\ i \in H /\ \A r \in Nodes \ S : h[r].live /\ h[r].ref => h[r].child \notin S
      /\ g = [m \in Nodes |-> IF m \in S THEN Blank ELSE h[m]]
  BY DEF Clears
<1> USE <1>0
<1> DEFINE L == [m \in Nodes |-> IF m \in S THEN <<>> ELSE K[m]]
<1>1. Shape(h, H, K) /\ Acyclic(K)
  BY DEF Sound
<1>2. Shape(g, H \ {i}, L) /\ Reached(h, i) = S
  BY <1>1, Cleared
<1>3. Acyclic(L)
  <2>1. \A x : \A m \in Nodes : In(x, L[m]) => In(x, K[m])
    BY DEF In
  <2> HIDE DEF L
  <2> QED  BY <1>1, <2>1, Zenon DEF Acyclic
<1> HIDE DEF L
<1>4. Sound(g, H \ {i}) /\ Lists(g) = L
  BY <1>2, <1>3, SoundIs
<1> QED  BY <1>2, <1>4 DEF L, Gone

Makes(h, H, new, x, g) ==
  Sound(h, H) /\ new \in Nodes /\ ~h[new].live /\ Fresh(h, x) /\ IsMade(g, h, new, x)
\* A new item comes into the hand, or is a lost reference without a key; no list changes.
LEMMA NewSound ==
  ASSUME NEW h, NEW H, NEW new, NEW x, NEW g, Makes(h, H, new, x, g)
  PROVE  /\ Sound(g, H \cup {new}) /\ Lists(g) = Lists(h)
         /\ Lists(h)[new] = <<>> /\ ~Owned(Lists(h), new) /\ new \notin H
         /\ (x.ref /\ x.key = "none" => Sound(g, H))
<1> DEFINE K == Lists(h)
<1>0. Sound(h, H) /\ new \in Nodes /\ ~h[new].live /\ Fresh(h, x) /\ IsMade(g, h, new, x)
  BY DEF Makes
<1>1. Shape(h, H, K) /\ Acyclic(K) /\ h \in Heap
  BY <1>0 DEF Sound, Shape
<1> HIDE DEF K
<1>2. /\ Shape(g, H \cup {new}, K) /\ (x.ref /\ x.key = "none" => Shape(g, H, K))
      /\ K[new] = <<>> /\ ~Owned(K, new) /\ new \notin H
  BY <1>0, <1>1, NewItem
<1>3. Sound(g, H \cup {new}) /\ Lists(g) = K
  BY <1>1, <1>2, SoundIs
<1>4. x.ref /\ x.key = "none" => Sound(g, H)
  BY <1>1, <1>2, SoundIs
<1> QED  BY <1>1, <1>2, <1>3, <1>4 DEF K

\* A change of the key of an item in hand leaves the heap sound.
LEMMA KeySound ==
  ASSUME NEW h, NEW H, Sound(h, H), NEW i \in H, NEW g \in Heap,
         \A m \in Nodes : /\ g[m].live = h[m].live /\ g[m].ref = h[m].ref /\ g[m].next = h[m].next
                          /\ g[m].prev = h[m].prev /\ g[m].child = h[m].child
                          /\ m # i => g[m].key = h[m].key
  PROVE  Sound(g, H) /\ Lists(g) = Lists(h)
<1> DEFINE K == Lists(h)
<1>1. Shape(h, H, K) /\ Acyclic(K)
  BY DEF Sound
<1> HIDE DEF K
<1>2. Shape(g, H, K)
  BY <1>1, NewKey
<1>3. Sound(g, H) /\ Lists(g) = K
  BY <1>1, <1>2, SoundIs
<1> QED  BY <1>3 DEF K

\* cJSON_New_Item.
New == [Blank EXCEPT !.live = TRUE]
\* What cJSON_New_Item returns.
LEMMA NewIs ==
  /\ New \in Item /\ New.live /\ New.next = NULL /\ New.prev = NULL /\ New.child = NULL
  /\ ~New.ref /\ New.key = "none" /\ ~New.const
  /\ \A h : Target(h, NULL)
BY DEF New, Blank, Item, Links, Target

\* An item that was made, in hand and with nothing in it.
MakesItem(h, H, new, g) == Sound(h, H) /\ new \in Nodes /\ ~h[new].live /\ g = cJSON_New_Item(h, new)
\* cJSON_New_Item gives the caller an item with nothing in it.
LEMMA MadeSound ==
  ASSUME NEW h, NEW H, NEW new, NEW g, MakesItem(h, H, new, g)
  PROVE  /\ Sound(g, H \cup {new}) /\ Lists(g) = Lists(h)
         /\ Lists(h)[new] = <<>> /\ ~Owned(Lists(h), new) /\ new \notin H
<1>1. PICK x : x = New
  OBVIOUS
<1>2. Makes(h, H, new, x, g)
  BY <1>1, NewIs DEF Makes, MakesItem, Fresh, IsMade, cJSON_New_Item, New
<1> QED  BY <1>2, NewSound

\* It changes no other item.
LEMMA MadeIs ==
  ASSUME NEW h, NEW H, NEW new, NEW g, MakesItem(h, H, new, g)
  PROVE  h \in Heap /\ g \in Heap /\ g[new] = New /\ \A m \in Nodes : m # new => g[m] = h[m]
<1>1. h \in Heap /\ new \in Nodes /\ g = [h EXCEPT ![new] = New]
  BY DEF MakesItem, Sound, Shape, cJSON_New_Item, New
<1> QED  BY <1>1, NewIs DEF Heap

\* Nothing is below an item with nothing in it.
LEMMA BelowAlone ==
  ASSUME NEW K, NEW n \in Nodes, K[n] = <<>>
  PROVE  Below(K, n) = {n}
<1>1. Closed(K, {n})
  BY DEF Closed, In
<1> QED  BY <1>1, BelowIs

---------------------------------------------------------------------------
(* Keys. *)
HeapKeys(h) == {n \in Live(h) : h[n].key = "heap"}
Keyed(h, c) ==
  /\ \A n \in Nodes : /\ h[n].key = "heap" => ~h[n].const
                      /\ h[n].key = "const" => h[n].const
  /\ c = Cardinality(HeapKeys(h))

\* The items with a key on the heap can be counted.
LEMMA HeapKeysFinite ==
  ASSUME NEW h
  PROVE  HeapKeys(h) \in SUBSET Nodes /\ IsFiniteSet(HeapKeys(h)) /\ Cardinality(HeapKeys(h)) \in Nat
<1>1. HeapKeys(h) \in SUBSET Nodes
  BY DEF HeapKeys, Live
<1> QED  BY <1>1, SizeIs, FS_Subset, FS_CardinalityType

\* What keeps the keys keeps their number.
LEMMA KeptKeyed ==
  ASSUME NEW h, NEW c, Keyed(h, c), NEW g, Kept(g, h)
  PROVE  Keyed(g, c)
<1>1. HeapKeys(g) = HeapKeys(h)
  BY DEF HeapKeys, Live, Kept
<1> QED  BY <1>1 DEF Keyed, Kept

\* A new item has no key.
LEMMA NewKeyed ==
  ASSUME NEW h \in Heap, NEW c, Keyed(h, c), NEW new \in Nodes, ~h[new].live, NEW x \in Item, x.key = "none",
         NEW g, IsMade(g, h, new, x)
  PROVE  Keyed(g, c)
<1>1. g[new] = x /\ \A m \in Nodes : m # new => g[m] = h[m]
  BY DEF IsMade, Heap
<1>2. HeapKeys(g) = HeapKeys(h)
  BY <1>1 DEF HeapKeys, Live
<1> QED  BY <1>1, <1>2 DEF Keyed

\* So cJSON_New_Item keeps their number.
LEMMA MadeKeyed ==
  ASSUME NEW h, NEW H, NEW c, Keyed(h, c), NEW new, NEW g, MakesItem(h, H, new, g)
  PROVE  Keyed(g, c)
<1>1. h \in Heap /\ new \in Nodes /\ ~h[new].live /\ IsMade(g, h, new, New)
  BY DEF MakesItem, Sound, Shape, IsMade, cJSON_New_Item, New
<1> QED  BY <1>1, NewIs, NewKeyed

\* The keys cJSON_Delete frees.
LEMMA OwnKeysAre ==
  ASSUME NEW h \in Heap, NEW c, Keyed(h, c), NEW S \in SUBSET Live(h)
  PROVE  {m \in S : ~h[m].const /\ h[m].key # "none"} = HeapKeys(h) \cap S
BY DEF Keyed, HeapKeys, Live, Heap, Item

\* cJSON_Delete frees as many keys as go with their items.
LEMMA ClearedKeyed ==
  ASSUME NEW h \in Heap, NEW c, Keyed(h, c), NEW S \in SUBSET Live(h),
         NEW g, g = [m \in Nodes |-> IF m \in S THEN Blank ELSE h[m]]
  PROVE  Keyed(g, c - OwnKeys(h, S))
<1>1. OwnKeys(h, S) = Cardinality(HeapKeys(h) \cap S)
  BY OwnKeysAre DEF OwnKeys
<1>2. HeapKeys(g) = HeapKeys(h) \ S
  BY DEF HeapKeys, Live, Blank
<1>3. Cardinality(HeapKeys(h) \ S) = Cardinality(HeapKeys(h)) - Cardinality(HeapKeys(h) \cap S)
  BY HeapKeysFinite, FS_Difference
<1>4. \A n \in Nodes : /\ g[n].key = "heap" => ~g[n].const
                       /\ g[n].key = "const" => g[n].const
  BY DEF Keyed, Blank
<1> QED  BY <1>1, <1>2, <1>3, <1>4 DEF Keyed

\* Items are live or not and point where they did.
Points(g, h) == \A m \in Nodes : g[m].live = h[m].live /\ g[m].ref = h[m].ref /\ g[m].child = h[m].child

\* An item in hand gets a key for the one it had.
GivesKey(h, H, c, i, constant_key, mem) ==
  /\ Sound(h, H) /\ Keyed(h, c) /\ i \in H /\ constant_key \in BOOLEAN
  /\ mem = SetKey([heap |-> h, strings |-> c], i, constant_key)
\* A key given to an item in hand is counted for the one it frees; pointers stay.
LEMMA SetKeyKeyed ==
  ASSUME NEW h, NEW H, NEW c, NEW i, NEW constant_key, NEW mem, GivesKey(h, H, c, i, constant_key, mem)
  PROVE  /\ Sound(mem.heap, H) /\ Lists(mem.heap) = Lists(h) /\ Keyed(mem.heap, mem.strings)
         /\ Points(mem.heap, h)
<1>0. /\ Sound(h, H) /\ Keyed(h, c) /\ i \in H /\ constant_key \in BOOLEAN
      /\ mem = SetKey([heap |-> h, strings |-> c], i, constant_key)
  BY DEF GivesKey
<1> USE <1>0
<1> DEFINE key == IF constant_key THEN "const" ELSE "heap"
           freed == IF ~h[i].const /\ h[i].key # "none" THEN 1 ELSE 0
           g == [h EXCEPT ![i].key = key, ![i].const = constant_key]
<1>1. h \in Heap /\ i \in Nodes /\ h[i].live
  BY DEF Sound, Shape, Loose
<1>2. mem.heap = g /\ mem.strings = c - freed + IF constant_key THEN 0 ELSE 1
  BY DEF SetKey
<1>3. /\ g \in Heap /\ g[i].key = key /\ g[i].const = constant_key
      /\ \A m \in Nodes : /\ g[m].live = h[m].live /\ g[m].ref = h[m].ref /\ g[m].next = h[m].next
                          /\ g[m].prev = h[m].prev /\ g[m].child = h[m].child
                          /\ m # i => g[m].key = h[m].key /\ g[m].const = h[m].const
  BY <1>1 DEF Heap, Item
<1> HIDE DEF g
<1>4. Sound(g, H) /\ Lists(g) = Lists(h)
  BY <1>3, KeySound
<1>5. freed = IF i \in HeapKeys(h) THEN 1 ELSE 0
  BY <1>1 DEF Keyed, HeapKeys, Live, Heap, Item
<1>6. freed \in Int
  OBVIOUS
<1> HIDE DEF freed
<1>7. Cardinality(HeapKeys(g)) = mem.strings
  <2>1. c = Cardinality(HeapKeys(h)) /\ c \in Nat /\ IsFiniteSet(HeapKeys(h))
    BY HeapKeysFinite DEF Keyed
  <2>2. CASE constant_key
    <3>1. HeapKeys(g) = HeapKeys(h) \ {i}
      BY <1>1, <1>3, <2>2 DEF HeapKeys, Live
    <3>2. Cardinality(HeapKeys(h) \ {i}) = IF i \in HeapKeys(h) THEN Cardinality(HeapKeys(h)) - 1
                                           ELSE Cardinality(HeapKeys(h))
      BY <2>1, FS_RemoveElement
    <3>3. Cardinality(HeapKeys(h) \ {i}) = c - freed
      BY <1>5, <2>1, <3>2
    <3>4. mem.strings = (c - freed) + 0
      BY <1>2, <2>2
    <3>5. mem.strings = c - freed
      BY <1>6, <2>1, <3>4
    <3> QED  BY <3>1, <3>3, <3>5
  <2>3. CASE ~constant_key
    <3>1. HeapKeys(g) = HeapKeys(h) \cup {i}
      BY <1>1, <1>3, <2>3 DEF HeapKeys, Live
    <3>2. Cardinality(HeapKeys(h) \cup {i}) = IF i \in HeapKeys(h) THEN Cardinality(HeapKeys(h))
                                              ELSE Cardinality(HeapKeys(h)) + 1
      BY <2>1, FS_AddElement
    <3>3. Cardinality(HeapKeys(h) \cup {i}) = c - freed + 1
      BY <1>5, <2>1, <3>2
    <3> QED  BY <1>2, <1>6, <2>1, <2>3, <3>1, <3>3
  <2> QED  BY <2>2, <2>3
<1>8. \A n \in Nodes : /\ g[n].key = "heap" => ~g[n].const
                       /\ g[n].key = "const" => g[n].const
  BY <1>3 DEF Keyed
<1> QED  BY <1>2, <1>3, <1>4, <1>7, <1>8 DEF Keyed, Points

\* An item in hand whose new key cannot be copied has lost the one it had.
KeyLost(g, h, i) == g = [h EXCEPT ![i].key = "none"]
LosesKey(h, H, c, i, g, d) ==
  /\ Sound(h, H) /\ Keyed(h, c) /\ i \in H /\ KeyLost(g, h, i)
  /\ d = SetKey([heap |-> h, strings |-> c], i, FALSE).strings - 1
\* A key that cannot be copied leaves the item without one, and one key less.
LEMMA LostKeyKeyed ==
  ASSUME NEW h, NEW H, NEW c, NEW i, NEW g, NEW d, LosesKey(h, H, c, i, g, d)
  PROVE  Sound(g, H) /\ Lists(g) = Lists(h) /\ Keyed(g, d)
<1>0. /\ Sound(h, H) /\ Keyed(h, c) /\ i \in H /\ KeyLost(g, h, i)
      /\ d = SetKey([heap |-> h, strings |-> c], i, FALSE).strings - 1
  BY DEF LosesKey
<1> USE <1>0
<1> DEFINE freed == IF ~h[i].const /\ h[i].key # "none" THEN 1 ELSE 0
<1>1. h \in Heap /\ i \in Nodes /\ h[i].live
  BY DEF Sound, Shape, Loose
<1>2. /\ g \in Heap /\ g[i].key = "none"
      /\ \A m \in Nodes : /\ g[m].live = h[m].live /\ g[m].ref = h[m].ref /\ g[m].next = h[m].next
                          /\ g[m].prev = h[m].prev /\ g[m].child = h[m].child /\ g[m].const = h[m].const
                          /\ m # i => g[m].key = h[m].key
  BY <1>1 DEF Heap, Item, KeyLost
<1>3. Sound(g, H) /\ Lists(g) = Lists(h)
  BY <1>2, KeySound
<1>4. freed = IF i \in HeapKeys(h) THEN 1 ELSE 0
  BY <1>1 DEF Keyed, HeapKeys, Live, Heap, Item
<1>5. c = Cardinality(HeapKeys(h)) /\ c \in Nat /\ IsFiniteSet(HeapKeys(h))
  BY HeapKeysFinite DEF Keyed
<1>6. d = c - freed
  BY <1>5 DEF SetKey
<1>7. HeapKeys(g) = HeapKeys(h) \ {i}
  BY <1>1, <1>2 DEF HeapKeys, Live
<1>8. Cardinality(HeapKeys(g)) = d
  <2>1. Cardinality(HeapKeys(h) \ {i}) = IF i \in HeapKeys(h) THEN Cardinality(HeapKeys(h)) - 1
                                         ELSE Cardinality(HeapKeys(h))
    BY <1>5, FS_RemoveElement
  <2>2. Cardinality(HeapKeys(h) \ {i}) = c - freed
    BY <1>4, <1>5, <2>1
  <2> QED  BY <1>6, <1>7, <2>2
<1> QED  BY <1>2, <1>3, <1>8 DEF Keyed

\* cJSON_CreateIntArray and the like.
ItemsMade(made, h, a, n1, n2) == made = cJSON_New_Item(cJSON_New_Item(cJSON_New_Item(h, a), n1), n2)
ArrayLinked(g, made, a, n1, n2) ==
  g = [suffix_object([made EXCEPT ![a].child = n1], n1, n2) EXCEPT ![n1].prev = n2]

ArrayMade(h, H, c, a, n1, n2, made, g) ==
  /\ Sound(h, H) /\ Keyed(h, c) /\ {a, n1, n2} \subseteq Nodes /\ a # n1 /\ a # n2 /\ n1 # n2
  /\ ~h[a].live /\ ~h[n1].live /\ ~h[n2].live
  /\ ItemsMade(made, h, a, n1, n2) /\ ArrayLinked(g, made, a, n1, n2)
ArrayListed(L, K, a, n1, n2) == L = [K EXCEPT ![a] = <<n1, n2>>] /\ K[n1] = <<>> /\ K[n2] = <<>>
\* cJSON_CreateIntArray and the like: a list of two new items, linked by hand.
LEMMA ArraySound ==
  ASSUME NEW h, NEW H, NEW c, NEW a, NEW n1, NEW n2, NEW made, NEW g, ArrayMade(h, H, c, a, n1, n2, made, g)
  PROVE  Sound(g, H \cup {a}) /\ ArrayListed(Lists(g), Lists(h), a, n1, n2) /\ Keyed(g, c)
<1> PICK K : K = Lists(h)
  OBVIOUS
<1>0. /\ Sound(h, H) /\ Keyed(h, c) /\ a \in Nodes /\ n1 \in Nodes /\ n2 \in Nodes /\ a # n1 /\ a # n2 /\ n1 # n2
      /\ ~h[a].live /\ ~h[n1].live /\ ~h[n2].live
      /\ ItemsMade(made, h, a, n1, n2) /\ ArrayLinked(g, made, a, n1, n2)
  BY DEF ArrayMade
<1> USE <1>0
<1>1. PICK ha : ha = cJSON_New_Item(h, a)
  OBVIOUS
<1>2. PICK h1 : h1 = cJSON_New_Item(ha, n1)
  OBVIOUS
<1>3. /\ Keyed(ha, c) /\ Sound(ha, H \cup {a}) /\ Lists(ha) = K /\ K[a] = <<>> /\ ~Owned(K, a) /\ a \notin H
      /\ h \in Heap /\ ha \in Heap /\ ha[a] = New /\ \A m \in Nodes : m # a => ha[m] = h[m]
  <2>1. MakesItem(h, H, a, ha)
    BY <1>1 DEF MakesItem
  <2> QED  BY <2>1, MadeSound, MadeIs, MadeKeyed
<1>4. ~ha[n1].live
  BY <1>3
<1>5. /\ Keyed(h1, c) /\ Sound(h1, (H \cup {a}) \cup {n1}) /\ Lists(h1) = K /\ K[n1] = <<>> /\ ~Owned(K, n1) /\ n1 \notin H
      /\ h1 \in Heap /\ h1[n1] = New /\ \A m \in Nodes : m # n1 => h1[m] = ha[m]
  <2>1. MakesItem(ha, H \cup {a}, n1, h1)
    BY <1>2, <1>3, <1>4 DEF MakesItem
  <2> QED  BY <1>3, <2>1, MadeSound, MadeIs, MadeKeyed
<1>6. ~h1[n2].live
  BY <1>3, <1>5
<1> DEFINE F == ((H \cup {a}) \cup {n1}) \cup {n2}
<1>7. /\ Keyed(made, c) /\ Sound(made, F) /\ Lists(made) = K /\ K[n2] = <<>> /\ ~Owned(K, n2) /\ n2 \notin H
      /\ made \in Heap /\ made[n2] = New /\ \A m \in Nodes : m # n2 => made[m] = h1[m]
  <2>1. MakesItem(h1, (H \cup {a}) \cup {n1}, n2, made)
    BY <1>1, <1>2, <1>5, <1>6 DEF MakesItem, ItemsMade
  <2> QED  BY <1>5, <2>1, MadeSound, MadeIs, MadeKeyed
<1>8. /\ made[a] = New /\ made[n1] = New /\ \A m \in Nodes : m \notin {a, n1, n2} => made[m] = h[m]
  BY <1>3, <1>5, <1>7
<1> DEFINE t == <<n1, n2>>
<1>9. /\ g \in Heap /\ Kept(g, made)
      /\ \A m \in Nodes : /\ g[m].child = IF m = a THEN n1 ELSE made[m].child
                          /\ g[m].next = IF m = n1 THEN n2 ELSE made[m].next
                          /\ g[m].prev = IF m = n1 THEN n2 ELSE IF m = n2 THEN n1 ELSE made[m].prev
  <2>0. n1 \in Links /\ n2 \in Links
    BY DEF Links
  <2>1. PICK g1 : IsChildSet(g1, made, a, n1)
    BY DEF IsChildSet
  <2>2. PICK g2 : IsNextSet(g2, g1, n1, n2)
    BY DEF IsNextSet
  <2>3. PICK g3 : IsPrevSet(g3, g2, n2, n1)
    BY DEF IsPrevSet
  <2>4. IsPrevSet(g, g3, n1, n2)
    BY <2>1, <2>2, <2>3 DEF IsChildSet, IsNextSet, IsPrevSet, suffix_object, ArrayLinked
  <2>5. /\ g1 \in Heap /\ Kept(g1, made)
        /\ \A m \in Nodes : /\ g1[m].child = IF m = a THEN n1 ELSE made[m].child
                            /\ g1[m].next = made[m].next /\ g1[m].prev = made[m].prev
    BY <1>7, <2>0, <2>1, SetChild
  <2>6. /\ g2 \in Heap /\ Kept(g2, g1)
        /\ \A m \in Nodes : /\ g2[m].next = IF m = n1 THEN n2 ELSE g1[m].next
                            /\ g2[m].prev = g1[m].prev /\ g2[m].child = g1[m].child
    BY <2>0, <2>2, <2>5, SetNext
  <2>7. /\ g3 \in Heap /\ Kept(g3, g2)
        /\ \A m \in Nodes : /\ g3[m].prev = IF m = n2 THEN n1 ELSE g2[m].prev
                            /\ g3[m].next = g2[m].next /\ g3[m].child = g2[m].child
    BY <2>0, <2>3, <2>6, SetPrev
  <2>8. /\ g \in Heap /\ Kept(g, g3)
        /\ \A m \in Nodes : /\ g[m].prev = IF m = n1 THEN n2 ELSE g3[m].prev
                            /\ g[m].next = g3[m].next /\ g[m].child = g3[m].child
    BY <2>0, <2>4, <2>7, SetPrev
  <2> QED  BY <2>5, <2>6, <2>7, <2>8 DEF Kept
<1>10. t # <<>> /\ t \in Seq(Nodes) /\ Len(t) = 2 /\ t[1] = n1 /\ t[2] = n2 /\ \A x : In(x, t) <=> x = n1 \/ x = n2
  <2>1. t # <<>> /\ t \in Seq(Nodes) /\ Len(t) = 2 /\ t[1] = n1 /\ t[2] = n2
    OBVIOUS
  <2> HIDE DEF t
  <2>2. 1 \in 1 .. Len(t) /\ 2 \in 1 .. Len(t) /\ \A k \in 1 .. Len(t) : k = 1 \/ k = 2
    BY <2>1
  <2> QED  BY <2>1, <2>2 DEF In
<1> HIDE DEF t
<1>11. \A k \in 1 .. Len(t) : k = 1 \/ k = 2
  BY <1>10
<1>12. Injective(t)
  BY <1>10, <1>11 DEF Injective
<1>13. made[n1].next = NULL /\ made[n1].prev = NULL /\ made[n2].next = NULL /\ made[n2].prev = NULL /\ K[a] = <<>>
  BY <1>3, <1>7, <1>8, NewIs
<1>14. Rewired(g, made, a, K[a], t)
  <2>1. g[a].child = First(t)
    BY <1>9, <1>10 DEF First
  <2>2. Chain(g, t)
    <3> SUFFICES ASSUME NEW k \in 1 .. Len(t)
                 PROVE  /\ g[t[k]].prev = t[IF k = 1 THEN Len(t) ELSE k - 1]
                        /\ g[t[k]].next = IF k = Len(t) THEN NULL ELSE t[k + 1]
      BY DEF Chain
    <3>1. g[n1].next = n2 /\ g[n1].prev = n2 /\ g[n2].prev = n1 /\ g[n2].next = NULL
      BY <1>9, <1>13
    <3>2. CASE k = 1
      BY <1>10, <3>1, <3>2
    <3>3. CASE k = 2
      BY <1>10, <3>1, <3>3
    <3> QED  BY <1>11, <3>2, <3>3
  <2>3. \A m : ~In(m, K[a])
    BY <1>13 DEF In
  <2> QED  BY <1>9, <1>10, <2>1, <2>2, <2>3 DEF Rewired, Kept
<1>15. \A k \in 1 .. Len(t) : In(t[k], K[a]) \/ (t[k] \in F /\ a \notin Below(K, t[k]))
  <2>1. Below(K, n1) = {n1} /\ Below(K, n2) = {n2}
    BY <1>5, <1>7, BelowAlone
  <2> QED  BY <1>10, <1>11, <2>1
<1>16. Holds(made, a)
  BY <1>8, NewIs DEF Holds
<1>17. Sound(g, HandAfter(F, K[a], t)) /\ Lists(g) = [K EXCEPT ![a] = t]
  BY <1>7, <1>10, <1>12, <1>14, <1>15, <1>16, RewireSound
<1>18. HandAfter(F, K[a], t) = H \cup {a}
  <2>1. \A m : ~In(m, K[a])
    BY <1>13 DEF In
  <2> QED  BY <1>5, <1>7, <1>10, <2>1 DEF HandAfter
<1>19. Keyed(g, c)
  BY <1>7, <1>9, KeptKeyed
<1> QED  BY <1>3, <1>5, <1>7, <1>17, <1>18, <1>19 DEF t, ArrayListed

---------------------------------------------------------------------------
(* The forest's own words. *)
Grow(K, S) == S \cup UNION {Range(K[m]) : m \in S}

\* What Under adds in a step are items.
LEMMA GrowIs ==
  ASSUME NEW K \in [Nodes -> Seq(Nodes)], NEW F, F = [S \in SUBSET Nodes |-> Grow(K, S)]
  PROVE  /\ IsStep(F, SUBSET Nodes)
         /\ \A S \in SUBSET Nodes : S \subseteq F[S] /\ F[S] = Grow(K, S) /\ F[S] \in SUBSET Nodes
<1>1. \A S \in SUBSET Nodes : Grow(K, S) \in SUBSET Nodes
  <2> SUFFICES ASSUME NEW S \in SUBSET Nodes, NEW m \in S PROVE Range(K[m]) \in SUBSET Nodes
    BY DEF Grow
  <2>1. K[m] \in Seq(Nodes)
    OBVIOUS
  <2> QED  BY <2>1 DEF Range
<1> QED  BY <1>1 DEF IsStep, Grow

\* The tree of the forest under an item is what is below it.
LEMMA UnderIs ==
  ASSUME NEW K \in [Nodes -> Seq(Nodes)], NEW n \in Nodes
  PROVE  Forest!Under(K, n) = Below(K, n)
<1> DEFINE Eqn(f) == f = [i \in 0 .. Size |->
                            IF i = 0 THEN {n}
                            ELSE LET S == f[i - 1] IN S \cup UNION {Range(K[m]) : m \in S}]
           grow == CHOOSE f : Eqn(f)
           F == [S \in SUBSET Nodes |-> Grow(K, S)]
<1>1. Size \in Nat /\ Cardinality(Nodes) = Size
  BY SizeIs DEF Size
<1>2. /\ IsStep(F, SUBSET Nodes)
      /\ \A S \in SUBSET Nodes : S \subseteq F[S] /\ F[S] = Grow(K, S) /\ F[S] \in SUBSET Nodes
  BY GrowIs
<1> HIDE DEF F
<1>3. PICK f \in [0 .. Size -> SUBSET Nodes] : f[0] = {n} /\ \A i \in 1 .. Size : f[i] = F[f[i - 1]]
  <2>1. {n} \in SUBSET Nodes
    OBVIOUS
  <2>2. \E f : IsIteration(f, Size, SUBSET Nodes, {n}, F)
    BY <1>1, <1>2, <2>1, Iterates
  <2> QED  BY <2>2 DEF IsIteration
<1>4. \A i \in 1 .. Size : f[i] = Grow(K, f[i - 1])
  BY <1>1, <1>2, <1>3
<1>5. Eqn(f)
  BY <1>3, <1>4 DEF Grow
<1>6. Eqn(grow)
  BY <1>5
<1> HIDE DEF grow
<1>7. Forest!Under(K, n) = grow[Size]
  BY <1>1 DEF Forest!Under, Forest!Range, Range, Forest!Cardinality, Cardinality, grow
<1>8. grow[0] = {n} /\ \A i \in 1 .. Size : grow[i] = Grow(K, grow[i - 1])
  <2>1. \A i \in 0 .. Size : grow[i] = IF i = 0 THEN {n} ELSE Grow(K, grow[i - 1])
    BY <1>6, Zenon DEF Grow
  <2>2. 0 \in 0 .. Size /\ \A i \in 1 .. Size : i \in 0 .. Size /\ i # 0
    BY <1>1
  <2> QED  BY <2>1, <2>2, Zenon
<1>9. \A i \in 0 .. Size : grow[i] = f[i]
  <2> DEFINE G == {i \in 0 .. Size : grow[i] = f[i]}
  <2>1. 0 \in G
    <3>1. 0 \in 0 .. Size /\ grow[0] = f[0]
      BY <1>1, <1>3, <1>8
    <3> QED  BY <3>1
  <2>2. ASSUME NEW i \in 0 .. Size - 1, i \in G PROVE i + 1 \in G
    <3>1. i + 1 \in 1 .. Size /\ i + 1 \in 0 .. Size /\ (i + 1) - 1 = i
      BY <1>1
    <3>2. grow[i + 1] = Grow(K, grow[i]) /\ f[i + 1] = Grow(K, f[i])
      BY <1>4, <1>8, <3>1
    <3> QED  BY <2>2, <3>1, <3>2
  <2> HIDE DEF G
  <2>3. \A i \in 0 .. Size : i \in G
    BY <1>1, <2>1, <2>2, UpTo
  <2> QED  BY <2>3 DEF G
<1>10. Forest!Under(K, n) = f[Size]
  BY <1>1, <1>7, <1>9
<1>11. F[f[Size]] = f[Size]
  <2>1. f[0] # {} /\ Size \in Nat /\ IsFiniteSet(Nodes) /\ Cardinality(Nodes) = Size
    BY <1>1, <1>3, NodesAssumption
  <2>2. \A S \in SUBSET Nodes : F[S] \in SUBSET Nodes /\ S \subseteq F[S]
    BY <1>2
  <2>3. (\A i \in 0 .. Size : f[i] \in SUBSET Nodes) /\ \A i \in 1 .. Size : f[i] = F[f[i - 1]]
    BY <1>3
  <2>4. Grows(Size, Nodes, F, f)
    BY <2>1, <2>2, <2>3 DEF Grows
  <2> QED  BY <1>1, <2>4, StopsGrowing
<1>12. \A i \in 0 .. Size : n \in f[i]
  <2> DEFINE G == {i \in 0 .. Size : n \in f[i]}
  <2>1. 0 \in G
    BY <1>1, <1>3
  <2>2. ASSUME NEW i \in 0 .. Size - 1, i \in G PROVE i + 1 \in G
    <3>1. i + 1 \in 1 .. Size /\ i + 1 \in 0 .. Size /\ (i + 1) - 1 = i /\ i \in 0 .. Size
      BY <1>1
    <3>2. f[i] \subseteq f[i + 1]
      BY <1>2, <1>3, <3>1
    <3> QED  BY <2>2, <3>1, <3>2
  <2> HIDE DEF G
  <2>3. \A i \in 0 .. Size : i \in G
    BY <1>1, <2>1, <2>2, UpTo
  <2> QED  BY <2>3 DEF G
<1>13. \A i \in 0 .. Size : f[i] \subseteq Below(K, n)
  <2> DEFINE G == {i \in 0 .. Size : f[i] \subseteq Below(K, n)}
  <2>1. 0 \in G
    BY <1>1, <1>3, BelowIs
  <2>2. ASSUME NEW i \in 0 .. Size - 1, i \in G PROVE i + 1 \in G
    <3>1. i + 1 \in 1 .. Size /\ i + 1 \in 0 .. Size /\ (i + 1) - 1 = i /\ i \in 0 .. Size
      BY <1>1
    <3>2. f[i + 1] = Grow(K, f[i]) /\ f[i] \in SUBSET Nodes /\ f[i] \subseteq Below(K, n)
      BY <1>3, <1>4, <2>2, <3>1
    <3>3. Grow(K, f[i]) \subseteq Below(K, n)
      <4> SUFFICES ASSUME NEW m \in f[i], NEW x \in Range(K[m]) PROVE x \in Below(K, n)
        BY <3>2 DEF Grow
      <4>1. m \in Below(K, n) /\ K[m] \in Seq(Nodes)
        BY <3>2
      <4>2. In(x, K[m]) /\ x \in Nodes
        BY <4>1 DEF Range, In
      <4> QED  BY <4>1, <4>2, BelowIs DEF Closed
    <3> QED  BY <3>1, <3>2, <3>3
  <2> HIDE DEF G
  <2>3. \A i \in 0 .. Size : i \in G
    BY <1>1, <2>1, <2>2, UpTo
  <2> QED  BY <2>3 DEF G
<1>14. Closed(K, f[Size])
  <2> SUFFICES ASSUME NEW m \in f[Size], NEW y \in Nodes, In(y, K[m]) PROVE y \in f[Size]
    BY DEF Closed
  <2>1. f[Size] \in SUBSET Nodes /\ Grow(K, f[Size]) = f[Size]
    BY <1>1, <1>2, <1>3, <1>11
  <2>2. K[m] \in Seq(Nodes)
    BY <2>1
  <2>3. y \in Range(K[m])
    BY <2>2 DEF Range, In
  <2> QED  BY <2>1, <2>3 DEF Grow
<1>15. Size \in 0 .. Size
  BY <1>1
<1>16. Below(K, n) \subseteq f[Size]
  BY <1>3, <1>12, <1>14, <1>15, BelowIs
<1> QED  BY <1>10, <1>13, <1>15, <1>16

\* The forest knows the items in hand and those in lists.
LEMMA KnownIs ==
  ASSUME Lists(heap) \in [Nodes -> Seq(Nodes)], held \in SUBSET Nodes
  PROVE  Forest!Known = {x \in Nodes : x \in held \/ Owned(Lists(heap), x)}
<1> DEFINE K == Lists(heap)
<1>1. Forest!Known = held \cup UNION {Range(K[n]) : n \in Nodes}
  BY DEF Forest!Known, Lists, Forest!Range, Range
<1>2. ASSUME NEW n \in Nodes PROVE Range(K[n]) = {x \in Nodes : In(x, K[n])}
  <2>1. K[n] \in Seq(Nodes)
    OBVIOUS
  <2> HIDE DEF K
  <2> QED  BY <2>1 DEF Range, In
<1> HIDE DEF K
<1> QED  BY <1>1, <1>2 DEF Owned, K

---------------------------------------------------------------------------
(* The invariant. *)
IInv == Sound(heap, held) /\ Keyed(heap, strings)

\* The empty heap satisfies the invariant.
LEMMA InitSound ==
  ASSUME Init
  PROVE  IInv /\ Forest!Init
<1> DEFINE K == [n \in Nodes |-> <<>>]
<1>1. heap \in Heap /\ heap = [n \in Nodes |-> Blank] /\ held = {} /\ strings = 0
  BY DEF Init, Heap, Item, Links, Blank
<1>2. \A n \in Nodes : heap[n] = Blank /\ ~heap[n].live /\ heap[n].key = "none"
  BY <1>1 DEF Blank
<1>3. K \in [Nodes -> Seq(Nodes)] /\ \A n \in Nodes : K[n] = <<>> /\ Len(K[n]) = 0
  OBVIOUS
<1> HIDE DEF K
<1>4. Shape(heap, held, K)
  <2>1. Rows(heap, K)
    BY <1>2, <1>3 DEF Rows, Holds
  <2>2. Once(K) /\ Listed(heap, held, K)
    BY <1>3 DEF Once, Listed
  <2>3. Loose(heap, held, K) /\ Pointing(heap)
    BY <1>1, <1>2 DEF Loose, Pointing
  <2> QED  BY <1>1, <1>3, <2>1, <2>2, <2>3 DEF Shape
<1>5. Acyclic(K)
  BY <1>3 DEF Acyclic, In
<1>6. Sound(heap, held) /\ Lists(heap) = K
  BY <1>4, <1>5, SoundIs
<1>7. Keyed(heap, strings)
  <2>1. HeapKeys(heap) = {}
    BY <1>2 DEF HeapKeys, Live
  <2> QED  BY <1>1, <1>2, <2>1, FS_EmptySet DEF Keyed
<1>8. Forest!Init
  BY <1>1, <1>6 DEF Forest!Init, Forest!Empty, Lists, K
<1> QED  BY <1>6, <1>7, <1>8 DEF IInv

---------------------------------------------------------------------------
(* The steps of the forest, told with the lists. *)
Known(h, H) == {x \in Nodes : x \in H \/ Owned(Lists(h), x)}

\* An item that is no reference is in hand or in a list.
LEMMA InForest ==
  ASSUME NEW h, NEW H, Sound(h, H)
  PROVE  \A n \in Nodes : Holds(h, n) => n \in Known(h, H)
BY DEF Sound, Shape, Loose, Holds, Known

\* An item that is not live is not.
LEMMA NotInForest ==
  ASSUME NEW h, NEW H, Sound(h, H)
  PROVE  \A n \in Nodes : ~h[n].live => n \notin Known(h, H)
<1>1. \A n \in Nodes : n \in Known(h, H) => h[n].live
  BY DEF Sound, Shape, Loose, Listed, Known, Owned, In
<1> QED  BY <1>1

\* Known, of the forest and of the heap.
LEMMA ForestKnown ==
  ASSUME Sound(heap, held)
  PROVE  Forest!Known = Known(heap, held)
BY KnownIs DEF Sound, Shape, Known

\* An item in hand appended is the step Add.
LEMMA ForestAdd ==
  ASSUME Sound(heap, held), NEW n \in Known(heap, held), NEW i \in held, held' = held \ {i},
         NEW K, K = Lists(heap), Appended(Lists(heap'), K, n, i)
  PROVE  Forest!Add
BY ForestKnown DEF Forest!Add, Lists, Appended

\* An item made and appended is the step AddNew.
LEMMA ForestAddNew ==
  ASSUME Sound(heap, held), NEW n \in Known(heap, held), NEW i \in Nodes \ Known(heap, held), held' = held,
         NEW K, K = Lists(heap), Appended(Lists(heap'), K, n, i)
  PROVE  Forest!AddNew
BY ForestKnown DEF Forest!AddNew, Lists, Appended

\* An item in hand inserted is the step Insert.
LEMMA ForestInsert ==
  ASSUME Sound(heap, held), NEW n \in Known(heap, held), NEW i \in held, held' = held \ {i},
         NEW K, K = Lists(heap), NEW p \in DOMAIN K[n], Inserted(Lists(heap'), K, n, p, i)
  PROVE  Forest!Insert
<1>1. Lists(heap') = [K EXCEPT ![n] = Forest!InsertAt(K[n], p, i)]
  BY DEF Forest!InsertAt, InsertAt, Inserted
<1> QED  BY <1>1, ForestKnown DEF Forest!Insert, Lists

\* An item removed to the hand is the step Detach.
LEMMA ForestDetach ==
  ASSUME Sound(heap, held), NEW n \in Known(heap, held), NEW i \in held' \ held, held' = held \cup {i},
         NEW K, K = Lists(heap), NEW p \in DOMAIN K[n], K[n][p] = i,
         Removed(Lists(heap'), K, n, p)
  PROVE  Forest!Detach
<1>1. Lists(heap') = [K EXCEPT ![n] = Forest!RemoveAt(K[n], p)]
  BY DEF Forest!RemoveAt, RemoveAt, Removed
<1> DEFINE Told(k, l) == \E x \in held' \ held :
             /\ held' = held \cup {x}
             /\ \E m \in Forest!Known : \E at \in DOMAIN k[m] :
                  k[m][at] = x /\ l = [k EXCEPT ![m] = Forest!RemoveAt(k[m], at)]
<1>2. Told(K, Lists(heap'))
  <2>1. n \in Forest!Known
    BY ForestKnown
  <2>2. \E at \in DOMAIN K[n] : K[n][at] = i /\ Lists(heap') = [K EXCEPT ![n] = Forest!RemoveAt(K[n], at)]
    BY <1>1, Zenon
  <2>3. i \in held' \ held /\ held' = held \cup {i}
    OBVIOUS
  <2> WITNESS i \in held' \ held
  <2> QED  BY <2>1, <2>2, <2>3
<1>3. Told(Lists(heap), Lists(heap')) => Forest!Detach
  BY Zenon DEF Forest!Detach, Lists
<1> HIDE DEF Told
<1> QED  BY <1>2, <1>3

\* An item put for one that goes with its tree is the step Replace.
LEMMA ForestReplace ==
  ASSUME Sound(heap, held), NEW n \in Known(heap, held), NEW i \in held, held' = held \ {i},
         NEW K, K = Lists(heap), NEW p \in DOMAIN K[n], K[n][p] \in Nodes,
         NEW L, Exchanging(L, K, n, p, i), Lists(heap') = Gone(L, Below(K, K[n][p]))
  PROVE  Forest!Replace
<1>1. K \in [Nodes -> Seq(Nodes)]
  BY DEF Sound, Shape
<1>2. Forest!Under(K, K[n][p]) = Below(K, K[n][p])
  BY <1>1, UnderIs
<1>3. Lists(heap') = Forest!Without([K EXCEPT ![n] = Forest!ReplaceAt(K[n], p, i)], Below(K, K[n][p]))
  BY DEF Gone, Forest!Without, Forest!RemoveAt, RemoveAt, Forest!ReplaceAt, ReplaceAt, Removed, Exchanging
<1>4. Lists(heap') = Forest!Without([K EXCEPT ![n] = Forest!ReplaceAt(K[n], p, i)], Forest!Under(K, K[n][p]))
  BY <1>2, <1>3
<1> DEFINE Told(k, l) == \E x \in held :
             /\ held' = held \ {x}
             /\ \E m \in Forest!Known : \E at \in DOMAIN k[m] :
                  l = Forest!Without([k EXCEPT ![m] = Forest!ReplaceAt(k[m], at, x)], Forest!Under(k, k[m][at]))
<1>5. Told(K, Lists(heap'))
  BY <1>4, ForestKnown
<1>6. Told(Lists(heap), Lists(heap')) => Forest!Replace
  BY Zenon DEF Forest!Replace, Lists
<1> HIDE DEF Told
<1> QED  BY <1>5, <1>6

\* An item removed that goes with its tree is the step Drop.
LEMMA ForestDrop ==
  ASSUME Sound(heap, held), NEW n \in Known(heap, held), held' = held,
         NEW K, K = Lists(heap), NEW p \in DOMAIN K[n], K[n][p] \in Nodes,
         NEW L, Removed(L, K, n, p), Lists(heap') = Gone(L, Below(K, K[n][p]))
  PROVE  Forest!Drop
<1>1. K \in [Nodes -> Seq(Nodes)]
  BY DEF Sound, Shape
<1>2. Forest!Under(K, K[n][p]) = Below(K, K[n][p])
  BY <1>1, UnderIs
<1>3. Lists(heap') = Forest!Without([K EXCEPT ![n] = Forest!RemoveAt(K[n], p)], Below(K, K[n][p]))
  BY DEF Gone, Forest!Without, Forest!RemoveAt, RemoveAt, Forest!ReplaceAt, ReplaceAt, Removed, Exchanging
<1>4. Lists(heap') = Forest!Without([K EXCEPT ![n] = Forest!RemoveAt(K[n], p)], Forest!Under(K, K[n][p]))
  BY <1>2, <1>3
<1> DEFINE Told(k, l) == held' = held /\ \E m \in Forest!Known : \E at \in DOMAIN k[m] :
             l = Forest!Without([k EXCEPT ![m] = Forest!RemoveAt(k[m], at)], Forest!Under(k, k[m][at]))
<1>5. Told(K, Lists(heap'))
  BY <1>4, ForestKnown
<1>6. Told(Lists(heap), Lists(heap')) => Forest!Drop
  BY Zenon DEF Forest!Drop, Lists
<1> HIDE DEF Told
<1> QED  BY <1>5, <1>6

\* A tree in hand that goes is the step Delete.
LEMMA ForestDelete ==
  ASSUME Sound(heap, held), NEW i \in held, held' = held \ {i},
         NEW K, K = Lists(heap), Lists(heap') = Gone(K, Below(K, i))
  PROVE  Forest!Delete
<1>1. K \in [Nodes -> Seq(Nodes)] /\ i \in Nodes
  BY DEF Sound, Shape
<1>2. Forest!Under(K, i) = Below(K, i)
  BY <1>1, UnderIs
<1>3. Lists(heap') = Forest!Without(K, Below(K, i))
  BY DEF Gone, Forest!Without
<1>4. Lists(heap') = Forest!Without(K, Forest!Under(K, i))
  BY <1>2, <1>3
<1> QED  BY <1>4 DEF Forest!Delete, Lists

\* A new tree in hand is the step Make.
LEMMA ForestMake ==
  ASSUME Sound(heap, held), NEW root \in Nodes, root \notin held, held' = held \cup {root},
         NEW K, K = Lists(heap), NEW L \in [Nodes -> Seq(Nodes)], L = Lists(heap'),
         Below(L, root) \cap Known(heap, held) = {}, \A n \in Nodes \ Below(L, root) : L[n] = K[n]
  PROVE  Forest!Make
<1>1. Forest!Under(L, root) = Below(L, root)
  BY UnderIs
<1>2. Forest!Under(L, root) \cap Known(heap, held) = {} /\ \A n \in Nodes \ Forest!Under(L, root) : L[n] = K[n]
  BY <1>1
<1> QED  BY <1>2, ForestKnown DEF Forest!Make, Lists

---------------------------------------------------------------------------
(* The calls, one by one. *)
\* What the invariant says of the items the calls are about.
LEMMA Here ==
  ASSUME IInv, NEW K, K = Lists(heap)
  PROVE  /\ Sound(heap, held) /\ Keyed(heap, strings)
         /\ heap \in Heap /\ held \in SUBSET Nodes /\ K \in [Nodes -> Seq(Nodes)]
         /\ \A n \in Containers : n \in Nodes /\ Holds(heap, n) /\ n \in Known(heap, held)
         /\ \A n \in Free(heap) : n \in Nodes /\ ~heap[n].live /\ n \notin Known(heap, held)
         /\ \A i \in held : i \in Nodes /\ heap[i].live
         /\ \A n \in Nodes : \A i \in Addable(n) : i \in held /\ n \notin Below(K, i)
<1>1. Sound(heap, held) /\ Keyed(heap, strings)
  BY DEF IInv
<1>2. heap \in Heap /\ held \in SUBSET Nodes /\ K \in [Nodes -> Seq(Nodes)] /\ \A i \in held : i \in Nodes /\ heap[i].live
  BY <1>1 DEF Sound, Shape, Loose
<1>3. \A n \in Containers : n \in Nodes /\ Holds(heap, n)
  BY DEF Containers, Live, Holds
<1>4. \A n \in Containers : n \in Known(heap, held)
  BY <1>1, <1>3, InForest
<1>5. \A n \in Free(heap) : n \in Nodes /\ ~heap[n].live
  BY DEF Free, Live
<1>6. \A n \in Free(heap) : n \notin Known(heap, held)
  BY <1>1, <1>5, NotInForest
<1>7. \A i \in held : Subtree(heap, i) = Below(K, i)
  BY <1>1, <1>2, SoundFacts
<1>8. \A n \in Nodes : \A i \in Addable(n) : i \in held /\ n \notin Below(K, i)
  BY <1>7 DEF Addable
<1> QED  BY <1>1, <1>2, <1>3, <1>4, <1>5, <1>6, <1>8

\* cJSON_CreateNull and the like.
LEMMA CreateItemStep ==
  ASSUME IInv, CreateItem
  PROVE  IInv' /\ Forest!Make
<1> PICK new \in Free(heap) : heap' = cJSON_New_Item(heap, new) /\ held' = held \cup {new} /\ UNCHANGED strings
  BY DEF CreateItem
<1>1. PICK K : K = Lists(heap)
  OBVIOUS
<1>2. Sound(heap, held) /\ Keyed(heap, strings) /\ new \in Nodes /\ ~heap[new].live /\ K \in [Nodes -> Seq(Nodes)]
      /\ new \notin Known(heap, held)
  BY <1>1, Here
<1>3. MakesItem(heap, held, new, heap')
  BY <1>2 DEF MakesItem
<1>4. Sound(heap', held \cup {new}) /\ Lists(heap') = K /\ K[new] = <<>> /\ new \notin held
  BY <1>1, <1>3, MadeSound
<1>5. Keyed(heap', strings)
  BY <1>2, <1>3, MadeKeyed
<1>6. Below(K, new) = {new}
  BY <1>2, <1>4, BelowAlone
<1>7. Forest!Make
  BY <1>1, <1>2, <1>4, <1>6, ForestMake
<1> QED  BY <1>4, <1>5, <1>7 DEF IInv

\* cJSON_AddItemToArray.
LEMMA AddItemToArrayStep ==
  ASSUME IInv, NEW n \in Containers, NEW i, AddItemToArray(n, i)
  PROVE  IInv' /\ Forest!Add
<1>1. PICK K : K = Lists(heap)
  OBVIOUS
<1>2. i \in Addable(n) /\ heap' = add_item_to_array(heap, n, i) /\ held' = held \ {i} /\ strings' = strings
  BY DEF AddItemToArray
<1>3. /\ Sound(heap, held) /\ Keyed(heap, strings) /\ n \in Nodes /\ Holds(heap, n) /\ n \in Known(heap, held)
      /\ i \in held /\ n \notin Below(K, i)
  BY <1>1, <1>2, Here
<1>4. Sound(heap', held \ {i}) /\ Appended(Lists(heap'), K, n, i) /\ Kept(heap', heap)
  <2>1. PICK g : g = add_item_to_array(heap, n, i)
    OBVIOUS
  <2>2. Adds(heap, held, n, i, g)
    BY <1>1, <1>3, <2>1 DEF Adds, MayAdd
  <2>3. Sound(g, held \ {i}) /\ Appended(Lists(g), K, n, i) /\ Kept(g, heap)
    BY <1>1, <2>2, AddSound
  <2> QED  BY <1>2, <2>1, <2>3
<1>5. Keyed(heap', strings)
  BY <1>3, <1>4, KeptKeyed
<1>6. Forest!Add
  BY <1>1, <1>2, <1>3, <1>4, ForestAdd
<1> QED  BY <1>2, <1>4, <1>5, <1>6 DEF IInv

\* An item in hand goes into an object with a new key.
AddsKeyed(h, H, c, n, i, constant_key, out) ==
  /\ MayAdd(h, H, n, i) /\ Keyed(h, c) /\ constant_key \in BOOLEAN
  /\ out = add_item_to_object([heap |-> h, strings |-> c], n, i, constant_key)
\* add_item_to_object sets the key of the item and appends it.
LEMMA ObjectSound ==
  ASSUME NEW h, NEW H, NEW c, NEW n, NEW i, NEW constant_key, NEW out,
         AddsKeyed(h, H, c, n, i, constant_key, out)
  PROVE  /\ Sound(out.heap, H \ {i}) /\ Appended(Lists(out.heap), Lists(h), n, i)
         /\ Keyed(out.heap, out.strings)
<1> PICK K : K = Lists(h)
  OBVIOUS
<1>0. /\ Sound(h, H) /\ Keyed(h, c) /\ constant_key \in BOOLEAN
      /\ n \in Nodes /\ Holds(h, n) /\ i \in H /\ n \notin Below(K, i)
      /\ out = add_item_to_object([heap |-> h, strings |-> c], n, i, constant_key)
  BY DEF AddsKeyed, MayAdd
<1>1. PICK mem : mem = SetKey([heap |-> h, strings |-> c], i, constant_key)
  OBVIOUS
<1>2. out.heap = add_item_to_array(mem.heap, n, i) /\ out.strings = mem.strings
  <2>1. mem = [heap |-> mem.heap, strings |-> mem.strings]
    BY <1>1 DEF SetKey
  <2>2. out = [mem EXCEPT !.heap = add_item_to_array(@, n, i)]
    BY <1>0, <1>1 DEF add_item_to_object
  <2> QED  BY <2>1, <2>2
<1>3. Sound(mem.heap, H) /\ Lists(mem.heap) = K /\ Keyed(mem.heap, mem.strings)
  <2>1. GivesKey(h, H, c, i, constant_key, mem)
    BY <1>0, <1>1 DEF GivesKey
  <2> QED  BY <2>1, SetKeyKeyed
<1>4. Holds(mem.heap, n)
  BY <1>0, <1>1 DEF SetKey, Holds, Sound, Shape, Heap
<1>5. Adds(mem.heap, H, n, i, out.heap)
  BY <1>0, <1>2, <1>3, <1>4 DEF Adds, MayAdd
<1>6. Sound(out.heap, H \ {i}) /\ Appended(Lists(out.heap), K, n, i) /\ Kept(out.heap, mem.heap)
  BY <1>3, <1>5, AddSound
<1>7. Keyed(out.heap, mem.strings)
  BY <1>3, <1>6, KeptKeyed
<1> QED  BY <1>2, <1>6, <1>7

\* cJSON_AddItemToObject, with either kind of key.
LEMMA AddItemToObjectStep ==
  ASSUME IInv, NEW n \in Containers, NEW i, AddItemToObject(n, i)
  PROVE  IInv' /\ Forest!Add
<1> PICK constant_key \in BOOLEAN :
      Becomes(add_item_to_object(Memory, n, i, constant_key), held \ {i}) /\ i \in Addable(n)
  BY DEF AddItemToObject
<1>1. PICK K : K = Lists(heap)
  OBVIOUS
<1>2. PICK out : out = add_item_to_object([heap |-> heap, strings |-> strings], n, i, constant_key)
  OBVIOUS
<1>3. heap' = out.heap /\ held' = held \ {i} /\ strings' = out.strings
  BY <1>2 DEF Becomes, Memory
<1>4. /\ Sound(heap, held) /\ Keyed(heap, strings) /\ n \in Nodes /\ Holds(heap, n) /\ n \in Known(heap, held)
      /\ i \in held /\ n \notin Below(K, i)
  BY <1>1, Here
<1>5. /\ Sound(out.heap, held \ {i}) /\ Appended(Lists(out.heap), K, n, i)
      /\ Keyed(out.heap, out.strings)
  <2>1. AddsKeyed(heap, held, strings, n, i, constant_key, out)
    BY <1>1, <1>2, <1>4 DEF AddsKeyed, MayAdd
  <2> QED  BY <1>1, <2>1, ObjectSound
<1>6. Forest!Add
  BY <1>1, <1>3, <1>4, <1>5, ForestAdd
<1> QED  BY <1>3, <1>5, <1>6 DEF IInv

\* A new item in hand with nothing in it is below no other.
LEMMA NewBelow ==
  ASSUME NEW K, NEW new \in Nodes, K[new] = <<>>, NEW n \in Nodes, n # new
  PROVE  n \notin Below(K, new)
BY BelowAlone

\* create_reference makes an item that points to the children of another.
LEMMA ReferenceMade ==
  ASSUME IInv, NEW i \in Live(heap), NEW new \in Free(heap), NEW made, made = create_reference(heap, i, new),
         NEW K, K = Lists(heap)
  PROVE  /\ Sound(made, held \cup {new}) /\ Sound(made, held) /\ Lists(made) = K /\ Keyed(made, strings)
         /\ new \in Nodes /\ new \notin Known(heap, held) /\ new \notin held /\ K[new] = <<>>
         /\ \A m \in Nodes : m # new => made[m] = heap[m]
<1>1. /\ Sound(heap, held) /\ Keyed(heap, strings) /\ heap \in Heap
      /\ new \in Nodes /\ ~heap[new].live /\ new \notin Known(heap, held)
  BY Here
<1>2. PICK x : x = [heap[i] EXCEPT !.key = "none", !.ref = TRUE, !.next = NULL, !.prev = NULL]
  OBVIOUS
<1>3. IsMade(made, heap, new, x)
  BY <1>2 DEF IsMade, create_reference
<1>4. i \in Nodes /\ heap[i].live /\ heap[i] \in Item
  BY <1>1 DEF Live, Heap
<1>5. x \in Item /\ x.live /\ x.next = NULL /\ x.prev = NULL /\ x.ref /\ x.key = "none" /\ x.child = heap[i].child
  BY <1>2, <1>4 DEF Item, Links
<1>6. Target(heap, x.child)
  BY <1>1, <1>4, <1>5 DEF Sound, Shape, Pointing
<1>7. Makes(heap, held, new, x, made)
  BY <1>1, <1>3, <1>5, <1>6 DEF Makes, Fresh
<1>8. /\ Sound(made, held \cup {new}) /\ Lists(made) = Lists(heap)
      /\ Lists(heap)[new] = <<>> /\ new \notin held /\ Sound(made, held)
  BY <1>5, <1>7, NewSound
<1>9. Keyed(made, strings)
  BY <1>1, <1>3, <1>5, NewKeyed
<1>10. \A m \in Nodes : m # new => made[m] = heap[m]
  BY <1>1, <1>3 DEF IsMade, Heap
<1> QED  BY <1>1, <1>8, <1>9, <1>10

\* cJSON_AddItemReferenceToArray.
LEMMA AddItemReferenceToArrayStep ==
  ASSUME IInv, NEW n \in Containers, NEW i \in Live(heap), AddItemReferenceToArray(n, i)
  PROVE  IInv' /\ Forest!AddNew
<1> PICK new \in Free(heap) : heap' = add_item_to_array(create_reference(heap, i, new), n, new)
  BY DEF AddItemReferenceToArray
<1>1. PICK K : K = Lists(heap)
  OBVIOUS
<1>2. PICK made : made = create_reference(heap, i, new)
  OBVIOUS
<1>3. PICK g : g = add_item_to_array(made, n, new)
  OBVIOUS
<1>4. heap' = g /\ held' = held /\ strings' = strings
  BY <1>2, <1>3 DEF AddItemReferenceToArray
<1>5. Sound(heap, held) /\ n \in Nodes /\ Holds(heap, n) /\ n \in Known(heap, held) /\ ~heap[new].live
  BY <1>1, Here
<1>6. /\ Sound(made, held \cup {new}) /\ Lists(made) = K /\ Keyed(made, strings)
      /\ new \in Nodes /\ new \notin Known(heap, held) /\ new \notin held /\ K[new] = <<>>
      /\ \A m \in Nodes : m # new => made[m] = heap[m]
  BY <1>1, <1>2, ReferenceMade
<1>7. n # new /\ Holds(made, n) /\ n \notin Below(K, new) /\ new \in held \cup {new}
  BY <1>5, <1>6, NewBelow DEF Holds
<1>8. Sound(g, (held \cup {new}) \ {new}) /\ Appended(Lists(g), K, n, new) /\ Kept(g, made)
  <2>1. Adds(made, held \cup {new}, n, new, g)
    BY <1>3, <1>5, <1>6, <1>7 DEF Adds, MayAdd
  <2> QED  BY <1>6, <2>1, AddSound
<1>9. (held \cup {new}) \ {new} = held
  BY <1>6
<1>10. Keyed(g, strings)
  BY <1>6, <1>8, KeptKeyed
<1>11. Forest!AddNew
  BY <1>1, <1>4, <1>5, <1>6, <1>8, ForestAddNew
<1> QED  BY <1>4, <1>8, <1>9, <1>10, <1>11 DEF IInv

\* A call that leaves the lists and the caller's hand alone.
LEMMA ForestStutters ==
  ASSUME held' = held, Lists(heap') = Lists(heap)
  PROVE  UNCHANGED Forest!vars
BY DEF Forest!vars, Lists

\* cJSON_AddItemReferenceToObject: a reference is added, or lost and no list changed.
LEMMA AddItemReferenceToObjectStep ==
  ASSUME IInv, NEW n \in Containers, NEW i \in Live(heap), AddItemReferenceToObject(n, i)
  PROVE  IInv' /\ (Forest!AddNew \/ UNCHANGED Forest!vars)
<1> PICK new \in Free(heap) :
      LET made == [Memory EXCEPT !.heap = create_reference(heap, i, new)]
      IN \/ Becomes(add_item_to_object(made, n, new, FALSE), held)
         \/ Becomes(made, held)
  BY DEF AddItemReferenceToObject
<1>1. PICK K : K = Lists(heap)
  OBVIOUS
<1>2. PICK made : made = create_reference(heap, i, new)
  OBVIOUS
<1>3. PICK out : out = add_item_to_object([heap |-> made, strings |-> strings], n, new, FALSE)
  OBVIOUS
<1>4. [Memory EXCEPT !.heap = create_reference(heap, i, new)] = [heap |-> made, strings |-> strings]
  BY <1>2 DEF Memory
<1>5. \/ heap' = out.heap /\ held' = held /\ strings' = out.strings
      \/ heap' = made /\ held' = held /\ strings' = strings
  BY <1>3, <1>4 DEF Becomes
<1>6. Sound(heap, held) /\ n \in Nodes /\ Holds(heap, n) /\ n \in Known(heap, held) /\ ~heap[new].live
  BY <1>1, Here
<1>7. /\ Sound(made, held \cup {new}) /\ Sound(made, held) /\ Lists(made) = K /\ Keyed(made, strings)
      /\ new \in Nodes /\ new \notin Known(heap, held) /\ new \notin held /\ K[new] = <<>>
      /\ \A m \in Nodes : m # new => made[m] = heap[m]
  BY <1>1, <1>2, ReferenceMade
<1>8. CASE heap' = made /\ held' = held /\ strings' = strings
  BY <1>1, <1>7, <1>8, ForestStutters DEF IInv
<1>9. CASE heap' = out.heap /\ held' = held /\ strings' = out.strings
  <2>1. n # new /\ Holds(made, n) /\ n \notin Below(K, new) /\ new \in held \cup {new} /\ FALSE \in BOOLEAN
    BY <1>6, <1>7, NewBelow DEF Holds
  <2>2. /\ Sound(out.heap, (held \cup {new}) \ {new}) /\ Appended(Lists(out.heap), K, n, new)
        /\ Keyed(out.heap, out.strings)
    <3>1. AddsKeyed(made, held \cup {new}, strings, n, new, FALSE, out)
      BY <1>3, <1>6, <1>7, <2>1 DEF AddsKeyed, MayAdd
    <3> QED  BY <1>7, <3>1, ObjectSound
  <2>3. (held \cup {new}) \ {new} = held
    BY <1>7
  <2>4. Forest!AddNew
    BY <1>1, <1>6, <1>7, <1>9, <2>2, ForestAddNew
  <2> QED  BY <1>9, <2>2, <2>3, <2>4 DEF IInv
<1> QED  BY <1>5, <1>8, <1>9

\* cJSON_AddNullToObject and the like.
LEMMA AddNewToObjectStep ==
  ASSUME IInv, NEW n \in Containers, AddNewToObject(n)
  PROVE  IInv' /\ Forest!AddNew
<1> PICK new \in Free(heap) :
      LET made == [Memory EXCEPT !.heap = cJSON_New_Item(heap, new)]
      IN Becomes(add_item_to_object(made, n, new, FALSE), held)
  BY DEF AddNewToObject
<1>1. PICK K : K = Lists(heap)
  OBVIOUS
<1>2. PICK made : made = cJSON_New_Item(heap, new)
  OBVIOUS
<1>3. PICK out : out = add_item_to_object([heap |-> made, strings |-> strings], n, new, FALSE)
  OBVIOUS
<1>4. [Memory EXCEPT !.heap = cJSON_New_Item(heap, new)] = [heap |-> made, strings |-> strings]
  BY <1>2 DEF Memory
<1>5. heap' = out.heap /\ held' = held /\ strings' = out.strings
  BY <1>3, <1>4 DEF Becomes
<1>6. /\ Sound(heap, held) /\ n \in Nodes /\ Holds(heap, n) /\ n \in Known(heap, held)
      /\ new \in Nodes /\ ~heap[new].live /\ new \notin Known(heap, held) /\ Keyed(heap, strings)
  BY <1>1, Here
<1>7. MakesItem(heap, held, new, made)
  BY <1>2, <1>6 DEF MakesItem
<1>8. Sound(made, held \cup {new}) /\ Lists(made) = K /\ K[new] = <<>> /\ new \notin held
  BY <1>1, <1>7, MadeSound
<1>9. Keyed(made, strings)
  BY <1>6, <1>7, MadeKeyed
<1>10. \A m \in Nodes : m # new => made[m] = heap[m]
  BY <1>7, MadeIs
<1>11. n # new /\ Holds(made, n) /\ n \notin Below(K, new) /\ new \in held \cup {new} /\ FALSE \in BOOLEAN
  BY <1>6, <1>8, <1>10, NewBelow DEF Holds
<1>12. /\ Sound(out.heap, (held \cup {new}) \ {new}) /\ Appended(Lists(out.heap), K, n, new)
       /\ Keyed(out.heap, out.strings)
  <2>1. AddsKeyed(made, held \cup {new}, strings, n, new, FALSE, out)
    BY <1>3, <1>6, <1>8, <1>9, <1>11 DEF AddsKeyed, MayAdd
  <2> QED  BY <1>8, <2>1, ObjectSound
<1>13. (held \cup {new}) \ {new} = held
  BY <1>8
<1>14. Forest!AddNew
  BY <1>1, <1>5, <1>6, <1>12, ForestAddNew
<1> QED  BY <1>5, <1>12, <1>13, <1>14 DEF IInv

\* An item of a list has a place in it.
LEMMA PlaceOf ==
  ASSUME NEW h, NEW H, Sound(h, H), NEW n \in Nodes, Holds(h, n), NEW i \in Range(Kids(h, n)),
         NEW K, K = Lists(h)
  PROVE  \E p \in 1 .. Len(K[n]) : i = K[n][p]
<1>1. In(i, K[n])
  BY SoundFacts
<1> QED  BY <1>1 DEF In

\* cJSON_InsertItemInArray: before an item, or behind the last one.
LEMMA InsertItemInArrayStep ==
  ASSUME IInv, NEW n \in Containers, NEW i, InsertItemInArray(n, i)
  PROVE  IInv' /\ (Forest!Insert \/ Forest!Add)
<1> PICK which \in 0 .. Len(Kids(heap, n)) :
      LET after == get_array_item(heap, n, which)
      IN heap' = IF after = NULL THEN add_item_to_array(heap, n, i) ELSE Linked(heap, n, after, i)
  BY DEF InsertItemInArray
<1>1. PICK K : K = Lists(heap)
  OBVIOUS
<1>2. i \in Addable(n) /\ held' = held \ {i} /\ strings' = strings
  BY DEF InsertItemInArray
<1>3. /\ Sound(heap, held) /\ Keyed(heap, strings) /\ n \in Nodes /\ Holds(heap, n) /\ n \in Known(heap, held)
      /\ i \in held /\ n \notin Below(K, i) /\ K \in [Nodes -> Seq(Nodes)]
  BY <1>1, <1>2, Here
<1>4. MayAdd(heap, held, n, i)
  BY <1>1, <1>3 DEF MayAdd
<1>5. Kids(heap, n) = K[n]
  BY <1>1, <1>3, SoundFacts
<1>6. K[n] \in Seq(Nodes) /\ Len(K[n]) \in Nat /\ \A k \in 1 .. Len(K[n]) : K[n][k] # NULL
  <2>1. Shape(heap, held, K)
    BY <1>1, <1>3, SoundFacts
  <2> QED  BY <1>3, <2>1, RowFacts
<1>7. CASE which < Len(K[n])
  <2>1. PICK p : p = which + 1
    OBVIOUS
  <2>2. p \in 1 .. Len(K[n]) /\ p \in DOMAIN K[n] /\ heap' = Linked(heap, n, K[n][p], i)
    BY <1>5, <1>6, <1>7, <2>1 DEF get_array_item
  <2>3. Inserts(heap, held, n, p, i, heap')
    BY <1>1, <1>4, <2>2 DEF Inserts
  <2>4. Sound(heap', held \ {i}) /\ Inserted(Lists(heap'), K, n, p, i) /\ Kept(heap', heap)
    BY <1>1, <2>3, InsertSound
  <2>5. Keyed(heap', strings)
    BY <1>3, <2>4, KeptKeyed
  <2>6. Forest!Insert
    BY <1>1, <1>2, <1>3, <2>2, <2>4, ForestInsert
  <2> QED  BY <1>2, <2>4, <2>5, <2>6 DEF IInv
<1>8. CASE ~(which < Len(K[n]))
  <2>1. heap' = add_item_to_array(heap, n, i)
    BY <1>5, <1>8 DEF get_array_item
  <2>2. Adds(heap, held, n, i, heap')
    BY <1>4, <2>1 DEF Adds
  <2>3. Sound(heap', held \ {i}) /\ Appended(Lists(heap'), K, n, i) /\ Kept(heap', heap)
    BY <1>1, <2>2, AddSound
  <2>4. Keyed(heap', strings)
    BY <1>3, <2>3, KeptKeyed
  <2>5. Forest!Add
    BY <1>1, <1>2, <1>3, <2>3, ForestAdd
  <2> QED  BY <1>2, <2>3, <2>4, <2>5 DEF IInv
<1> QED  BY <1>7, <1>8

\* cJSON_DetachItemViaPointer.
LEMMA DetachItemViaPointerStep ==
  ASSUME IInv, NEW n \in Containers, DetachItemViaPointer(n)
  PROVE  IInv' /\ Forest!Detach
<1> PICK i \in Range(Kids(heap, n)) : heap' = Unlink(heap, n, i) /\ held' = held \cup {i} /\ strings' = strings
  BY DEF DetachItemViaPointer
<1>1. PICK K : K = Lists(heap)
  OBVIOUS
<1>2. /\ Sound(heap, held) /\ Keyed(heap, strings) /\ n \in Nodes /\ Holds(heap, n) /\ n \in Known(heap, held)
      /\ K \in [Nodes -> Seq(Nodes)]
  BY <1>1, Here
<1>3. PICK p \in 1 .. Len(K[n]) : i = K[n][p]
  BY <1>1, <1>2, PlaceOf, SMTT(30)
<1>4. Unlinks(heap, held, n, p, i, heap')
  BY <1>1, <1>2, <1>3 DEF Unlinks
<1>5. /\ Sound(heap', held \cup {i}) /\ Removed(Lists(heap'), K, n, p) /\ Kept(heap', heap)
      /\ i \in Nodes /\ i \notin held
  BY <1>1, <1>4, UnlinkSound
<1>6. Keyed(heap', strings)
  BY <1>2, <1>5, KeptKeyed
<1>7. p \in DOMAIN K[n] /\ i \in held' \ held
  BY <1>2, <1>3, <1>5
<1>8. Forest!Detach
  BY <1>1, <1>2, <1>3, <1>5, <1>7, ForestDetach
<1> QED  BY <1>5, <1>6, <1>8 DEF IInv

---------------------------------------------------------------------------
(* Deletions. *)
Deletes(h, H, c, i, mem) ==
  /\ Sound(h, H) /\ Keyed(h, c) /\ i \in H
  /\ \A r \in Nodes \ Below(Lists(h), i) : h[r].live /\ h[r].ref => h[r].child \notin Below(Lists(h), i)
  /\ mem = cJSON_Delete([heap |-> h, strings |-> c], i)
\* cJSON_Delete of an item in hand: its tree and the keys of its tree are freed.
LEMMA DeleteSound ==
  ASSUME NEW h, NEW H, NEW c, NEW i, NEW mem, Deletes(h, H, c, i, mem)
  PROVE  /\ Sound(mem.heap, H \ {i}) /\ Lists(mem.heap) = Gone(Lists(h), Below(Lists(h), i))
         /\ Keyed(mem.heap, mem.strings)
<1>1. PICK B : B = Below(Lists(h), i)
  OBVIOUS
<1>2. PICK g : g = [m \in Nodes |-> IF m \in B THEN Blank ELSE h[m]]
  OBVIOUS
<1>3. Sound(h, H) /\ Keyed(h, c) /\ i \in H /\ mem = cJSON_Delete([heap |-> h, strings |-> c], i)
  BY DEF Deletes
<1>4. Clears(h, H, i, g)
  BY <1>1, <1>2 DEF Clears, Deletes
<1>5. Sound(g, H \ {i}) /\ Lists(g) = Gone(Lists(h), B) /\ Reached(h, i) = B
  BY <1>1, <1>4, ClearedSound
<1>6. mem.heap = g /\ mem.strings = c - OwnKeys(h, B)
  BY <1>2, <1>3, <1>5 DEF cJSON_Delete
<1>7. h \in Heap /\ i \in Nodes /\ h[i].live /\ Shape(h, H, Lists(h))
  BY <1>3 DEF Sound, Shape, Loose
<1>8. B \in SUBSET Live(h)
  <2>1. B \in SUBSET Nodes
    BY <1>1, <1>7, BelowIs
  <2>2. \A x \in B : h[x].live
    BY <1>1, <1>7, BelowLive
  <2> QED  BY <2>1, <2>2 DEF Live
<1>9. Keyed(g, c - OwnKeys(h, B))
  BY <1>2, <1>3, <1>7, <1>8, ClearedKeyed
<1> QED  BY <1>1, <1>5, <1>6, <1>9

\* cJSON_Delete.
LEMMA DeleteStep ==
  ASSUME IInv, NEW i, Delete(i)
  PROVE  IInv' /\ Forest!Delete
<1>1. PICK K : K = Lists(heap)
  OBVIOUS
<1>2. i \in held /\ Unshared(Reached(heap, i)) /\ Becomes(cJSON_Delete(Memory, i), held \ {i})
  BY DEF Delete
<1>3. PICK mem : mem = cJSON_Delete([heap |-> heap, strings |-> strings], i)
  OBVIOUS
<1>4. heap' = mem.heap /\ held' = held \ {i} /\ strings' = mem.strings
  BY <1>2, <1>3 DEF Becomes, Memory
<1>5. Sound(heap, held) /\ Keyed(heap, strings) /\ i \in Nodes /\ heap[i].live
  BY <1>1, <1>2, Here
<1>6. Reached(heap, i) = Below(K, i)
  <2>1. Shape(heap, held, K)
    BY <1>1, <1>5, SoundFacts
  <2> QED  BY <1>2, <2>1, HandReaches
<1>7. Deletes(heap, held, strings, i, mem)
  BY <1>1, <1>2, <1>3, <1>5, <1>6 DEF Deletes, Unshared, Live
<1>8. /\ Sound(mem.heap, held \ {i}) /\ Lists(mem.heap) = Gone(K, Below(K, i))
      /\ Keyed(mem.heap, mem.strings)
  BY <1>1, <1>7, DeleteSound
<1>9. Forest!Delete
  BY <1>1, <1>2, <1>4, <1>5, <1>8, ForestDelete
<1> QED  BY <1>4, <1>8, <1>9 DEF IInv

\* No reference from elsewhere points into S.
NotShared(h, S) == \A r \in Nodes \ S : h[r].live /\ h[r].ref => h[r].child \notin S

\* What the caller has to see to before it deletes.
LEMMA UnsharedIs ==
  ASSUME IInv, NEW i \in Nodes, heap[i].live, Unshared(Subtree(heap, i)), NEW K, K = Lists(heap)
  PROVE  NotShared(heap, Below(K, i))
<1>1. Subtree(heap, i) = Below(K, i)
  BY SoundFacts DEF IInv
<1> QED  BY <1>1 DEF Unshared, NotShared, Live

\* A call that leaves the references where they point keeps it.
LEMMA StillNotShared ==
  ASSUME NEW h, NEW S, NotShared(h, S), NEW g, Kept(g, h), Aimed(g, h)
  PROVE  NotShared(g, S)
BY DEF NotShared, Kept, Aimed

\* cJSON_DeleteItemFromArray: detached and deleted.
LEMMA DeleteItemStep ==
  ASSUME IInv, NEW n \in Containers, DeleteItem(n)
  PROVE  IInv' /\ Forest!Drop
<1>0. PICK i \in Range(Kids(heap, n)) :
      /\ Unshared(Subtree(heap, i))
      /\ Becomes(cJSON_Delete([Memory EXCEPT !.heap = Unlink(heap, n, i)], i), held)
  BY DEF DeleteItem
<1>1. PICK K : K = Lists(heap)
  OBVIOUS
<1>2. PICK g : g = Unlink(heap, n, i)
  OBVIOUS
<1>3. PICK mem : mem = cJSON_Delete([heap |-> g, strings |-> strings], i)
  OBVIOUS
<1>4. heap' = mem.heap /\ held' = held /\ strings' = mem.strings
  <2>1. [Memory EXCEPT !.heap = Unlink(heap, n, i)] = [heap |-> g, strings |-> strings]
    BY <1>2 DEF Memory
  <2> QED  BY <1>0, <1>3, <2>1 DEF Becomes
<1>5. /\ Sound(heap, held) /\ Keyed(heap, strings) /\ n \in Nodes /\ Holds(heap, n) /\ n \in Known(heap, held)
      /\ K \in [Nodes -> Seq(Nodes)]
  BY <1>1, Here
<1>6. PICK p \in 1 .. Len(K[n]) : i = K[n][p]
  BY <1>1, <1>5, PlaceOf, SMTT(30)
<1>7. Unlinks(heap, held, n, p, i, g)
  BY <1>1, <1>2, <1>5, <1>6 DEF Unlinks
<1>8. /\ Sound(g, held \cup {i}) /\ Removed(Lists(g), K, n, p) /\ Kept(g, heap) /\ Aimed(g, heap)
      /\ i \in Nodes /\ i \notin held /\ heap[i].live /\ Below(Lists(g), i) = Below(K, i)
  <2>1. /\ Sound(g, held \cup {i}) /\ Removed(Lists(g), Lists(heap), n, p) /\ Kept(g, heap) /\ Aimed(g, heap)
        /\ i \in Nodes /\ i \notin held /\ heap[i].live
        /\ Below(Lists(g), i) = Below(Lists(heap), i) /\ n \notin Below(Lists(heap), i)
    BY <1>7, UnlinkSound
  <2> QED  BY <1>1, <2>1
<1>9. NotShared(g, Below(K, i))
  <2>1. NotShared(heap, Below(K, i))
    BY <1>0, <1>1, <1>8, UnsharedIs
  <2> QED  BY <1>8, <2>1, StillNotShared
<1>10. Keyed(g, strings)
  BY <1>5, <1>8, KeptKeyed
<1>11. Deletes(g, held \cup {i}, strings, i, mem)
  BY <1>3, <1>8, <1>9, <1>10 DEF Deletes, NotShared
<1>12. /\ Sound(mem.heap, (held \cup {i}) \ {i}) /\ Lists(mem.heap) = Gone(Lists(g), Below(K, i))
       /\ Keyed(mem.heap, mem.strings)
  <2>1. /\ Sound(mem.heap, (held \cup {i}) \ {i}) /\ Lists(mem.heap) = Gone(Lists(g), Below(Lists(g), i))
        /\ Keyed(mem.heap, mem.strings)
    BY <1>11, DeleteSound
  <2> QED  BY <1>8, <2>1
<1>13. (held \cup {i}) \ {i} = held
  BY <1>8
<1>14. p \in DOMAIN K[n] /\ K[n][p] \in Nodes
  BY <1>5, <1>6, <1>8
<1>15. Forest!Drop
  BY <1>1, <1>4, <1>5, <1>6, <1>8, <1>12, <1>14, ForestDrop
<1> QED  BY <1>4, <1>12, <1>13, <1>15 DEF IInv

\* An item takes the place of another, which is deleted.
Supersedes(h, H, c, n, p, item, i, out) ==
  /\ MayAdd(h, H, n, i) /\ Keyed(h, c) /\ p \in 1 .. Len(Lists(h)[n]) /\ item = Lists(h)[n][p]
  /\ NotShared(h, Below(Lists(h), item))
  /\ out = cJSON_Delete([heap |-> Exchanged(h, n, item, i), strings |-> c], item)
ReplacedIn(M, K, n, p, item, i) == \E L : Exchanging(L, K, n, p, i) /\ M = Gone(L, Below(K, item))
\* An item put in the place of another one, which is deleted.
LEMMA SupersededSound ==
  ASSUME NEW h, NEW H, NEW c, NEW n, NEW p, NEW item, NEW i, NEW out,
         Supersedes(h, H, c, n, p, item, i, out)
  PROVE  /\ Sound(out.heap, H \ {i}) /\ Keyed(out.heap, out.strings) /\ item \in Nodes
         /\ ReplacedIn(Lists(out.heap), Lists(h), n, p, item, i)
<1>1. PICK g : g = Exchanged(h, n, item, i)
  OBVIOUS
<1>2. Exchanges(h, H, n, p, item, i, g)
  BY <1>1 DEF Exchanges, Supersedes
<1>3. /\ Sound(g, (H \ {i}) \cup {item}) /\ Kept(g, h) /\ Aimed(g, h) /\ Exchanging(Lists(g), Lists(h), n, p, i)
      /\ item \in Nodes /\ item \notin H /\ Below(Lists(g), item) = Below(Lists(h), item)
  BY <1>2, ExchangedSound
<1>4. NotShared(g, Below(Lists(h), item))
  BY <1>3, StillNotShared DEF Supersedes
<1>5. Keyed(g, c)
  BY <1>3, KeptKeyed DEF Supersedes
<1>6. Deletes(g, (H \ {i}) \cup {item}, c, item, out)
  BY <1>1, <1>3, <1>4, <1>5 DEF Deletes, NotShared, Supersedes
<1>7. /\ Sound(out.heap, ((H \ {i}) \cup {item}) \ {item}) /\ Lists(out.heap) = Gone(Lists(g), Below(Lists(h), item))
      /\ Keyed(out.heap, out.strings)
  <2>1. /\ Sound(out.heap, ((H \ {i}) \cup {item}) \ {item}) /\ Lists(out.heap) = Gone(Lists(g), Below(Lists(g), item))
        /\ Keyed(out.heap, out.strings)
    BY <1>6, DeleteSound
  <2> QED  BY <1>3, <2>1
<1>8. ((H \ {i}) \cup {item}) \ {item} = H \ {i}
  BY <1>3
<1> QED  BY <1>3, <1>7, <1>8 DEF ReplacedIn

\* cJSON_ReplaceItemViaPointer.
LEMMA ReplaceItemViaPointerStep ==
  ASSUME IInv, NEW n \in Containers, NEW i, ReplaceItemViaPointer(n, i)
  PROVE  IInv' /\ Forest!Replace
<1>0. PICK item \in Range(Kids(heap, n)) :
      /\ Unshared(Subtree(heap, item))
      /\ Becomes(cJSON_Delete([Memory EXCEPT !.heap = Exchanged(heap, n, item, i)], item), held \ {i})
  BY DEF ReplaceItemViaPointer
<1>1. PICK K : K = Lists(heap)
  OBVIOUS
<1>2. i \in Addable(n)
  BY DEF ReplaceItemViaPointer
<1>3. PICK out : out = cJSON_Delete([heap |-> Exchanged(heap, n, item, i), strings |-> strings], item)
  OBVIOUS
<1>4. heap' = out.heap /\ held' = held \ {i} /\ strings' = out.strings
  BY <1>0, <1>3 DEF Becomes, Memory
<1>5. /\ Sound(heap, held) /\ Keyed(heap, strings) /\ n \in Nodes /\ Holds(heap, n) /\ n \in Known(heap, held)
      /\ i \in held /\ n \notin Below(K, i) /\ K \in [Nodes -> Seq(Nodes)]
  BY <1>1, <1>2, Here
<1>6. PICK p \in 1 .. Len(K[n]) : item = K[n][p]
  BY <1>1, <1>5, PlaceOf, SMTT(30)
<1>7. NotShared(heap, Below(K, item))
  <2>1. item \in Nodes /\ heap[item].live
    BY <1>1, <1>5, <1>6 DEF Sound, Shape, Listed
  <2> QED  BY <1>0, <1>1, <2>1, UnsharedIs
<1>8. Supersedes(heap, held, strings, n, p, item, i, out)
  BY <1>1, <1>3, <1>5, <1>6, <1>7 DEF Supersedes, MayAdd
<1>9. /\ Sound(out.heap, held \ {i}) /\ Keyed(out.heap, out.strings) /\ item \in Nodes
      /\ ReplacedIn(Lists(out.heap), K, n, p, item, i)
  <2>1. /\ Sound(out.heap, held \ {i}) /\ Keyed(out.heap, out.strings) /\ item \in Nodes
        /\ ReplacedIn(Lists(out.heap), Lists(heap), n, p, item, i)
    BY <1>8, SupersededSound
  <2> QED  BY <1>1, <2>1
<1>10. p \in DOMAIN K[n] /\ K[n][p] \in Nodes
  BY <1>5, <1>6, <1>9
<1>11. Forest!Replace
  BY <1>1, <1>4, <1>5, <1>6, <1>9, <1>10, ForestReplace DEF ReplacedIn
<1> QED  BY <1>4, <1>9, <1>11 DEF IInv

\* cJSON_ReplaceItemInObject: replaced, or the item in hand has another key or none.
LEMMA ReplaceItemInObjectStep ==
  ASSUME IInv, NEW n \in Containers, NEW i, ReplaceItemInObject(n, i)
  PROVE  IInv' /\ (Forest!Replace \/ UNCHANGED Forest!vars)
<1>1. PICK K : K = Lists(heap)
  OBVIOUS
<1>2. PICK mem : mem = SetKey([heap |-> heap, strings |-> strings], i, FALSE)
  OBVIOUS
<1>3. PICK g : KeyLost(g, heap, i)
  BY DEF KeyLost
<1>4. /\ i \in Addable(n)
      /\ \/ Becomes(mem, held)
         \/ Becomes([heap |-> g, strings |-> mem.strings - 1], held)
         \/ \E item \in Range(Kids(heap, n)) :
              /\ Unshared(Subtree(heap, item))
              /\ Becomes(cJSON_Delete([mem EXCEPT !.heap = Exchanged(@, n, item, i)], item), held \ {i})
  BY <1>2, <1>3 DEF ReplaceItemInObject, Memory, KeyLost
<1>5. /\ Sound(heap, held) /\ Keyed(heap, strings) /\ n \in Nodes /\ Holds(heap, n) /\ n \in Known(heap, held)
      /\ i \in held /\ n \notin Below(K, i) /\ K \in [Nodes -> Seq(Nodes)]
  BY <1>1, <1>4, Here
<1>6. /\ Sound(mem.heap, held) /\ Lists(mem.heap) = K /\ Keyed(mem.heap, mem.strings)
      /\ Points(mem.heap, heap)
  <2>1. GivesKey(heap, held, strings, i, FALSE, mem)
    BY <1>2, <1>5 DEF GivesKey
  <2> QED  BY <1>1, <2>1, SetKeyKeyed
<1>7. CASE Becomes(mem, held)
  BY <1>1, <1>6, <1>7, ForestStutters DEF Becomes, IInv
<1>8. CASE Becomes([heap |-> g, strings |-> mem.strings - 1], held)
  <2>1. heap' = g /\ strings' = mem.strings - 1 /\ held' = held
    BY <1>8 DEF Becomes
  <2>2. PICK d : d = SetKey([heap |-> heap, strings |-> strings], i, FALSE).strings - 1
    OBVIOUS
  <2>3. Sound(g, held) /\ Lists(g) = Lists(heap) /\ Keyed(g, d)
    <3>1. LosesKey(heap, held, strings, i, g, d)
      BY <1>3, <1>5, <2>2 DEF LosesKey
    <3> QED  BY <3>1, LostKeyKeyed
  <2>4. d = mem.strings - 1
    BY <1>2, <2>2
  <2> QED  BY <2>1, <2>3, <2>4, ForestStutters DEF IInv
<1>9. CASE \E item \in Range(Kids(heap, n)) :
             /\ Unshared(Subtree(heap, item))
             /\ Becomes(cJSON_Delete([mem EXCEPT !.heap = Exchanged(@, n, item, i)], item), held \ {i})
  <2>1. PICK item \in Range(Kids(heap, n)) :
          /\ Unshared(Subtree(heap, item))
          /\ Becomes(cJSON_Delete([mem EXCEPT !.heap = Exchanged(@, n, item, i)], item), held \ {i})
    BY <1>9
  <2>2. PICK out : out = cJSON_Delete([heap |-> Exchanged(mem.heap, n, item, i), strings |-> mem.strings], item)
    OBVIOUS
  <2>3. heap' = out.heap /\ held' = held \ {i} /\ strings' = out.strings
    <3>1. mem = [heap |-> mem.heap, strings |-> mem.strings]
      BY <1>2 DEF SetKey
    <3>2. [mem EXCEPT !.heap = Exchanged(@, n, item, i)]
            = [heap |-> Exchanged(mem.heap, n, item, i), strings |-> mem.strings]
      BY <3>1
    <3> QED  BY <2>1, <2>2, <3>2 DEF Becomes
  <2>4. PICK p \in 1 .. Len(K[n]) : item = K[n][p]
    BY <1>1, <1>5, PlaceOf, SMTT(30)
  <2>5. \A m \in Nodes : mem.heap[m].live = heap[m].live /\ mem.heap[m].ref = heap[m].ref
                         /\ mem.heap[m].child = heap[m].child
    BY <1>6 DEF Points
  <2>6. NotShared(mem.heap, Below(K, item))
    <3>1. item \in Nodes /\ heap[item].live
      BY <1>1, <1>5, <2>4 DEF Sound, Shape, Listed
    <3>2. NotShared(heap, Below(K, item))
      BY <1>1, <2>1, <3>1, UnsharedIs
    <3> QED  BY <2>5, <3>2 DEF NotShared
  <2>7. Holds(mem.heap, n)
    BY <1>5, <2>5 DEF Holds
  <2>8. Supersedes(mem.heap, held, mem.strings, n, p, item, i, out)
    BY <1>5, <1>6, <2>2, <2>4, <2>6, <2>7 DEF Supersedes, MayAdd
  <2>9. /\ Sound(out.heap, held \ {i}) /\ Keyed(out.heap, out.strings) /\ item \in Nodes
        /\ ReplacedIn(Lists(out.heap), K, n, p, item, i)
    <3>1. /\ Sound(out.heap, held \ {i}) /\ Keyed(out.heap, out.strings) /\ item \in Nodes
          /\ ReplacedIn(Lists(out.heap), Lists(mem.heap), n, p, item, i)
      BY <2>8, SupersededSound
    <3> QED  BY <1>6, <3>1
  <2>10. p \in DOMAIN K[n] /\ K[n][p] \in Nodes
    BY <1>5, <2>4, <2>9
  <2>11. Forest!Replace
    BY <1>1, <1>5, <2>3, <2>4, <2>9, <2>10, ForestReplace DEF ReplacedIn
  <2> QED  BY <2>3, <2>9, <2>11 DEF IInv
<1> QED  BY <1>4, <1>7, <1>8, <1>9

\* cJSON_CreateObjectReference and cJSON_CreateArrayReference.
LEMMA CreateReferenceToStep ==
  ASSUME IInv, NEW i \in Live(heap), CreateReferenceTo(i)
  PROVE  IInv' /\ Forest!Make
<1>0. PICK new \in Free(heap) :
      /\ heap' = [cJSON_New_Item(heap, new) EXCEPT ![new].ref = TRUE, ![new].child = i]
      /\ held' = held \cup {new} /\ strings' = strings
  BY DEF CreateReferenceTo
<1>1. PICK K : K = Lists(heap)
  OBVIOUS
<1>2. /\ Sound(heap, held) /\ Keyed(heap, strings) /\ heap \in Heap /\ K \in [Nodes -> Seq(Nodes)]
      /\ new \in Nodes /\ ~heap[new].live /\ new \notin Known(heap, held)
  BY <1>1, Here
<1>3. i \in Nodes /\ heap[i].live
  BY DEF Live
<1>4. PICK x : x = [New EXCEPT !.ref = TRUE, !.child = i]
  OBVIOUS
<1>5. /\ x \in Item /\ x.live /\ x.next = NULL /\ x.prev = NULL /\ x.ref /\ x.key = "none" /\ x.child = i
  BY <1>3, <1>4, NewIs DEF Item, Links
<1>6. IsMade(heap', heap, new, x)
  BY <1>0, <1>2, <1>4, NewIs DEF IsMade, cJSON_New_Item, New, Heap
<1>7. Makes(heap, held, new, x, heap')
  BY <1>2, <1>3, <1>5, <1>6 DEF Makes, Fresh, Target
<1>8. Sound(heap', held \cup {new}) /\ Lists(heap') = K /\ K[new] = <<>> /\ new \notin held
  BY <1>1, <1>7, NewSound
<1>9. Keyed(heap', strings)
  BY <1>2, <1>5, <1>6, NewKeyed
<1>10. Below(K, new) = {new}
  BY <1>2, <1>8, BelowAlone
<1>11. held' = held \cup {new} /\ strings' = strings
  BY <1>0
<1>12. Forest!Make
  BY <1>1, <1>2, <1>8, <1>10, <1>11, ForestMake
<1> QED  BY <1>8, <1>9, <1>11, <1>12 DEF IInv

\* cJSON_CreateIntArray and the like.
LEMMA CreateArrayOfStep ==
  ASSUME IInv, CreateArrayOf
  PROVE  IInv' /\ Forest!Make
<1>0. PICK a \in Free(heap), n1 \in Free(heap), n2 \in Free(heap) :
      /\ Cardinality({a, n1, n2}) = 3
      /\ LET made == cJSON_New_Item(cJSON_New_Item(cJSON_New_Item(heap, a), n1), n2)
             linked == suffix_object([made EXCEPT ![a].child = n1], n1, n2)
         IN heap' = [linked EXCEPT ![n1].prev = n2] /\ held' = held \cup {a}
      /\ strings' = strings
  BY DEF CreateArrayOf
<1>1. PICK K : K = Lists(heap)
  OBVIOUS
<1>2. /\ Sound(heap, held) /\ Keyed(heap, strings) /\ K \in [Nodes -> Seq(Nodes)]
      /\ \A m \in {a, n1, n2} : m \in Nodes /\ ~heap[m].live /\ m \notin Known(heap, held)
  BY <1>1, Here
<1>3. a # n1 /\ a # n2 /\ n1 # n2
  <2>1. \A x, y : Cardinality({x, y}) # 3
    <3> SUFFICES ASSUME NEW x, NEW y PROVE Cardinality({x, y}) # 3
      OBVIOUS
    <3>1. IsFiniteSet({x}) /\ Cardinality({x}) = 1
      BY FS_Singleton
    <3>2. Cardinality({x} \cup {y}) = IF y \in {x} THEN 1 ELSE 2
      BY <3>1, FS_AddElement
    <3>3. {x} \cup {y} = {x, y}
      OBVIOUS
    <3> QED  BY <3>2, <3>3
  <2>2. /\ a = n1 => {a, n1, n2} = {a, n2}
        /\ a = n2 => {a, n1, n2} = {a, n1}
        /\ n1 = n2 => {a, n1, n2} = {a, n1}
    OBVIOUS
  <2> QED  BY <1>0, <2>1, <2>2
<1>4. PICK made : ItemsMade(made, heap, a, n1, n2)
  BY DEF ItemsMade
<1>5. ArrayLinked(heap', made, a, n1, n2)
  BY <1>0, <1>4 DEF ItemsMade, ArrayLinked
<1>6. ArrayMade(heap, held, strings, a, n1, n2, made, heap')
  BY <1>2, <1>3, <1>4, <1>5 DEF ArrayMade
<1>7. Sound(heap', held \cup {a}) /\ ArrayListed(Lists(heap'), K, a, n1, n2) /\ Keyed(heap', strings)
  BY <1>1, <1>6, ArraySound
<1>8. PICK L : L = Lists(heap')
  OBVIOUS
<1>9. L = [K EXCEPT ![a] = <<n1, n2>>] /\ K[n1] = <<>> /\ K[n2] = <<>>
  BY <1>7, <1>8 DEF ArrayListed
<1>10. L \in [Nodes -> Seq(Nodes)] /\ L[a] = <<n1, n2>> /\ L[n1] = <<>> /\ L[n2] = <<>> /\ a \in Nodes
       /\ \A m \in Nodes : m # a => L[m] = K[m]
  BY <1>2, <1>3, <1>9
<1>11. Below(L, a) = {a, n1, n2}
  <2>1. Closed(L, {a, n1, n2})
    <3>1. \A y : In(y, L[a]) => y \in {a, n1, n2}
      <4>1. \A k \in 1 .. Len(L[a]) : L[a][k] \in {n1, n2}
        BY <1>10
      <4> QED  BY <4>1 DEF In
    <3>2. \A y : ~In(y, L[n1]) /\ ~In(y, L[n2])
      BY <1>10 DEF In
    <3> QED  BY <3>1, <3>2 DEF Closed
  <2>2. Below(L, a) \subseteq {a, n1, n2}
    <3>1. a \in Nodes /\ a \in {a, n1, n2} /\ {a, n1, n2} \in SUBSET Nodes
      BY <1>2
    <3> QED  BY <2>1, <3>1, BelowIs
  <2>3. In(n1, L[a]) /\ In(n2, L[a])
    <3>1. Len(L[a]) = 2 /\ L[a][1] = n1 /\ L[a][2] = n2
      BY <1>10
    <3>2. 1 \in 1 .. Len(L[a]) /\ 2 \in 1 .. Len(L[a])
      BY <3>1
    <3> QED  BY <3>1, <3>2 DEF In
  <2>4. n1 \in Below(L, a) /\ n2 \in Below(L, a) /\ a \in Below(L, a)
    BY <1>2, <2>3, BelowIs DEF Closed
  <2> QED  BY <2>2, <2>4
<1>12. Below(L, a) \cap Known(heap, held) = {} /\ \A n \in Nodes \ Below(L, a) : L[n] = K[n]
  BY <1>2, <1>10, <1>11
<1>13. a \notin held /\ held' = held \cup {a} /\ strings' = strings
  BY <1>0, <1>2 DEF Known
<1>14. Forest!Make
  BY <1>1, <1>2, <1>8, <1>10, <1>12, <1>13, ForestMake
<1> QED  BY <1>7, <1>13, <1>14 DEF IInv

---------------------------------------------------------------------------
(* Duplicates: C leads from the items of a tree to those of its copy. *)
Moved(C, S, m) == IF m \in S THEN C[m] ELSE NULL
IsCopy(h, i, S, C, g) ==
  /\ g \in Heap
  /\ \A m \in S : /\ g[C[m]].live = h[m].live /\ ~g[C[m]].ref
                  /\ g[C[m]].key = h[m].key /\ g[C[m]].const = h[m].const
                  /\ g[C[m]].child = Moved(C, S, h[m].child)
                  /\ g[C[m]].next = IF m = i THEN NULL ELSE Moved(C, S, h[m].next)
                  /\ g[C[m]].prev = IF m = i THEN NULL ELSE Moved(C, S, h[m].prev)
  /\ \A n \in Nodes : (\A m \in S : n # C[m]) => g[n] = h[n]
\* What is copied is below i, and holds no reference to anything; the copies are new.
Copied(h, H, K, i, S, C) ==
  /\ Sound(h, H) /\ K = Lists(h) /\ i \in Nodes /\ h[i].live /\ S = Below(K, i)
  /\ \A r \in S : h[r].ref => h[r].child = NULL
  /\ \A m \in S : C[m] \in Nodes /\ ~h[C[m]].live
  /\ \A m, x \in S : C[m] = C[x] => m = x
\* The lists of the copies.
IsCopied(L, K, S, C) ==
  /\ L \in [Nodes -> Seq(Nodes)]
  /\ \A m \in S : /\ Len(L[C[m]]) = Len(K[m])
                  /\ \A k \in 1 .. Len(K[m]) : L[C[m]][k] = C[K[m][k]]
  /\ \A n \in Nodes : (\A m \in S : n # C[m]) => L[n] = K[n]

\* A tree is closed under the pointers of its items, but for its root's next and prev.
TreeOf(h, H, K, i, S, C) ==
  /\ h \in Heap /\ H \in SUBSET Nodes /\ K \in [Nodes -> Seq(Nodes)] /\ Shape(h, H, K) /\ Acyclic(K)
  /\ i \in S /\ S \in SUBSET Nodes /\ NULL \notin S /\ Closed(K, S)
  /\ \A m \in S : h[m].live /\ C[m] \notin H /\ K[C[m]] = <<>>
  /\ \A m \in S : \A k \in 1 .. Len(K[m]) : K[m][k] \in S /\ K[m][k] # i
  /\ \A m \in S : h[m].child = First(K[m]) /\ Chain(h, K[m])
  /\ \A m \in S : m # i => \E p \in S : In(m, K[p])
  /\ \A n \in Nodes : \A k \in 1 .. Len(K[n]) : K[n][k] \in Nodes /\ \A m \in S : K[n][k] # C[m]
\* In a sound heap what is below an item is such a tree.
LEMMA TreeIs ==
  ASSUME NEW h, NEW H, NEW K, NEW i, NEW S, NEW C, Copied(h, H, K, i, S, C)
  PROVE  TreeOf(h, H, K, i, S, C)
<1>0. /\ Sound(h, H) /\ K = Lists(h) /\ i \in Nodes /\ h[i].live /\ S = Below(K, i)
      /\ \A r \in S : h[r].ref => h[r].child = NULL
      /\ \A m \in S : C[m] \in Nodes /\ ~h[C[m]].live
      /\ \A m, x \in S : C[m] = C[x] => m = x
  BY DEF Copied
<1>1. /\ h \in Heap /\ H \in SUBSET Nodes /\ K \in [Nodes -> Seq(Nodes)] /\ Shape(h, H, K) /\ Acyclic(K)
      /\ Rows(h, K) /\ Once(K) /\ Listed(h, H, K) /\ Loose(h, H, K) /\ Pointing(h)
  BY <1>0 DEF Sound, Shape
<1>2. i \in S /\ S \in SUBSET Nodes /\ NULL \notin S /\ Closed(K, S)
  BY <1>0, BelowIs, SizeIs
<1>3. \A m \in S : h[m].live
  BY <1>0, <1>1, BelowLive
<1>4. \A m \in S : C[m] \notin H /\ K[C[m]] = <<>>
  BY <1>0, <1>1 DEF Loose, Rows, Holds
<1>5. ASSUME NEW m \in S, NEW k \in 1 .. Len(K[m])
      PROVE  K[m][k] \in S /\ K[m][k] # i
  <2>1. m \in Nodes /\ K[m] \in Seq(Nodes)
    BY <1>1, <1>2
  <2>2. K[m][k] \in Nodes /\ In(K[m][k], K[m])
    BY <2>1 DEF In
  <2>3. K[m][k] \in S
    BY <1>2, <2>2 DEF Closed
  <2>4. m \notin Below(K, K[m][k])
    BY <1>1, <2>1, <2>2, NotBelowItself
  <2> QED  BY <1>0, <2>3, <2>4
<1>6. \A m \in S : h[m].child = First(K[m]) /\ Chain(h, K[m])
  <2> SUFFICES ASSUME NEW m \in S PROVE h[m].child = First(K[m]) /\ Chain(h, K[m])
    OBVIOUS
  <2>1. m \in Nodes /\ h[m].live
    BY <1>2, <1>3
  <2>2. CASE ~h[m].ref
    BY <1>1, <2>1, <2>2 DEF Rows, Holds
  <2>3. CASE h[m].ref
    <3>1. K[m] = <<>> /\ h[m].child = NULL
      BY <1>0, <1>1, <2>1, <2>3 DEF Rows, Holds
    <3> QED  BY <3>1 DEF First, Chain
  <2> QED  BY <2>2, <2>3
<1>7. \A m \in S : m # i => \E p \in S : In(m, K[p])
  BY <1>0, BelowOwned
<1>8. \A n \in Nodes : \A k \in 1 .. Len(K[n]) : K[n][k] \in Nodes /\ \A m \in S : K[n][k] # C[m]
  <2> SUFFICES ASSUME NEW n \in Nodes, NEW k \in 1 .. Len(K[n])
               PROVE  K[n][k] \in Nodes /\ \A m \in S : K[n][k] # C[m]
    OBVIOUS
  <2>1. K[n] \in Seq(Nodes) /\ h[K[n][k]].live
    BY <1>1 DEF Listed
  <2> QED  BY <1>0, <2>1
<1> QED  BY <1>1, <1>2, <1>3, <1>4, <1>5, <1>6, <1>7, <1>8 DEF TreeOf

\* There are lists of the copies.
LEMMA CopiedExist ==
  ASSUME NEW h, NEW H, NEW K, NEW i, NEW S, NEW C, Copied(h, H, K, i, S, C)
  PROVE  \E L : IsCopied(L, K, S, C)
<1> DEFINE Row(m) == [k \in 1 .. Len(K[m]) |-> C[K[m][k]]]
           L == [n \in Nodes |-> IF \E m \in S : n = C[m] THEN Row(CHOOSE m \in S : n = C[m]) ELSE K[n]]
<1>0. /\ \A m \in S : C[m] \in Nodes
      /\ \A m, x \in S : C[m] = C[x] => m = x
  BY DEF Copied
<1>1. K \in [Nodes -> Seq(Nodes)] /\ S \in SUBSET Nodes /\ \A m \in S : \A k \in 1 .. Len(K[m]) : K[m][k] \in S
  BY TreeIs DEF TreeOf
<1>2. \A m \in S : /\ Row(m) \in Seq(Nodes) /\ Len(Row(m)) = Len(K[m])
                   /\ \A k \in 1 .. Len(K[m]) : Row(m)[k] = C[K[m][k]]
  <2> SUFFICES ASSUME NEW m \in S
               PROVE  /\ Row(m) \in Seq(Nodes) /\ Len(Row(m)) = Len(K[m])
                      /\ \A k \in 1 .. Len(K[m]) : Row(m)[k] = C[K[m][k]]
    OBVIOUS
  <2>1. Len(K[m]) \in Nat
    BY <1>1
  <2>2. \A k \in 1 .. Len(K[m]) : C[K[m][k]] \in Nodes
    BY <1>0, <1>1
  <2> QED  BY <2>1, <2>2
<1> HIDE DEF Row
<1>3. \A m \in S : L[C[m]] = Row(m)
  BY <1>0
<1>4. \A n \in Nodes : (\A m \in S : n # C[m]) => L[n] = K[n]
  OBVIOUS
<1>5. L \in [Nodes -> Seq(Nodes)]
  <2> SUFFICES ASSUME NEW n \in Nodes PROVE L[n] \in Seq(Nodes)
    OBVIOUS
  <2>1. CASE \E m \in S : n = C[m]
    BY <1>2, <1>3, <2>1
  <2>2. CASE ~\E m \in S : n = C[m]
    BY <1>1, <2>2
  <2> QED  BY <2>1, <2>2
<1> HIDE DEF L
<1>6. IsCopied(L, K, S, C)
  BY <1>2, <1>3, <1>4, <1>5 DEF IsCopied
<1> QED  BY <1>6

Duplicates(h, H, K, i, S, C, g, L) ==
  Copied(h, H, K, i, S, C) /\ IsCopy(h, i, S, C, g) /\ IsCopied(L, K, S, C)

\* The copies, and everything else.
LEMMA CopyOrOld ==
  ASSUME NEW h, NEW H, NEW K, NEW i, NEW S, NEW C, NEW g, NEW L, Duplicates(h, H, K, i, S, C, g, L)
  PROVE  \A n \in Nodes : (\E m \in S : n = C[m]) \/ (g[n] = h[n] /\ L[n] = K[n] /\ \A m \in S : n # C[m])
BY DEF Duplicates, IsCopy, IsCopied

\* What is in a row of the new lists.
LEMMA CopiedRow ==
  ASSUME NEW h, NEW H, NEW K, NEW i, NEW S, NEW C, NEW g, NEW L, Duplicates(h, H, K, i, S, C, g, L),
         NEW m \in S, NEW x
  PROVE  In(x, L[C[m]]) <=> \E y \in S : In(y, K[m]) /\ x = C[y]
<1>1. /\ Len(L[C[m]]) = Len(K[m]) /\ \A k \in 1 .. Len(K[m]) : L[C[m]][k] = C[K[m][k]] /\ K[m][k] \in S
  BY TreeIs DEF Duplicates, IsCopied, TreeOf
<1>2. ASSUME In(x, L[C[m]]) PROVE \E y \in S : In(y, K[m]) /\ x = C[y]
  <2>1. PICK k \in 1 .. Len(L[C[m]]) : L[C[m]][k] = x
    BY <1>2 DEF In
  <2>2. k \in 1 .. Len(K[m]) /\ x = C[K[m][k]] /\ K[m][k] \in S
    BY <1>1, <2>1
  <2> QED  BY <2>2 DEF In
<1>3. ASSUME NEW y \in S, In(y, K[m]), x = C[y] PROVE In(x, L[C[m]])
  <2>1. PICK k \in 1 .. Len(K[m]) : K[m][k] = y
    BY <1>3 DEF In
  <2>2. k \in 1 .. Len(L[C[m]]) /\ L[C[m]][k] = x
    BY <1>1, <1>3, <2>1
  <2> QED  BY <2>2 DEF In
<1> QED  BY <1>2, <1>3

\* The lists with those of the copies are trees.
LEMMA CopiedAcyclic ==
  ASSUME NEW h, NEW H, NEW K, NEW i, NEW S, NEW C, NEW g, NEW L, Duplicates(h, H, K, i, S, C, g, L)
  PROVE  Acyclic(L)
<1>0. /\ \A m \in S : C[m] \in Nodes
      /\ \A m, x \in S : C[m] = C[x] => m = x
  BY DEF Duplicates, Copied
<1>1. /\ Acyclic(K) /\ S \in SUBSET Nodes /\ Closed(K, S)
      /\ \A n \in Nodes : \A k \in 1 .. Len(K[n]) : \A m \in S : K[n][k] # C[m]
  BY TreeIs DEF TreeOf, Duplicates
<1>2. \A n \in Nodes : (\E m \in S : n = C[m]) \/ (L[n] = K[n] /\ \A m \in S : n # C[m])
  BY CopyOrOld
<1> SUFFICES ASSUME NEW X \in SUBSET Nodes, X # {}
             PROVE  \E x \in X : \A m \in X : ~In(x, L[m])
  BY DEF Acyclic
<1> DEFINE Y == {m \in S : C[m] \in X}
<1>3. CASE Y = {}
  <2>1. \A m \in X : L[m] = K[m]
    BY <1>2, <1>3
  <2> QED  BY <1>1, <2>1 DEF Acyclic
<1>4. CASE Y # {}
  <2>1. PICK y \in Y : \A m \in Y : ~In(y, K[m])
    <3>1. Y \in SUBSET Nodes
      BY <1>1
    <3> HIDE DEF Y
    <3> QED  BY <1>1, <1>4, <3>1 DEF Acyclic
  <2>2. ASSUME NEW n \in X, In(C[y], L[n]) PROVE FALSE
    <3>1. CASE L[n] = K[n]
      <4>1. PICK k \in 1 .. Len(K[n]) : K[n][k] = C[y]
        BY <2>2, <3>1 DEF In
      <4> QED  BY <1>1, <4>1
    <3>2. CASE \E m \in S : n = C[m]
      <4>1. PICK m \in S : n = C[m]
        BY <3>2
      <4>2. In(C[y], L[C[m]]) /\ y \in S /\ m \in Y
        BY <2>2, <4>1
      <4> HIDE DEF Y
      <4>3. PICK x : x = C[y]
        OBVIOUS
      <4>4. PICK z \in S : In(z, K[m]) /\ x = C[z]
        <5>1. In(x, L[C[m]])
          BY <4>2, <4>3
        <5>2. In(x, L[C[m]]) <=> \E z \in S : In(z, K[m]) /\ x = C[z]
          BY <4>1, CopiedRow
        <5> QED  BY <5>1, <5>2
      <4>5. y = z
        BY <1>0, <4>2, <4>3, <4>4
      <4> QED  BY <2>1, <4>2, <4>4, <4>5
    <3> QED  BY <1>2, <3>1, <3>2
  <2> QED  BY <2>2
<1> QED  BY <1>3, <1>4

\* The copy of the tree is what is below the copy of its root.
LEMMA CopiedBelow ==
  ASSUME NEW h, NEW H, NEW K, NEW i, NEW S, NEW C, NEW g, NEW L, Duplicates(h, H, K, i, S, C, g, L)
  PROVE  Below(L, C[i]) = {C[m] : m \in S}
<1>0. i \in Nodes /\ S = Below(K, i) /\ \A m \in S : C[m] \in Nodes
  BY DEF Duplicates, Copied
<1>1. i \in S /\ S \in SUBSET Nodes /\ Closed(K, S)
  BY TreeIs DEF TreeOf, Duplicates
<1> DEFINE T == {C[m] : m \in S}
<1>2. T \in SUBSET Nodes /\ C[i] \in T /\ C[i] \in Nodes
  BY <1>0, <1>1
<1>3. Closed(L, T)
  <2> SUFFICES ASSUME NEW m \in S, NEW y \in Nodes, In(y, L[C[m]]) PROVE y \in T
    BY DEF Closed
  <2>1. PICK z \in S : y = C[z]
    BY CopiedRow
  <2> QED  BY <2>1
<1> HIDE DEF T
<1>4. Below(L, C[i]) \subseteq T
  BY <1>2, <1>3, BelowIs
<1> DEFINE X == {m \in S : C[m] \in Below(L, C[i])}
<1>5. i \in X /\ X \in SUBSET Nodes
  BY <1>1, <1>2, BelowIs
<1>6. Closed(K, X)
  <2> SUFFICES ASSUME NEW m \in X, NEW y \in Nodes, In(y, K[m]) PROVE y \in X
    BY DEF Closed
  <2>1. m \in S /\ y \in S /\ C[y] \in Nodes
    BY <1>0, <1>1 DEF Closed
  <2>2. In(C[y], L[C[m]])
    BY <2>1, CopiedRow
  <2>3. C[m] \in Below(L, C[i])
    OBVIOUS
  <2>4. C[y] \in Below(L, C[i])
    BY <1>2, <2>1, <2>2, <2>3, BelowIs DEF Closed
  <2> QED  BY <2>1, <2>4
<1> HIDE DEF X
<1>7. S \subseteq X
  BY <1>0, <1>5, <1>6, BelowIs
<1> QED  BY <1>4, <1>7 DEF X, T

\* They have the shape of the heap, the copy of the root in hand.
LEMMA CopiedShape ==
  ASSUME NEW h, NEW H, NEW K, NEW i, NEW S, NEW C, NEW g, NEW L, Duplicates(h, H, K, i, S, C, g, L)
  PROVE  Shape(g, H \cup {C[i]}, L)
<1>0. /\ \A m \in S : C[m] \in Nodes /\ ~h[C[m]].live
      /\ \A m, x \in S : C[m] = C[x] => m = x
  BY DEF Duplicates, Copied
<1>1. /\ h \in Heap /\ H \in SUBSET Nodes /\ K \in [Nodes -> Seq(Nodes)]
      /\ i \in S /\ S \in SUBSET Nodes /\ NULL \notin S
      /\ \A m \in S : h[m].live /\ C[m] \notin H /\ K[C[m]] = <<>>
      /\ \A m \in S : \A k \in 1 .. Len(K[m]) : K[m][k] \in S /\ K[m][k] # i
      /\ \A m \in S : h[m].child = First(K[m]) /\ Chain(h, K[m])
      /\ \A m \in S : m # i => \E p \in S : In(m, K[p])
      /\ \A n \in Nodes : \A k \in 1 .. Len(K[n]) : K[n][k] \in Nodes /\ \A m \in S : K[n][k] # C[m]
  BY TreeIs DEF TreeOf, Duplicates
<1>2. Rows(h, K) /\ Once(K) /\ Listed(h, H, K) /\ Loose(h, H, K) /\ Pointing(h)
  BY TreeIs DEF TreeOf, Duplicates, Shape
<1>3. /\ g \in Heap
      /\ \A m \in S : /\ g[C[m]].live = h[m].live /\ ~g[C[m]].ref
                      /\ g[C[m]].key = h[m].key /\ g[C[m]].const = h[m].const
                      /\ g[C[m]].child = Moved(C, S, h[m].child)
                      /\ g[C[m]].next = IF m = i THEN NULL ELSE Moved(C, S, h[m].next)
                      /\ g[C[m]].prev = IF m = i THEN NULL ELSE Moved(C, S, h[m].prev)
  BY DEF Duplicates, IsCopy
<1>4. /\ L \in [Nodes -> Seq(Nodes)]
      /\ \A m \in S : /\ Len(L[C[m]]) = Len(K[m])
                      /\ \A k \in 1 .. Len(K[m]) : L[C[m]][k] = C[K[m][k]]
  BY DEF Duplicates, IsCopied
<1>5. \A n \in Nodes : (\E m \in S : n = C[m]) \/ (g[n] = h[n] /\ L[n] = K[n] /\ \A m \in S : n # C[m])
  BY CopyOrOld
<1>6. Rows(g, L)
  <2> SUFFICES ASSUME NEW n \in Nodes
               PROVE  IF Holds(g, n) THEN g[n].child = First(L[n]) /\ Chain(g, L[n]) ELSE L[n] = <<>>
    BY DEF Rows
  <2>1. CASE g[n] = h[n] /\ L[n] = K[n] /\ \A m \in S : n # C[m]
    <3>1. CASE ~Holds(g, n)
      BY <1>2, <2>1, <3>1 DEF Rows, Holds
    <3>2. CASE Holds(g, n)
      <4>1. h[n].child = First(K[n]) /\ Chain(h, K[n])
        BY <1>2, <2>1, <3>2 DEF Rows, Holds
      <4>2. \A k \in 1 .. Len(K[n]) : g[K[n][k]] = h[K[n][k]]
        <5> SUFFICES ASSUME NEW k \in 1 .. Len(K[n]) PROVE g[K[n][k]] = h[K[n][k]]
          OBVIOUS
        <5>1. K[n][k] \in Nodes /\ \A m \in S : K[n][k] # C[m]
          BY <1>1
        <5>2. PICK x \in Nodes : x = K[n][k]
          BY <5>1
        <5>3. g[x] = h[x]
          BY <1>5, <5>1, <5>2
        <5> QED  BY <5>2, <5>3
      <4>3. Chain(g, K[n])
        BY <4>1, <4>2 DEF Chain
      <4> QED  BY <2>1, <3>2, <4>1, <4>3
    <3> QED  BY <3>1, <3>2
  <2>2. CASE \E m \in S : n = C[m]
    <3>1. PICK m \in S : n = C[m]
      BY <2>2
    <3>2. PICK s : s = K[m]
      OBVIOUS
    <3>3. PICK t : t = L[n]
      OBVIOUS
    <3>4. s \in Seq(Nodes) /\ t \in Seq(Nodes) /\ Len(s) \in Nat
      BY <1>1, <1>4, <3>2, <3>3
    <3>5. /\ Len(t) = Len(s)
          /\ \A k \in 1 .. Len(s) : t[k] = C[s[k]] /\ s[k] \in S /\ s[k] # i
      BY <1>1, <1>4, <3>1, <3>2, <3>3
    <3>6. Chain(h, s) /\ h[m].child = First(s)
      BY <1>1, <3>2
    <3>7. g[n].live /\ ~g[n].ref /\ g[n].child = Moved(C, S, h[m].child)
      BY <1>1, <1>3, <3>1
    <3>8. g[n].child = First(t)
      <4>1. CASE s = <<>>
        <5>1. t = <<>> /\ h[m].child = NULL
          BY <3>4, <3>5, <3>6, <4>1 DEF First
        <5> QED  BY <1>1, <3>7, <5>1 DEF First, Moved
      <4>2. CASE s # <<>>
        <5>1. 1 \in 1 .. Len(s) /\ t # <<>>
          BY <3>4, <3>5, <4>2
        <5>2. t[1] = C[s[1]] /\ s[1] \in S /\ h[m].child = s[1]
          BY <3>5, <3>6, <4>2, <5>1 DEF First
        <5> QED  BY <3>7, <5>1, <5>2 DEF First, Moved
      <4> QED  BY <4>1, <4>2
    <3>9. Chain(g, t)
      <4> SUFFICES ASSUME NEW k \in 1 .. Len(t)
                   PROVE  /\ g[t[k]].prev = t[IF k = 1 THEN Len(t) ELSE k - 1]
                          /\ g[t[k]].next = IF k = Len(t) THEN NULL ELSE t[k + 1]
        BY DEF Chain
      <4>1. k \in 1 .. Len(s) /\ t[k] = C[s[k]] /\ s[k] \in S /\ s[k] # i
        BY <3>5
      <4>2. /\ h[s[k]].prev = s[IF k = 1 THEN Len(s) ELSE k - 1]
            /\ h[s[k]].next = IF k = Len(s) THEN NULL ELSE s[k + 1]
        BY <3>6, <4>1 DEF Chain
      <4>3. g[t[k]].next = Moved(C, S, h[s[k]].next) /\ g[t[k]].prev = Moved(C, S, h[s[k]].prev)
        BY <1>3, <4>1
      <4>4. g[t[k]].prev = t[IF k = 1 THEN Len(t) ELSE k - 1]
        <5>1. PICK j : j = IF k = 1 THEN Len(s) ELSE k - 1
          OBVIOUS
        <5>2. j \in 1 .. Len(s)
          BY <3>4, <4>1, <5>1
        <5>3. t[j] = C[s[j]] /\ s[j] \in S
          BY <3>5, <5>2
        <5>4. h[s[k]].prev = s[j]
          BY <4>2, <5>1
        <5>5. g[t[k]].prev = t[j]
          BY <4>3, <5>3, <5>4 DEF Moved
        <5> QED  BY <3>5, <5>1, <5>5
      <4>5. g[t[k]].next = IF k = Len(t) THEN NULL ELSE t[k + 1]
        <5>1. CASE k = Len(s)
          <6>1. h[s[k]].next = NULL
            BY <4>2, <5>1
          <6> QED  BY <1>1, <3>5, <4>3, <5>1, <6>1 DEF Moved
        <5>2. CASE k # Len(s)
          <6>1. k + 1 \in 1 .. Len(s) /\ h[s[k]].next = s[k + 1]
            BY <3>4, <4>1, <4>2, <5>2
          <6>2. t[k + 1] = C[s[k + 1]] /\ s[k + 1] \in S
            BY <3>5, <6>1
          <6> QED  BY <3>5, <4>3, <5>2, <6>1, <6>2 DEF Moved
        <5> QED  BY <5>1, <5>2
      <4> QED  BY <4>4, <4>5
    <3> QED  BY <3>3, <3>7, <3>8, <3>9 DEF Holds
  <2> QED  BY <1>5, <2>1, <2>2
<1>7. Once(L)
  <2> SUFFICES ASSUME NEW m \in Nodes, NEW n \in Nodes, NEW j \in 1 .. Len(L[m]), NEW k \in 1 .. Len(L[n]),
                      L[m][j] = L[n][k]
               PROVE  m = n /\ j = k
    BY DEF Once
  <2>1. CASE L[m] = K[m] /\ L[n] = K[n]
    BY <1>2, <2>1 DEF Once
  <2>2. ASSUME NEW a \in S, m = C[a] PROVE j \in 1 .. Len(K[a]) /\ L[m][j] = C[K[a][j]] /\ K[a][j] \in S /\ a \in Nodes
    BY <1>1, <1>4, <2>2
  <2>3. ASSUME NEW a \in S, n = C[a] PROVE k \in 1 .. Len(K[a]) /\ L[n][k] = C[K[a][k]] /\ K[a][k] \in S /\ a \in Nodes
    BY <1>1, <1>4, <2>3
  <2>4. CASE (\E a \in S : m = C[a]) /\ L[n] = K[n]
    <3>1. PICK a \in S : m = C[a]
      BY <2>4
    <3>2. K[n][k] = C[K[a][j]] /\ K[a][j] \in S /\ k \in 1 .. Len(K[n])
      BY <2>2, <2>4, <3>1
    <3> QED  BY <1>1, <3>2
  <2>5. CASE L[m] = K[m] /\ \E a \in S : n = C[a]
    <3>1. PICK a \in S : n = C[a]
      BY <2>5
    <3>2. K[m][j] = C[K[a][k]] /\ K[a][k] \in S /\ j \in 1 .. Len(K[m])
      BY <2>3, <2>5, <3>1
    <3> QED  BY <1>1, <3>2
  <2>6. CASE (\E a \in S : m = C[a]) /\ \E a \in S : n = C[a]
    <3>1. PICK a \in S : m = C[a]
      BY <2>6
    <3>2. PICK b \in S : n = C[b]
      BY <2>6
    <3>3. /\ j \in 1 .. Len(K[a]) /\ K[a][j] \in S /\ a \in Nodes
          /\ k \in 1 .. Len(K[b]) /\ K[b][k] \in S /\ b \in Nodes /\ C[K[a][j]] = C[K[b][k]]
      BY <2>2, <2>3, <3>1, <3>2
    <3>4. K[a][j] = K[b][k]
      BY <1>0, <3>3
    <3> QED  BY <1>2, <3>1, <3>2, <3>3, <3>4 DEF Once
  <2> QED  BY <1>5, <2>1, <2>4, <2>5, <2>6
<1>8. Listed(g, H \cup {C[i]}, L)
  <2> SUFFICES ASSUME NEW n \in Nodes, NEW k \in 1 .. Len(L[n])
               PROVE  g[L[n][k]].live /\ L[n][k] \notin H \cup {C[i]}
    BY DEF Listed
  <2>1. CASE L[n] = K[n]
    <3>1. /\ k \in 1 .. Len(K[n]) /\ K[n][k] \in Nodes /\ (\A m \in S : K[n][k] # C[m])
          /\ h[K[n][k]].live /\ K[n][k] \notin H
      BY <1>1, <1>2, <2>1 DEF Listed
    <3>2. g[K[n][k]] = h[K[n][k]] /\ K[n][k] # C[i]
      BY <1>1, <1>5, <3>1
    <3> QED  BY <2>1, <3>1, <3>2
  <2>2. CASE \E m \in S : n = C[m]
    <3>1. PICK m \in S : n = C[m]
      BY <2>2
    <3>2. PICK x : x = K[m][k]
      OBVIOUS
    <3>3. L[n][k] = C[x] /\ x \in S /\ x # i
      BY <1>1, <1>4, <3>1, <3>2
    <3>4. h[x].live /\ C[x] \notin H /\ i \in S
      BY <1>1, <3>3
    <3>5. g[C[x]].live /\ C[x] # C[i]
      BY <1>0, <1>3, <3>3, <3>4
    <3> QED  BY <3>3, <3>4, <3>5
  <2> QED  BY <1>5, <2>1, <2>2
<1>9. Loose(g, H \cup {C[i]}, L)
  <2>1. \A n \in H \cup {C[i]} : g[n].live
    <3>1. ASSUME NEW n \in H PROVE g[n].live
      <4>1. n \in Nodes /\ h[n].live /\ \A m \in S : n # C[m]
        BY <1>1, <1>2 DEF Loose
      <4> QED  BY <1>5, <4>1
    <3>2. g[C[i]].live
      BY <1>1, <1>3
    <3> QED  BY <3>1, <3>2
  <2>2. ASSUME NEW n \in Nodes, g[n].live, ~Owned(L, n)
        PROVE  g[n].next = NULL /\ g[n].prev = NULL /\ (n \in H \cup {C[i]} \/ (g[n].ref /\ g[n].key = "none"))
    <3>1. CASE g[n] = h[n] /\ L[n] = K[n] /\ \A m \in S : n # C[m]
      <4>1. ~Owned(K, n)
        <5> SUFFICES ASSUME NEW p \in Nodes, In(n, K[p]) PROVE FALSE
          BY DEF Owned
        <5>1. L[p] = K[p]
          <6>1. K[p] # <<>>
            BY DEF In
          <6> QED  BY <1>1, <1>5, <6>1
        <5> QED  BY <2>2, <5>1 DEF Owned
      <4> QED  BY <1>2, <2>2, <3>1, <4>1 DEF Loose
    <3>2. CASE \E m \in S : n = C[m]
      <4>1. PICK m \in S : n = C[m]
        BY <3>2
      <4>2. m = i
        <5> SUFFICES ASSUME m # i PROVE FALSE
          OBVIOUS
        <5>1. PICK p \in S : In(m, K[p])
          BY <1>1
        <5>2. In(n, L[C[p]]) /\ C[p] \in Nodes
          BY <1>0, <4>1, <5>1, CopiedRow
        <5> QED  BY <2>2, <5>2 DEF Owned
      <4> QED  BY <1>1, <1>3, <4>1, <4>2
    <3> QED  BY <1>5, <3>1, <3>2
  <2> QED  BY <2>1, <2>2 DEF Loose
<1>10. Pointing(g)
  <2>1. \A x : Target(h, x) => Target(g, x)
    <3> SUFFICES ASSUME NEW x \in Nodes, h[x].live PROVE g[x].live
      BY DEF Target
    <3> QED  BY <1>0, <1>5
  <2>2. \A x : Target(g, Moved(C, S, x)) /\ Target(g, NULL)
    BY <1>0, <1>1, <1>3 DEF Moved, Target
  <2> SUFFICES ASSUME NEW n \in Nodes, g[n].live
               PROVE  Target(g, g[n].next) /\ Target(g, g[n].prev) /\ Target(g, g[n].child)
    BY DEF Pointing
  <2>3. CASE g[n] = h[n]
    BY <1>2, <2>1, <2>3 DEF Pointing
  <2>4. CASE \E m \in S : n = C[m]
    BY <1>3, <2>2, <2>4
  <2> QED  BY <1>5, <2>3, <2>4
<1>11. H \cup {C[i]} \in SUBSET Nodes
  BY <1>0, <1>1
<1> QED  BY <1>3, <1>4, <1>6, <1>7, <1>8, <1>9, <1>10, <1>11 DEF Shape

\* The copies have their own copies of the keys.
LEMMA CopiedKeyed ==
  ASSUME NEW h, NEW H, NEW K, NEW i, NEW S, NEW C, NEW g, NEW L, Duplicates(h, H, K, i, S, C, g, L),
         NEW c, Keyed(h, c)
  PROVE  Keyed(g, c + OwnKeys(h, S))
<1> DEFINE A == HeapKeys(h) \cap S
           T == {C[m] : m \in A}
           f == [m \in A |-> C[m]]
<1>0. /\ \A m \in S : C[m] \in Nodes /\ ~h[C[m]].live
      /\ \A m, x \in S : C[m] = C[x] => m = x
  BY DEF Duplicates, Copied
<1>1. h \in Heap /\ S \in SUBSET Nodes /\ \A m \in S : h[m].live
  BY TreeIs DEF TreeOf, Duplicates
<1>2. \A m \in S : g[C[m]].live /\ g[C[m]].key = h[m].key /\ g[C[m]].const = h[m].const
  BY <1>1 DEF Duplicates, IsCopy
<1>3. \A n \in Nodes : (\E m \in S : n = C[m]) \/ (g[n] = h[n] /\ \A m \in S : n # C[m])
  BY CopyOrOld
<1>4. OwnKeys(h, S) = Cardinality(A)
  <2>1. S \in SUBSET Live(h)
    BY <1>1 DEF Live
  <2> QED  BY <1>1, <2>1, OwnKeysAre DEF OwnKeys
<1>5. IsFiniteSet(HeapKeys(h)) /\ IsFiniteSet(A)
  BY HeapKeysFinite, FS_Subset
<1>6. IsFiniteSet(T) /\ Cardinality(T) = Cardinality(A)
  <2>1. f \in Surjection(A, T) /\ f \in Injection(A, T)
    <3>1. f \in [A -> T] /\ \A m \in A : f[m] = C[m]
      OBVIOUS
    <3>2. \A m, x \in A : f[m] = f[x] => m = x
      BY <1>0
    <3>3. \A t \in T : \E m \in A : f[m] = t
      OBVIOUS
    <3> HIDE DEF f, T, A
    <3> QED  BY <3>1, <3>2, <3>3 DEF Surjection, Injection, IsInjective
  <2> HIDE DEF f, T, A
  <2> QED  BY <1>5, <2>1, FS_Surjection
<1>7. HeapKeys(g) = HeapKeys(h) \cup T
  <2>1. \A n \in Nodes : n \in HeapKeys(g) => n \in HeapKeys(h) \cup T
    <3> SUFFICES ASSUME NEW n \in HeapKeys(g), n \in Nodes PROVE n \in HeapKeys(h) \cup T
      OBVIOUS
    <3>1. g[n].live /\ g[n].key = "heap"
      BY DEF HeapKeys, Live
    <3>2. CASE g[n] = h[n]
      BY <3>1, <3>2 DEF HeapKeys, Live
    <3>3. CASE \E m \in S : n = C[m]
      <4>1. PICK m \in S : n = C[m]
        BY <3>3
      <4>2. m \in HeapKeys(h)
        BY <1>1, <1>2, <3>1, <4>1 DEF HeapKeys, Live
      <4> QED  BY <4>1, <4>2
    <3> QED  BY <1>3, <3>2, <3>3
  <2>2. \A m \in A : C[m] \in HeapKeys(g)
    BY <1>0, <1>2 DEF HeapKeys, Live
  <2>3. \A n \in HeapKeys(h) : n \in HeapKeys(g)
    <3> SUFFICES ASSUME NEW n \in HeapKeys(h) PROVE n \in HeapKeys(g)
      OBVIOUS
    <3>1. n \in Nodes /\ h[n].live /\ h[n].key = "heap"
      BY DEF HeapKeys, Live
    <3>2. g[n] = h[n]
      BY <1>0, <1>3, <3>1
    <3> QED  BY <3>1, <3>2 DEF HeapKeys, Live
  <2> QED  BY <2>1, <2>2, <2>3, HeapKeysFinite
<1>8. HeapKeys(h) \cap T = {}
  BY <1>0 DEF HeapKeys, Live
<1> HIDE DEF T, A
<1>9. Cardinality(HeapKeys(h) \cup T) = Cardinality(HeapKeys(h)) + Cardinality(T)
  <2>1. Cardinality(HeapKeys(h) \cup T) = Cardinality(HeapKeys(h)) + Cardinality(T) - Cardinality(HeapKeys(h) \cap T)
    BY <1>5, <1>6, FS_Union
  <2>2. Cardinality(HeapKeys(h) \cap T) = 0
    BY <1>8, FS_EmptySet
  <2>3. Cardinality(HeapKeys(h)) \in Nat /\ Cardinality(T) \in Nat
    BY <1>5, <1>6, FS_CardinalityType
  <2> QED  BY <2>1, <2>2, <2>3
<1>10. \A n \in Nodes : /\ g[n].key = "heap" => ~g[n].const
                        /\ g[n].key = "const" => g[n].const
  <2> SUFFICES ASSUME NEW n \in Nodes
               PROVE  (g[n].key = "heap" => ~g[n].const) /\ (g[n].key = "const" => g[n].const)
    OBVIOUS
  <2>1. CASE g[n] = h[n]
    BY <2>1 DEF Keyed
  <2>2. CASE \E m \in S : n = C[m]
    BY <1>1, <1>2, <2>2 DEF Keyed
  <2> QED  BY <1>3, <2>1, <2>2
<1> QED  BY <1>4, <1>6, <1>7, <1>9, <1>10 DEF Keyed

\* A heap with a copy of one of its trees in the caller's hand.
LEMMA CopySound ==
  ASSUME NEW h, NEW H, NEW K, NEW i, NEW S, NEW C, NEW g, Copied(h, H, K, i, S, C), IsCopy(h, i, S, C, g)
  PROVE  \E L : Duplicates(h, H, K, i, S, C, g, L) /\ Sound(g, H \cup {C[i]}) /\ Lists(g) = L
<1>1. PICK L : IsCopied(L, K, S, C)
  BY CopiedExist
<1>2. Duplicates(h, H, K, i, S, C, g, L)
  BY <1>1 DEF Duplicates
<1>3. Shape(g, H \cup {C[i]}, L) /\ Acyclic(L)
  BY <1>2, CopiedShape, CopiedAcyclic
<1>4. Sound(g, H \cup {C[i]}) /\ Lists(g) = L
  BY <1>3, SoundIs
<1> QED  BY <1>2, <1>4

\* cJSON_Duplicate.
LEMMA DuplicateStep ==
  ASSUME IInv, NEW i \in Live(heap), Duplicate(i)
  PROVE  IInv' /\ Forest!Make
<1>1. PICK K : K = Lists(heap)
  OBVIOUS
<1>2. PICK S : S = Subtree(heap, i)
  OBVIOUS
<1>3. /\ Sound(heap, held) /\ Keyed(heap, strings) /\ heap \in Heap /\ K \in [Nodes -> Seq(Nodes)]
      /\ \A n \in Free(heap) : n \in Nodes /\ ~heap[n].live /\ n \notin Known(heap, held)
  BY <1>1, Here
<1>4. i \in Nodes /\ heap[i].live
  BY DEF Live
<1>5. S = Below(K, i)
  BY <1>1, <1>2, <1>3, <1>4, SoundFacts
<1>6. i \in S /\ S \in SUBSET Nodes
  BY <1>4, <1>5, BelowIs
<1> DEFINE Move(C, m) == IF m \in S THEN C[m] ELSE NULL
           Image(C, m) == [heap[m] EXCEPT !.ref = FALSE, !.child = Move(C, @),
                             !.next = IF m = i THEN NULL ELSE Move(C, @),
                             !.prev = IF m = i THEN NULL ELSE Move(C, @)]
<1>7. PICK C \in Injection(S, Free(heap)) :
        /\ heap' = [n \in Nodes |-> IF n \in Range(C) THEN Image(C, AntiFunction(C)[n]) ELSE heap[n]]
        /\ held' = held \cup {C[i]}
        /\ strings' = strings + OwnKeys(heap, S)
  BY <1>2, ZenonT(60) DEF Duplicate
<1>8. held' = held \cup {C[i]} /\ strings' = strings + OwnKeys(heap, S)
  BY <1>7
<1>9. /\ C \in [S -> Free(heap)] /\ DOMAIN C = S
      /\ \A m, x \in S : C[m] = C[x] => m = x
      /\ \A m \in S : C[m] \in Nodes /\ ~heap[C[m]].live /\ C[m] \notin Known(heap, held)
  BY <1>3 DEF Injection, IsInjective
<1>10. Range(C) = {C[m] : m \in S} /\ \A m \in S : AntiFunction(C)[C[m]] = m
  <2>1. Range(C) = {C[m] : m \in S}
    BY <1>9 DEF Range
  <2> SUFFICES ASSUME NEW m \in S PROVE AntiFunction(C)[C[m]] = m
    BY <2>1
  <2>2. PICK n : n = C[m]
    OBVIOUS
  <2>3. n \in Range(C)
    BY <2>1, <2>2
  <2>4. AntiFunction(C)[n] = CHOOSE x \in S : n \in Range(C) => C[x] = n
    BY <1>9, <2>3 DEF AntiFunction, Inverse
  <2>5. \E x \in S : n \in Range(C) => C[x] = n
    BY <2>2
  <2>6. \A y : y = (CHOOSE x \in S : n \in Range(C) => C[x] = n) => y \in S /\ C[y] = n
    BY <2>3, <2>5
  <2> QED  BY <1>9, <2>2, <2>4, <2>6
<1>11. IsCopy(heap, i, S, C, heap')
  <2>1. ASSUME NEW m \in S PROVE heap'[C[m]] = Image(C, m)
    <3>1. C[m] \in Nodes /\ C[m] \in Range(C) /\ AntiFunction(C)[C[m]] = m
      BY <1>9, <1>10
    <3> HIDE DEF Image, Move
    <3> QED  BY <1>7, <3>1
  <2>2. ASSUME NEW n \in Nodes, \A m \in S : n # C[m] PROVE heap'[n] = heap[n]
    <3>1. n \notin Range(C)
      BY <1>10, <2>2
    <3> HIDE DEF Image, Move
    <3> QED  BY <1>7, <3>1
  <2>3. ASSUME NEW m \in S
        PROVE  /\ Image(C, m) \in Item
               /\ Image(C, m).live = heap[m].live /\ ~Image(C, m).ref
               /\ Image(C, m).key = heap[m].key /\ Image(C, m).const = heap[m].const
               /\ Image(C, m).child = Moved(C, S, heap[m].child)
               /\ Image(C, m).next = IF m = i THEN NULL ELSE Moved(C, S, heap[m].next)
               /\ Image(C, m).prev = IF m = i THEN NULL ELSE Moved(C, S, heap[m].prev)
    <3>1. heap[m] \in Item /\ \A x : Move(C, x) \in Links /\ Move(C, x) = Moved(C, S, x)
      BY <1>3, <1>6, <1>9 DEF Heap, Links, Moved
    <3> HIDE DEF Move
    <3>2. /\ Image(C, m) = [heap[m] EXCEPT !.ref = FALSE, !.child = Move(C, heap[m].child),
                             !.next = IF m = i THEN NULL ELSE Move(C, heap[m].next),
                             !.prev = IF m = i THEN NULL ELSE Move(C, heap[m].prev)]
      BY <3>1 DEF Item
    <3> HIDE DEF Image
    <3>3. PICK c \in Links, p \in Links, q \in Links :
            /\ c = Moved(C, S, heap[m].child)
            /\ p = IF m = i THEN NULL ELSE Moved(C, S, heap[m].next)
            /\ q = IF m = i THEN NULL ELSE Moved(C, S, heap[m].prev)
      BY <3>1 DEF Links
    <3>4. PICK x \in Item : x = heap[m]
      BY <3>1
    <3>5. Image(C, m) = [x EXCEPT !.ref = FALSE, !.child = c, !.next = p, !.prev = q]
      <4>1. /\ c = Move(C, heap[m].child)
            /\ p = IF m = i THEN NULL ELSE Move(C, heap[m].next)
            /\ q = IF m = i THEN NULL ELSE Move(C, heap[m].prev)
        BY <3>1, <3>3
      <4> QED  BY <3>2, <3>4, <4>1, Zenon
    <3>6. PICK y : y = [x EXCEPT !.ref = FALSE, !.child = c, !.next = p, !.prev = q]
      OBVIOUS
    <3>7. /\ y \in Item /\ y.live = x.live /\ ~y.ref /\ y.key = x.key /\ y.const = x.const
          /\ y.child = c /\ y.next = p /\ y.prev = q
      BY <3>6 DEF Item
    <3> QED  BY <3>3, <3>4, <3>5, <3>6, <3>7
  <2> HIDE DEF Image, Move
  <2>4. heap' \in Heap
    <3>1. heap' = [n \in Nodes |-> heap'[n]]
      BY <1>7
    <3>2. \A n \in Nodes : heap'[n] \in Item
      BY <1>3, <2>1, <2>2, <2>3 DEF Heap
    <3> QED  BY <3>1, <3>2 DEF Heap
  <2> QED  BY <2>1, <2>2, <2>3, <2>4 DEF IsCopy
<1> HIDE DEF Image, Move
<1>12. Copied(heap, held, K, i, S, C)
  <2>1. \A r \in S : heap[r].ref => heap[r].child = NULL
    BY <1>2 DEF Duplicate
  <2> QED  BY <1>1, <1>3, <1>4, <1>5, <1>9, <2>1 DEF Copied
<1>13. PICK L : Duplicates(heap, held, K, i, S, C, heap', L) /\ Sound(heap', held \cup {C[i]}) /\ Lists(heap') = L
  BY <1>11, <1>12, CopySound
<1>14. Keyed(heap', strings + OwnKeys(heap, S))
  BY <1>3, <1>13, CopiedKeyed
<1>15. Below(L, C[i]) = {C[m] : m \in S}
  BY <1>13, CopiedBelow
<1>16. \A n \in Nodes : (\E m \in S : n = C[m]) \/ L[n] = K[n]
  BY <1>13, CopyOrOld
<1>17. PICK root : root = C[i]
  OBVIOUS
<1>18. root \in Nodes /\ root \notin held /\ held' = held \cup {root}
  BY <1>6, <1>8, <1>9, <1>17 DEF Known
<1>19. Below(L, root) \cap Known(heap, held) = {} /\ \A n \in Nodes \ Below(L, root) : L[n] = K[n]
  BY <1>9, <1>15, <1>16, <1>17
<1>20. L \in [Nodes -> Seq(Nodes)] /\ L = Lists(heap')
  BY <1>13 DEF Duplicates, IsCopied
<1>21. Forest!Make
  BY <1>1, <1>3, <1>18, <1>19, <1>20, ForestMake
<1> QED  BY <1>8, <1>13, <1>14, <1>21 DEF IInv

---------------------------------------------------------------------------
(* All calls. *)
\* Every call keeps the invariant and is a step of the forest, or none.
LEMMA NextStep ==
  ASSUME IInv, [Next]_vars
  PROVE  IInv' /\ [Forest!Next]_(Forest!vars)
<1>1. CASE UNCHANGED vars
  <2>1. heap' = heap /\ held' = held /\ strings' = strings
    BY <1>1 DEF vars
  <2>2. IInv'
    BY <2>1 DEF IInv
  <2>3. UNCHANGED Forest!vars
    BY <2>1, ForestStutters
  <2> QED  BY <2>2, <2>3
<1>2. CASE CreateItem
  BY <1>2, CreateItemStep DEF Forest!Next
<1>3. CASE CreateArrayOf
  BY <1>3, CreateArrayOfStep DEF Forest!Next
<1>4. ASSUME NEW n \in Containers, AddNewToObject(n) PROVE IInv' /\ Forest!Next
  BY <1>4, AddNewToObjectStep DEF Forest!Next
<1>5. ASSUME NEW n \in Containers, DetachItemViaPointer(n) PROVE IInv' /\ Forest!Next
  BY <1>5, DetachItemViaPointerStep DEF Forest!Next
<1>6. ASSUME NEW n \in Containers, DeleteItem(n) PROVE IInv' /\ Forest!Next
  BY <1>6, DeleteItemStep DEF Forest!Next
<1>7. ASSUME NEW n \in Containers, NEW i \in Live(heap), AddItemToArray(n, i) PROVE IInv' /\ Forest!Next
  BY <1>7, AddItemToArrayStep DEF Forest!Next
<1>8. ASSUME NEW n \in Containers, NEW i \in Live(heap), AddItemToObject(n, i) PROVE IInv' /\ Forest!Next
  BY <1>8, AddItemToObjectStep DEF Forest!Next
<1>9. ASSUME NEW n \in Containers, NEW i \in Live(heap), AddItemReferenceToArray(n, i) PROVE IInv' /\ Forest!Next
  BY <1>9, AddItemReferenceToArrayStep DEF Forest!Next
<1>10. ASSUME NEW n \in Containers, NEW i \in Live(heap), AddItemReferenceToObject(n, i)
       PROVE  IInv' /\ [Forest!Next]_(Forest!vars)
  BY <1>10, AddItemReferenceToObjectStep DEF Forest!Next
<1>11. ASSUME NEW n \in Containers, NEW i \in Live(heap), InsertItemInArray(n, i) PROVE IInv' /\ Forest!Next
  BY <1>11, InsertItemInArrayStep DEF Forest!Next
<1>12. ASSUME NEW n \in Containers, NEW i \in Live(heap), ReplaceItemViaPointer(n, i) PROVE IInv' /\ Forest!Next
  BY <1>12, ReplaceItemViaPointerStep DEF Forest!Next
<1>13. ASSUME NEW n \in Containers, NEW i \in Live(heap), ReplaceItemInObject(n, i)
       PROVE  IInv' /\ [Forest!Next]_(Forest!vars)
  BY <1>13, ReplaceItemInObjectStep DEF Forest!Next
<1>14. ASSUME NEW i \in Live(heap), CreateReferenceTo(i) PROVE IInv' /\ Forest!Next
  BY <1>14, CreateReferenceToStep DEF Forest!Next
<1>15. ASSUME NEW i \in Live(heap), Delete(i) PROVE IInv' /\ Forest!Next
  BY <1>15, DeleteStep DEF Forest!Next
<1>16. ASSUME NEW i \in Live(heap), Duplicate(i) PROVE IInv' /\ Forest!Next
  BY <1>16, DuplicateStep DEF Forest!Next
<1> QED
  BY <1>1, <1>2, <1>3, <1>4, <1>5, <1>6, <1>7, <1>8, <1>9, <1>10, <1>11, <1>12, <1>13, <1>14, <1>15, <1>16, Zenon
     DEF Next

\* IInv holds in every state, however the calls follow one another.
THEOREM Invariance == Spec => []IInv
<1>1. Init => IInv
  BY InitSound
<1>2. IInv /\ [Next]_vars => IInv'
  BY NextStep
<1> QED  BY <1>1, <1>2, PTL DEF Spec

\* Every list is linked both ways, with the prev of its first item on its last one.
THEOREM ListsAreLinked == Spec => []ListsLinked
<1>1. IInv => ListsLinked
  <2> SUFFICES ASSUME IInv, NEW n \in Containers
               PROVE  LET s == Kids(heap, n) IN \A k \in DOMAIN s :
                        /\ heap[s[k]].prev = s[IF k = 1 THEN Len(s) ELSE k - 1]
                        /\ heap[s[k]].next = IF k = Len(s) THEN NULL ELSE s[k + 1]
    BY DEF ListsLinked
  <2>1. PICK K : K = Lists(heap)
    OBVIOUS
  <2>2. n \in Nodes /\ Holds(heap, n) /\ Sound(heap, held) /\ K \in [Nodes -> Seq(Nodes)]
    BY <2>1, Here
  <2>3. Kids(heap, n) = K[n]
    BY <2>1, <2>2, SoundFacts
  <2>4. Chain(heap, K[n])
    BY <2>1, <2>2 DEF Sound, Shape, Rows
  <2>5. DOMAIN K[n] = 1 .. Len(K[n])
    BY <2>2
  <2> QED  BY <2>3, <2>4, <2>5 DEF Chain
<1> QED  BY <1>1, Invariance, PTL

---------------------------------------------------------------------------
(* The places of an item. *)
\* An item is in one place of one list at most, and in none if no list has it.
LEMMA PlacesAre ==
  ASSUME IInv, NEW K, K = Lists(heap), NEW n
  PROVE  /\ \A p, q \in Places(n) : p = q
         /\ Places(n) = {} <=> ~Owned(K, n)
<1>1. /\ Sound(heap, held) /\ K \in [Nodes -> Seq(Nodes)]
      /\ \A m \in Containers : m \in Nodes /\ Holds(heap, m)
  BY Here
<1>2. Rows(heap, K) /\ Once(K)
  BY <1>1 DEF Sound, Shape
<1>3. \A m \in Nodes : Holds(heap, m) => m \in Containers /\ Kids(heap, m) = K[m]
  BY <1>1, SoundFacts DEF Holds, Containers, Live
<1>4. \A m \in Nodes : K[m] \in Seq(Nodes) /\ Len(K[m]) \in Nat /\ Len(K[m]) <= Size /\ Size \in Nat
  <2> SUFFICES ASSUME NEW m \in Nodes
               PROVE  K[m] \in Seq(Nodes) /\ Len(K[m]) \in Nat /\ Len(K[m]) <= Size /\ Size \in Nat
    OBVIOUS
  <2>1. K[m] \in Seq(Nodes) /\ Injective(K[m])
    BY <1>1, <1>2, RowInjective
  <2> QED  BY <2>1, ListShort, SizeIs
<1>5. ASSUME NEW at \in Places(n)
      PROVE  at[1] \in Nodes /\ at[2] \in 1 .. Len(K[at[1]]) /\ K[at[1]][at[2]] = n /\ at = <<at[1], at[2]>>
  <2>1. at \in Containers \X (1 .. Size) /\ at[2] <= Len(Kids(heap, at[1])) /\ Kids(heap, at[1])[at[2]] = n
    BY DEF Places
  <2>2. at[1] \in Nodes /\ Kids(heap, at[1]) = K[at[1]]
    BY <1>1, <1>3, <2>1
  <2>3. at[2] \in 1 .. Size /\ Len(K[at[1]]) \in Nat /\ Size \in Nat
    BY <1>4, <2>1, <2>2
  <2> QED  BY <2>1, <2>2, <2>3
<1>6. \A p, q \in Places(n) : p = q
  <2> SUFFICES ASSUME NEW p \in Places(n), NEW q \in Places(n) PROVE p = q
    OBVIOUS
  <2>1. p[1] = q[1] /\ p[2] = q[2]
    BY <1>2, <1>5 DEF Once
  <2> QED  BY <1>5, <2>1
<1>7. ASSUME NEW m \in Nodes, NEW k \in 1 .. Len(K[m]), K[m][k] = n PROVE <<m, k>> \in Places(n)
  <2>1. Holds(heap, m)
    BY <1>2, <1>4, <1>7 DEF Rows
  <2>2. m \in Containers /\ Kids(heap, m) = K[m]
    BY <1>3, <2>1
  <2>3. k \in 1 .. Size /\ k <= Len(K[m])
    BY <1>4
  <2> QED  BY <1>7, <2>2, <2>3 DEF Places
<1>8. Places(n) = {} <=> ~Owned(K, n)
  <2>1. ASSUME NEW at \in Places(n) PROVE Owned(K, n)
    BY <1>5 DEF Owned, In
  <2>2. ASSUME Owned(K, n) PROVE Places(n) # {}
    <3>1. PICK m \in Nodes : In(n, K[m])
      BY <2>2 DEF Owned
    <3>2. PICK k \in 1 .. Len(K[m]) : K[m][k] = n
      BY <3>1 DEF In
    <3> QED  BY <1>7, <3>2
  <2> QED  BY <2>1, <2>2
<1> QED  BY <1>6, <1>8

\* An item is the caller's or in one place of one list, nothing points to what was
\* freed, and the keys allocated are those of the items.
THEOREM ItemsOwnedOnce == Spec => []OwnedOnce
<1>1. IInv => OwnedOnce
  <2> SUFFICES ASSUME IInv PROVE OwnedOnce
    OBVIOUS
  <2>1. PICK K : K = Lists(heap)
    OBVIOUS
  <2>2. Sound(heap, held) /\ Keyed(heap, strings)
    BY <2>1, Here
  <2>3. Listed(heap, held, K) /\ Loose(heap, held, K) /\ Pointing(heap) /\ K \in [Nodes -> Seq(Nodes)]
    BY <2>1, <2>2 DEF Sound, Shape
  <2>4. ASSUME NEW n \in Live(heap) \ Lost
        PROVE  Cardinality(Places(n)) + (IF n \in held THEN 1 ELSE 0) = 1
    <3>1. (\A p, q \in Places(n) : p = q) /\ (Places(n) = {} <=> ~Owned(K, n))
      BY <2>1, PlacesAre
    <3>2. CASE n \in held
      <4>1. Places(n) = {}
        BY <2>3, <3>1, <3>2 DEF Listed, Owned, In
      <4> QED  BY <3>2, <4>1, FS_EmptySet
    <3>3. CASE n \notin held
      <4>1. PICK p \in Places(n) : TRUE
        BY <3>3 DEF Lost
      <4>2. Places(n) = {p}
        BY <3>1, <4>1
      <4> QED  BY <3>3, <4>2, FS_Singleton
    <3> QED  BY <3>2, <3>3
  <2>5. ASSUME NEW n \in Lost PROVE heap[n].ref /\ heap[n].key = "none"
    <3>1. n \in Nodes /\ heap[n].live /\ n \notin held /\ Places(n) = {}
      BY DEF Lost, Live
    <3>2. ~Owned(K, n)
      BY <2>1, <3>1, PlacesAre
    <3> QED  BY <2>3, <3>1, <3>2 DEF Loose
  <2>6. \A n \in Live(heap) : {heap[n].next, heap[n].prev, heap[n].child} \subseteq Live(heap) \cup {NULL}
    BY <2>3 DEF Pointing, Target, Live
  <2>7. strings = Cardinality({n \in Live(heap) : heap[n].key = "heap"})
    BY <2>2 DEF Keyed, HeapKeys
  <2> QED  BY <2>4, <2>5, <2>6, <2>7 DEF OwnedOnce
<1> QED  BY <1>1, Invariance, PTL

\* The pointers implement the sequences of JsonForest, call by call.
THEOREM PointersImplementForest == Spec => ImplementsForest
<1>1. Init => Forest!Init
  BY InitSound
<1>2. IInv /\ [Next]_vars => [Forest!Next]_(Forest!vars)
  BY NextStep
<1> QED  BY <1>1, <1>2, Invariance, PTL DEF Spec, ImplementsForest, Forest!Spec
=============================================================================
