----------------------------- MODULE JsonTree -----------------------------
(***************************************************************************)
(* The trees of cJSON.c as the library builds them: items on a heap,       *)
(* linked by next, prev and child, the prev of a list's first item being   *)
(* its last one.  A step is a call of the library.  What an item holds     *)
(* besides its key plays no part and is left out.                          *)
(*                                                                         *)
(* The caller keeps to what cJSON.h asks of it: it passes items it holds,  *)
(* adds none to its own subtree, changes nothing through a reference and   *)
(* does not delete what a reference still points to.                       *)
(***************************************************************************)
EXTENDS Integers, FiniteSets, Functions, SequencesExt

CONSTANTS
  Nodes, NULL,         \* the items the heap has room for; no item
  MaxKeys, MaxRefs     \* bounds: items that have a key, references
ASSUME NodesAssumption == IsFiniteSet(Nodes) /\ NULL \notin Nodes
ASSUME BoundsAssumption == {MaxKeys, MaxRefs} \subseteq Nat

VARIABLES
  heap,     \* the items
  held,     \* those the caller holds: in no list
  strings   \* keys allocated and not yet freed

vars == <<heap, held, strings>>

Size == Cardinality(Nodes)

\* key: "none", a copy on the heap, or the caller's own; const is cJSON_StringIsConst.
Blank == [live |-> FALSE, ref |-> FALSE, next |-> NULL, prev |-> NULL, child |-> NULL,
          key |-> "none", const |-> FALSE]
Init == heap = [n \in Nodes |-> Blank] /\ held = {} /\ strings = 0

Live(h) == {n \in Nodes : h[n].live}
Free(h) == Nodes \ Live(h)

\* The items of a list, from its first one on, as far as next leads.
ListFrom(h, first) ==
  LET list[i \in 0 .. Size] ==
        IF i = 0 THEN <<first>>
        ELSE LET s == list[i - 1]
                 next == h[s[Len(s)]].next
             IN IF next = NULL THEN s ELSE Append(s, next)
  IN IF first = NULL THEN <<>> ELSE list[Size]
Kids(h, n) == ListFrom(h, h[n].child)
get_array_item(h, n, i) == IF i < Len(Kids(h, n)) THEN Kids(h, n)[i + 1] ELSE NULL

---------------------------------------------------------------------------
(* Items come and go.  memory is what the functions have changed: the heap *)
(* and the number of keys.                                                 *)
cJSON_New_Item(h, n) == [h EXCEPT ![n] = [Blank EXCEPT !.live = TRUE]]

\* What cJSON_Delete(n) reaches: n, what follows it, what is under them.
Reached(h, n) ==
  LET reach[i \in 0 .. Size] ==
        IF i = 0 THEN {n}
        ELSE LET S == reach[i - 1]
             IN (S \cup {h[m].next : m \in S}
                   \cup {h[m].child : m \in {x \in S : ~h[x].ref}}) \ {NULL}
  IN reach[Size]

OwnKeys(h, S) == Cardinality({m \in S : ~h[m].const /\ h[m].key # "none"})

\* fault: keys that are the caller's are freed as well.
DeleteConst(mem, n) ==
  LET S == Reached(mem.heap, n)
  IN [heap |-> [m \in Nodes |-> IF m \in S THEN Blank ELSE mem.heap[m]],
      strings |-> mem.strings - Cardinality({m \in S : mem.heap[m].key # "none"})]

cJSON_Delete(mem, n) ==
  LET S == Reached(mem.heap, n)
  IN [heap |-> [m \in Nodes |-> IF m \in S THEN Blank ELSE mem.heap[m]],
      strings |-> mem.strings - OwnKeys(mem.heap, S)]

Memory == [heap |-> heap, strings |-> strings]
Becomes(mem, h) == heap' = mem.heap /\ strings' = mem.strings /\ held' = h

---------------------------------------------------------------------------
(* Lists. *)
suffix_object(h, prev, item) == [h EXCEPT ![prev].next = item, ![item].prev = prev]

\* fault: the first item does not learn of the new last one.
AddForgetsLast(h, array, item) ==
  LET child == h[array].child
  IN IF child = NULL
     THEN [h EXCEPT ![array].child = item, ![item].prev = item, ![item].next = NULL]
     ELSE suffix_object(h, h[child].prev, item)

\* An item whose list has lost its prev is dropped, and true returned.
add_item_to_array(h, array, item) ==
  LET child == h[array].child
  IN IF child = NULL
     THEN [h EXCEPT ![array].child = item, ![item].prev = item, ![item].next = NULL]
     ELSE IF h[child].prev = NULL THEN h
          ELSE [suffix_object(h, h[child].prev, item) EXCEPT ![child].prev = item]

\* The key goes in first; a copy that cannot be made leaves the item as it is.
SetKey(mem, item, constant_key) ==
  LET freed == IF ~mem.heap[item].const /\ mem.heap[item].key # "none" THEN 1 ELSE 0
  IN [heap |-> [mem.heap EXCEPT ![item].key = IF constant_key THEN "const" ELSE "heap",
                                ![item].const = constant_key],
      strings |-> mem.strings - freed + IF constant_key THEN 0 ELSE 1]

add_item_to_object(mem, object, item, constant_key) ==
  LET keyed == SetKey(mem, item, constant_key)
  IN [keyed EXCEPT !.heap = add_item_to_array(@, object, item)]

\* fault: the copy keeps the key of the original.
ReferenceWithKey(h, item, new) ==
  [h EXCEPT ![new] = [h[item] EXCEPT !.ref = TRUE, !.next = NULL, !.prev = NULL]]

create_reference(h, item, new) ==
  [h EXCEPT ![new] = [h[item] EXCEPT !.key = "none", !.ref = TRUE, !.next = NULL, !.prev = NULL]]

\* fault: the last item goes and the first one still points to it.
UnlinkKeepsLast(h, parent, item) ==
  LET next == h[item].next
      prev == h[item].prev
      first == item = h[parent].child
      h1 == IF first THEN h ELSE [h EXCEPT ![prev].next = next]
      h2 == IF next = NULL THEN h1 ELSE [h1 EXCEPT ![next].prev = prev]
      h3 == IF first THEN [h2 EXCEPT ![parent].child = next] ELSE h2
  IN [h3 EXCEPT ![item].prev = NULL, ![item].next = NULL]

Unlink(h, parent, item) ==
  LET next == h[item].next
      prev == h[item].prev
      first == item = h[parent].child
      h1 == IF first THEN h ELSE [h EXCEPT ![prev].next = next]
      h2 == IF next = NULL THEN h1 ELSE [h1 EXCEPT ![next].prev = prev]
      h3 == CASE first -> [h2 EXCEPT ![parent].child = next]
              [] ~first /\ next = NULL -> [h2 EXCEPT ![h2[parent].child].prev = prev]
              [] OTHER -> h2
  IN [h3 EXCEPT ![item].prev = NULL, ![item].next = NULL]

Linked(h, array, after, item) ==
  LET h1 == [h EXCEPT ![item].next = after, ![item].prev = h[after].prev]
      h2 == [h1 EXCEPT ![after].prev = item]
  IN IF after = h2[array].child THEN [h2 EXCEPT ![array].child = item]
     ELSE [h2 EXCEPT ![h2[item].prev].next = item]

Exchanged(h, parent, item, replacement) ==
  LET next == h[item].next
      prev == h[item].prev
      h1 == [h EXCEPT ![replacement].next = next, ![replacement].prev = prev]
      h2 == IF next = NULL THEN h1 ELSE [h1 EXCEPT ![next].prev = replacement]
      h3 == IF h2[parent].child = item
            THEN IF h2[item].prev = item
                 THEN [h2 EXCEPT ![replacement].prev = replacement, ![parent].child = replacement]
                 ELSE [h2 EXCEPT ![parent].child = replacement]
            ELSE LET h4 == IF prev = NULL THEN h2 ELSE [h2 EXCEPT ![prev].next = replacement]
                 IN IF next = NULL THEN [h4 EXCEPT ![h4[parent].child].prev = replacement] ELSE h4
  IN [h3 EXCEPT ![item].next = NULL, ![item].prev = NULL]

---------------------------------------------------------------------------
(* The caller's side. *)
Subtree(h, n) == Reached([h EXCEPT ![n].next = NULL], n)
Containers == {n \in Live(heap) : ~heap[n].ref}
\* What may be put under n: an item in hand that does not hold n.
Addable(n) == {i \in held : n \notin Subtree(heap, i)}
\* No reference outside of what is deleted points into it.
Unshared(S) == \A r \in Live(heap) \ S : heap[r].ref => heap[r].child \notin S

MoreKeys == Cardinality({n \in Live(heap) : heap[n].key # "none"}) < MaxKeys
MoreRefs == Cardinality({n \in Live(heap) : heap[n].ref}) < MaxRefs

CreateItem ==
  \E new \in Free(heap) :
    heap' = cJSON_New_Item(heap, new) /\ held' = held \cup {new} /\ UNCHANGED strings

\* cJSON_CreateIntArray and the like: the items are linked as they are made and the
\* first one's prev set last; an item that cannot be made deletes the array.
CreateArrayOf ==
  \E a, n1, n2 \in Free(heap) :
    /\ Cardinality({a, n1, n2}) = 3
    /\ LET made == cJSON_New_Item(cJSON_New_Item(cJSON_New_Item(heap, a), n1), n2)
           linked == suffix_object([made EXCEPT ![a].child = n1], n1, n2)
       IN heap' = [linked EXCEPT ![n1].prev = n2] /\ held' = held \cup {a}
    /\ UNCHANGED strings

\* cJSON_CreateObjectReference and cJSON_CreateArrayReference.
CreateReferenceTo(i) ==
  /\ MoreRefs
  /\ \E new \in Free(heap) :
       /\ heap' = [cJSON_New_Item(heap, new) EXCEPT ![new].ref = TRUE, ![new].child = i]
       /\ held' = held \cup {new}
  /\ UNCHANGED strings

AddItemToArray(n, i) ==
  /\ i \in Addable(n)
  /\ heap' = add_item_to_array(heap, n, i) /\ held' = held \ {i} /\ UNCHANGED strings

AddItemToObject(n, i) ==
  /\ MoreKeys /\ i \in Addable(n)
  /\ \E constant_key \in BOOLEAN :
       Becomes(add_item_to_object(Memory, n, i, constant_key), held \ {i})

AddItemReferenceToArray(n, i) ==
  /\ MoreRefs /\ n \notin Subtree(heap, i)
  /\ \E new \in Free(heap) : heap' = add_item_to_array(create_reference(heap, i, new), n, new)
  /\ UNCHANGED <<held, strings>>

\* When its key cannot be copied the reference is lost: nothing deletes it.
AddItemReferenceToObject(n, i) ==
  /\ MoreRefs /\ MoreKeys /\ n \notin Subtree(heap, i)
  /\ \E new \in Free(heap) :
       LET made == [Memory EXCEPT !.heap = create_reference(heap, i, new)]
       IN \/ Becomes(add_item_to_object(made, n, new, FALSE), held)
          \/ Becomes(made, held)

\* cJSON_AddNullToObject and the like: made and added, or made and deleted again.
AddNewToObject(n) ==
  /\ MoreKeys
  /\ \E new \in Free(heap) :
       LET made == [Memory EXCEPT !.heap = cJSON_New_Item(heap, new)]
       IN Becomes(add_item_to_object(made, n, new, FALSE), held)

DetachItemViaPointer(n) ==
  /\ \E i \in Range(Kids(heap, n)) : heap' = Unlink(heap, n, i) /\ held' = held \cup {i}
  /\ UNCHANGED strings

DeleteItem(n) ==
  \E i \in Range(Kids(heap, n)) :
    /\ Unshared(Subtree(heap, i))
    /\ Becomes(cJSON_Delete([Memory EXCEPT !.heap = Unlink(heap, n, i)], i), held)

Delete(i) == /\ i \in held /\ Unshared(Reached(heap, i))
             /\ Becomes(cJSON_Delete(Memory, i), held \ {i})

InsertItemInArray(n, i) ==
  /\ i \in Addable(n)
  /\ \E which \in 0 .. Len(Kids(heap, n)) :
       LET after == get_array_item(heap, n, which)
       IN heap' = IF after = NULL THEN add_item_to_array(heap, n, i) ELSE Linked(heap, n, after, i)
  /\ held' = held \ {i} /\ UNCHANGED strings

ReplaceItemViaPointer(n, i) ==
  /\ i \in Addable(n)
  /\ \E item \in Range(Kids(heap, n)) :
       /\ Unshared(Subtree(heap, item))
       /\ Becomes(cJSON_Delete([Memory EXCEPT !.heap = Exchanged(heap, n, item, i)], item), held \ {i})

\* The key is replaced before the item is looked for: when there is none, or the
\* key cannot be copied, the caller keeps an item with another key or with none.
ReplaceItemInObject(n, i) ==
  /\ MoreKeys /\ i \in Addable(n)
  /\ LET keyed == SetKey(Memory, i, FALSE)
     IN \/ Becomes(keyed, held)
        \/ Becomes([heap |-> [heap EXCEPT ![i].key = "none"], strings |-> keyed.strings - 1], held)
        \/ \E item \in Range(Kids(heap, n)) :
             /\ Unshared(Subtree(heap, item))
             /\ Becomes(cJSON_Delete([keyed EXCEPT !.heap = Exchanged(@, n, item, i)], item), held \ {i})

\* A copy is linked like its original and holds none of it: a reference becomes an
\* item of its own, here only one that points to nothing.
Duplicate(i) ==
  LET S == Subtree(heap, i) IN
  /\ OwnKeys(heap, S) > 0 => MoreKeys
  /\ \A r \in S : heap[r].ref => heap[r].child = NULL
  /\ Cardinality(S) <= Cardinality(Free(heap))
  /\ \E Copy \in Injection(S, Free(heap)) :
       LET Moved(m) == IF m \in S THEN Copy[m] ELSE NULL
           Image(m) == [heap[m] EXCEPT !.ref = FALSE, !.child = Moved(@),
                          !.next = IF m = i THEN NULL ELSE Moved(@),
                          !.prev = IF m = i THEN NULL ELSE Moved(@)]
       IN /\ heap' = [n \in Nodes |-> IF n \in Range(Copy) THEN Image(AntiFunction(Copy)[n]) ELSE heap[n]]
          /\ held' = held \cup {Copy[i]}
          /\ strings' = strings + OwnKeys(heap, S)

Next ==
  \/ CreateItem \/ CreateArrayOf
  \/ \E n \in Containers :
       \/ AddNewToObject(n) \/ DetachItemViaPointer(n) \/ DeleteItem(n)
       \/ \E i \in Live(heap) :
            \/ AddItemToArray(n, i) \/ AddItemToObject(n, i)
            \/ AddItemReferenceToArray(n, i) \/ AddItemReferenceToObject(n, i)
            \/ InsertItemInArray(n, i) \/ ReplaceItemViaPointer(n, i) \/ ReplaceItemInObject(n, i)
  \/ \E i \in Live(heap) : CreateReferenceTo(i) \/ Delete(i) \/ Duplicate(i)

Spec == Init /\ [][Next]_vars

---------------------------------------------------------------------------
\* Every list is linked both ways, its first item's prev is its last item and its
\* last one's next is NULL (what add_item_to_array and DetachItemViaPointer rely on).
ListsLinked ==
  \A n \in Containers :
    LET s == Kids(heap, n) IN
      \A k \in DOMAIN s :
        /\ heap[s[k]].prev = s[IF k = 1 THEN Len(s) ELSE k - 1]
        /\ heap[s[k]].next = IF k = Len(s) THEN NULL ELSE s[k + 1]

\* Every item has one owner, the caller or one place of one list, so that it is
\* freed once; nothing live points to what was freed; and every key on the heap is
\* freed with its item.  Only a reference whose key could not be copied has no owner.
Places(n) == {at \in Containers \X (1 .. Size) :
                LET s == Kids(heap, at[1]) IN at[2] <= Len(s) /\ s[at[2]] = n}
Lost == {n \in Live(heap) \ held : Places(n) = {}}
OwnedOnce ==
  /\ \A n \in Live(heap) \ Lost : Cardinality(Places(n)) + (IF n \in held THEN 1 ELSE 0) = 1
  /\ \A n \in Lost : heap[n].ref /\ heap[n].key = "none"
  /\ \A n \in Live(heap) : {heap[n].next, heap[n].prev, heap[n].child} \subseteq Live(heap) \cup {NULL}
  /\ strings = Cardinality({n \in Live(heap) : heap[n].key = "heap"})

\* The pointers implement sequences: each call does to the items' lists what the
\* function's name says, and to no other list (cJSON_AddItemTo* .. cJSON_Duplicate).
Forest == INSTANCE JsonForest WITH
  kids <- [n \in Nodes |-> IF heap[n].live /\ ~heap[n].ref THEN Kids(heap, n) ELSE <<>>]
ImplementsForest == Forest!Spec
===========================================================================
