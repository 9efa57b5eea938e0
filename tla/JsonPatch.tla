----------------------------- MODULE JsonPatch -----------------------------
(***************************************************************************)
(* The utilities of cJSON_Utils.c on items: JSON pointers, JSON patches,   *)
(* merge patches, sorting and comparing; and cJSON_Compare.                *)
(*                                                                         *)
(* Items are those of JsonText, pointers are sequences of bytes.  An item  *)
(* in a tree is where it is: the positions that lead to it from the root.  *)
(* A patch is a record of the members apply_patch looks up, NoItem for one *)
(* that is missing; its op is the name, "invalid" for any other text.      *)
(***************************************************************************)
EXTENDS JsonText

Tilde == 126
ValueKey == <<118, 97, 108, 117, 101>>
NewObject == Item("object", NULL, <<>>)
\* Memory that was freed has been written to: anything may follow.
Undefined == Item("undefined", NULL, <<>>)

---------------------------------------------------------------------------
(* Keys. *)
tolower(c) == IF c \in 65 .. 90 THEN c + 32 ELSE c
Folded(s, case_sensitive) == IF case_sensitive THEN s ELSE [i \in DOMAIN s |-> tolower(s[i])]
Precedes(s, t) ==
  \/ Len(s) < Len(t) /\ IsPrefix(s, t)
  \/ \E i \in DOMAIN s \cap DOMAIN t : s[i] < t[i] /\ SubSeq(s, 1, i - 1) = SubSeq(t, 1, i - 1)

\* Less than 0, 0 or more; a missing string is like no other.
compare_strings(s, t, case_sensitive) ==
  LET a == Folded(s, case_sensitive)
      b == Folded(t, case_sensitive)
  IN CASE NULL \in {s, t} -> 1
       [] NULL \notin {s, t} /\ a = b -> 0
       [] OTHER -> IF Precedes(a, b) THEN -1 ELSE 1

\* The position of the first member of that name, 0 for none.
get_object_item(object, name, case_sensitive) ==
  LET named == {i \in DOMAIN object.child :
                  compare_strings(name, object.child[i].string, case_sensitive) = 0}
  IN IF named = {} THEN 0 ELSE Min(named)

\* Ascending; of equal keys the one behind comes first.  The links are set as the lists
\* are merged, but nobody sets the prev of the first item: it was cut when the lists
\* were split, unless the item was the first before.
sort_object(object, case_sensitive) ==
  LET c == object.child
      diff(i, j) == compare_strings(c[i].string, c[j].string, case_sensitive)
      order == SetToSortSeq(DOMAIN c, LAMBDA i, j : diff(i, j) < 0 \/ (diff(i, j) = 0 /\ i > j))
  IN IF \A i \in 1 .. Len(c) - 1 : diff(i, i + 1) < 0 THEN object
     ELSE [object EXCEPT
             !.child = [i \in DOMAIN c |-> c[order[i]]],
             !.last = IF order[1] # 1 THEN 0
                      ELSE IF @ > 0 THEN CHOOSE i \in DOMAIN c : order[i] = @ ELSE @]

---------------------------------------------------------------------------
(* Lists.  last is 0 when the first item's prev is NULL, -1 when it leads  *)
(* to an item that is gone.                                                *)
\* What was behind last is lost; without a prev the item is, and true is returned.
add_item_to_array(array, item) ==
  CASE array.child = <<>> -> [array EXCEPT !.child = <<item>>, !.last = 1]
    [] array.child # <<>> /\ array.last > 0 ->
         [array EXCEPT !.child = Append(SubSeq(@, 1, array.last), item), !.last = @ + 1]
    [] array.child # <<>> /\ array.last = 0 -> array
    [] OTHER -> Undefined
add_item_to_object(object, string, item) == add_item_to_array(object, Named(string, item))

Detached(list, i) ==
  LET n == Len(list.child)
  IN [list EXCEPT !.child = RemoveAt(@, i),
                  !.last = CASE i = n -> n - 1
                             [] i # n /\ @ = i -> -1
                             [] OTHER -> IF @ > i THEN @ - 1 ELSE @]

\* fault: there is no place behind the last item.
InsertBefore(array, which, item) ==
  IF which >= Len(array.child) THEN NoItem
  ELSE [array EXCEPT !.child = InsertAt(@, which + 1, item), !.last = IF @ > which THEN @ + 1 ELSE @]

\* The array with the item in place which, counted from 0; NoItem behind the end.
insert_item_in_array(array, which, item) ==
  CASE which > Len(array.child) -> NoItem
    [] which = Len(array.child) -> add_item_to_array(array, item)
    [] which < Len(array.child) ->
         [array EXCEPT !.child = InsertAt(@, which + 1, item), !.last = IF @ > which THEN @ + 1 ELSE @]

RECURSIVE cJSON_Duplicate(_)
cJSON_Duplicate(item) ==
  [item EXCEPT !.child = [i \in DOMAIN @ |-> cJSON_Duplicate(@[i])], !.last = Len(item.child)]

RECURSIVE ItemAt(_, _), Put(_, _, _)
ItemAt(item, at) == IF at = <<>> THEN item ELSE ItemAt(item.child[at[1]], Tail(at))
Put(item, at, new) ==
  IF at = <<>> THEN new ELSE [item EXCEPT !.child[at[1]] = Put(@, Tail(at), new)]

---------------------------------------------------------------------------
(* Pointers. *)
encode_string_as_pointer(s) ==
  FlattenSeq([i \in DOMAIN s |-> CASE s[i] = Tilde -> <<Tilde, Byte.zero>>
                                   [] s[i] = Byte.slash -> <<Tilde, Byte.zero + 1>>
                                   [] OTHER -> <<s[i]>>])

\* The bytes between escapes are not moved, and ~1 is written one byte too far.
RECURSIVE Decoded(_, _, _)
Decoded(s, from, to) ==
  LET after == IF from < Len(s) THEN s[from + 1] ELSE 0
  IN CASE from > Len(s) -> SubSeq(s, 1, to - 1)
       [] from <= Len(s) /\ s[from] # Tilde -> Decoded(s, from + 1, to + 1)
       [] from <= Len(s) /\ s[from] = Tilde ->
            CASE after = Byte.zero -> Decoded([s EXCEPT ![to] = Tilde], from + 2, to + 1)
              [] after = Byte.zero + 1 -> Decoded([s EXCEPT ![to + 1] = Byte.slash], from + 2, to + 1)
              [] OTHER -> s
decode_pointer_inplace(s) == Decoded(s, 1, 1)

Slashes(s) == Places(s, Byte.slash)
Token(s) == Before(s, Min(Slashes(s) \cup {Len(s) + 1}))

\* -1 for no index.  The loop looks at the first byte where it should at each: anything
\* above '0' may follow a digit.
decode_array_index_from_pointer(pointer) ==
  LET t == Token(pointer)
      wrong == \/ Len(t) > 1 /\ t[1] = Byte.zero
               \/ t # <<>> /\ t[1] \notin DigitBytes
               \/ \E i \in DOMAIN t : t[i] < Byte.zero
  IN IF wrong THEN -1 ELSE Amount(t)

\* Comparing a name with a pointer's next token is comparing the name, encoded, with it.
compare_pointers(name, token, case_sensitive) ==
  compare_strings(encode_string_as_pointer(name), token, case_sensitive) = 0

\* Where the pointer leads from the item: at most one place.
RECURSIVE get_item_from_pointer(_, _, _)
get_item_from_pointer(item, pointer, case_sensitive) ==
  LET token == Token(Tail(pointer))
      index == decode_array_index_from_pointer(token)
      named == {i \in DOMAIN item.child :
                  compare_pointers(item.child[i].string, token, case_sensitive)}
      under(i) == {<<i>> \o at : at \in get_item_from_pointer(
                                          item.child[i], Behind(pointer, 1 + Len(token)), case_sensitive)}
  IN IF pointer = <<>> \/ pointer[1] # Byte.slash THEN {<<>>}
     ELSE CASE item.type = "array" /\ index \in 0 .. Len(item.child) - 1 -> under(index + 1)
            [] item.type = "object" /\ named # {} -> under(Min(named))
            [] OTHER -> {}

\* The pointer to the item at a place.
RECURSIVE cJSONUtils_FindPointerFromObjectTo(_, _)
cJSONUtils_FindPointerFromObjectTo(item, at) ==
  LET child == item.child[at[1]]
      token == IF item.type = "array" THEN Decimal[at[1] - 1] ELSE encode_string_as_pointer(child.string)
  IN IF at = <<>> THEN <<>>
     ELSE <<Byte.slash>> \o token \o cJSONUtils_FindPointerFromObjectTo(child, Tail(at))

\* A path's last token is cut off at its last slash.
ParentOf(path) == Before(path, Max(Slashes(path)))
ChildOf(path) == decode_pointer_inplace(Behind(path, Max(Slashes(path))))

\* Members are found here without regard to case, whatever case_sensitive says.
detach_path(object, path, case_sensitive) ==
  LET Place(parent) == CASE parent.type = "array" -> decode_array_index_from_pointer(ChildOf(path)) + 1
                         [] parent.type = "object" -> get_object_item(parent, ChildOf(path), FALSE)
                         [] OTHER -> 0
      From(at, parent, i) == IF i \notin DOMAIN parent.child THEN [object |-> object, item |-> NoItem]
                             ELSE [object |-> Put(object, at, Detached(parent, i)), item |-> parent.child[i]]
      In(at, parent) == From(at, parent, Place(parent))
      Found(places) == IF places = {} THEN [object |-> object, item |-> NoItem]
                       ELSE LET at == CHOOSE a \in places : TRUE IN In(at, ItemAt(object, at))
  IN Found(IF path = NULL \/ Slashes(path) = {} THEN {}
           ELSE get_item_from_pointer(object, ParentOf(path), case_sensitive))

---------------------------------------------------------------------------
(* Comparing.  compare_json sorts the objects it comes to, so it returns   *)
(* both items with the answer; cJSON_Compare changes nothing.              *)
RECURSIVE compare_json(_, _, _), CompareFrom(_, _, _, _)
CompareFrom(a, b, i, case_sensitive) ==
  LET ended == i \notin DOMAIN a.child \/ i \notin DOMAIN b.child
      r == compare_json(a.child[i], b.child[i], case_sensitive)
      a1 == [a EXCEPT !.child[i] = r.a]
      b1 == [b EXCEPT !.child[i] = r.b]
      sameKey == a.type = "array"
                 \/ compare_strings(a.child[i].string, b.child[i].string, case_sensitive) = 0
  IN CASE ended -> [same |-> Len(a.child) = Len(b.child), a |-> a, b |-> b]
       [] ~ended /\ ~sameKey -> [same |-> FALSE, a |-> a, b |-> b]
       [] OTHER -> IF r.same THEN CompareFrom(a1, b1, i + 1, case_sensitive)
                   ELSE [same |-> FALSE, a |-> a1, b |-> b1]
compare_json(a, b, case_sensitive) ==
  LET answer(same) == [same |-> same, a |-> a, b |-> b]
  IN CASE a = NoItem \/ b = NoItem \/ a.type # b.type -> answer(FALSE)
       [] a # NoItem /\ a.type = b.type ->
            CASE a.type \in {"number", "string"} -> answer(a.value = b.value)
              [] a.type = "array" -> CompareFrom(a, b, 1, case_sensitive)
              [] a.type = "object" -> CompareFrom(sort_object(a, case_sensitive),
                                                  sort_object(b, case_sensitive), 1, case_sensitive)
              [] OTHER -> answer(TRUE)

RECURSIVE cJSON_Compare(_, _, _)
cJSON_Compare(a, b, case_sensitive) ==
  LET in(x, y) == \A i \in DOMAIN x.child :
                    LET j == get_object_item(y, x.child[i].string, case_sensitive)
                    IN j # 0 /\ cJSON_Compare(x.child[i], y.child[j], case_sensitive)
  IN /\ a.type = b.type
     /\ a.type \in {"false", "true", "null", "number", "string", "raw", "array", "object"}
     /\ a.type \in {"number", "string", "raw"} => a.value = b.value
     /\ a.type = "array" =>
          Len(a.child) = Len(b.child)
          /\ \A i \in DOMAIN a.child : cJSON_Compare(a.child[i], b.child[i], case_sensitive)
     /\ a.type = "object" => in(a, b) /\ in(b, a)

---------------------------------------------------------------------------
(* Patches. *)
Done(object, status) == [object |-> object, status |-> status]

\* A value goes to its place in its parent: the end of apply_patch.
Added(parent, name, value, case_sensitive) ==
  LET index == decode_array_index_from_pointer(name)
      i == get_object_item(parent, name, case_sensitive)
      Inserted(array) == IF array = NoItem THEN Done(parent, 10) ELSE Done(array, 0)
  IN CASE parent.type = "array" /\ name = <<Byte.minus>> -> Done(add_item_to_array(parent, value), 0)
       [] parent.type = "array" /\ name # <<Byte.minus>> ->
            IF index = -1 THEN Done(parent, 11) ELSE Inserted(insert_item_in_array(parent, index, value))
       [] parent.type = "object" ->
            Done(add_item_to_object(IF i = 0 THEN parent ELSE Detached(parent, i), name, value), 0)
       [] OTHER -> Done(parent, 9)

AddAt(object, path, value, case_sensitive) ==
  LET With(at, added) == Done(Put(object, at, added.object), added.status)
      Found(places) ==
        IF places = {} THEN Done(object, 9)
        ELSE LET at == CHOOSE a \in places : TRUE
             IN With(at, Added(ItemAt(object, at), ChildOf(path), value, case_sensitive))
  IN Found(IF Slashes(path) = {} THEN {} ELSE get_item_from_pointer(object, ParentOf(path), case_sensitive))

AddValue(object, path, value, case_sensitive) ==
  CASE value = NoItem -> Done(object, 7)
    [] value # NoItem /\ path = <<>> -> Done(Named(NULL, cJSON_Duplicate(value)), 0)
    [] OTHER -> AddAt(object, path, cJSON_Duplicate(value), case_sensitive)

RemoveOp(object, path, case_sensitive) ==
  LET Without(old) == IF old.item = NoItem THEN Done(object, 13) ELSE Done(old.object, 0)
  IN IF path = <<>> THEN Done(Item("invalid", NULL, <<>>), 0)
     ELSE Without(detach_path(object, path, case_sensitive))

ReplaceOp(object, path, value, case_sensitive) ==
  LET Then(removed) == IF removed.status # 0 THEN removed
                         ELSE AddValue(removed.object, path, value, case_sensitive)
  IN Then(IF path = <<>> THEN Done(object, 0) ELSE RemoveOp(object, path, case_sensitive))

PathIn(item) == IF item.type = "string" THEN item.value ELSE NULL

MoveOp(object, path, from, case_sensitive) ==
  LET Moved(old) == IF old.item = NoItem THEN Done(object, 5)
                    ELSE AddAt(old.object, path, old.item, case_sensitive)
  IN IF from = NoItem THEN Done(object, 4) ELSE Moved(detach_path(object, PathIn(from), case_sensitive))

CopyOp(object, path, from, case_sensitive) ==
  LET Copied(places) ==
        IF places = {} THEN Done(object, 5)
        ELSE AddAt(object, path, cJSON_Duplicate(ItemAt(object, CHOOSE a \in places : TRUE)), case_sensitive)
  IN IF from = NoItem THEN Done(object, 4)
     ELSE Copied(IF PathIn(from) = NULL THEN {}
                 ELSE get_item_from_pointer(object, PathIn(from), case_sensitive))

\* What is compared is sorted on the way (in the patch as well, which is not kept here).
TestOp(object, path, value, case_sensitive) ==
  LET Answer(at, compared) == Done(Put(object, at, compared.a), IF compared.same THEN 0 ELSE 1)
      Tested(places) ==
        IF places = {} THEN Done(object, 1)
        ELSE LET at == CHOOSE a \in places : TRUE
             IN Answer(at, compare_json(ItemAt(object, at), value, case_sensitive))
  IN Tested(get_item_from_pointer(object, path, case_sensitive))

\* The object after the patch, and the status; a patch that fails may have changed it.
apply_patch(object, patch, case_sensitive) ==
  LET path == patch.path.value
  IN CASE patch.path.type # "string" -> Done(object, 2)
       [] patch.path.type = "string" /\ patch.op = "invalid" -> Done(object, 3)
       [] patch.path.type = "string" /\ patch.op # "invalid" ->
            CASE patch.op = "test" -> TestOp(object, path, patch.value, case_sensitive)
              [] patch.op = "add" -> AddValue(object, path, patch.value, case_sensitive)
              [] patch.op = "remove" -> RemoveOp(object, path, case_sensitive)
              [] patch.op = "replace" -> ReplaceOp(object, path, patch.value, case_sensitive)
              [] patch.op = "move" -> MoveOp(object, path, patch.from, case_sensitive)
              [] patch.op = "copy" -> CopyOp(object, path, patch.from, case_sensitive)

\* One after the other until one fails.
cJSONUtils_ApplyPatches(object, patches, case_sensitive) ==
  FoldLeft(LAMBDA r, patch : IF r.status # 0 THEN r ELSE apply_patch(r.object, patch, case_sensitive),
           Done(object, 0), patches)

---------------------------------------------------------------------------
(* Generating patches.  The objects compared are left sorted: a walk       *)
(* returns the patches and both items.                                     *)
PathItem(path) == Item("string", path, <<>>)
Step(path, token) == path \o <<Byte.slash>> \o token
compose_patch(op, path, suffix, value) ==
  [op |-> op, from |-> NoItem,
   path |-> PathItem(IF suffix = NULL THEN path ELSE Step(path, encode_string_as_pointer(suffix))),
   value |-> IF value = NoItem THEN NoItem ELSE Named(ValueKey, cJSON_Duplicate(value))]

Walk(patches, from, to) == [patches |-> patches, from |-> from, to |-> to]
RECURSIVE create_patches(_, _, _, _), PatchMembers(_, _, _, _, _)
PatchElements(path, from, to, case_sensitive) ==
  LET m == Len(from.child)
      n == Len(to.child)
      common == Min({m, n})
      walked == FoldLeft(
        LAMBDA w, i : LET one == create_patches(Step(path, Decimal[i - 1]), from.child[i], to.child[i], case_sensitive)
                      IN Walk(w.patches \o one.patches, [w.from EXCEPT !.child[i] = one.from],
                              [w.to EXCEPT !.child[i] = one.to]),
        Walk(<<>>, from, to), [i \in 1 .. common |-> i])
      removed == [i \in 1 .. m - common |-> compose_patch("remove", path, Decimal[common], NoItem)]
      added == [i \in 1 .. n - common |-> compose_patch("add", path, <<Byte.minus>>, to.child[common + i])]
  IN [walked EXCEPT !.patches = @ \o removed \o added]

\* Members from the i-th of from and the j-th of to on, both sorted.
PatchMembers(path, walk, i, j, case_sensitive) ==
  LET from == walk.from.child
      to == walk.to.child
      diff == CASE i > Len(from) -> 1
                [] i <= Len(from) /\ j > Len(to) -> -1
                [] OTHER -> compare_strings(from[i].string, to[j].string, case_sensitive)
      one == create_patches(Step(path, encode_string_as_pointer(from[i].string)), from[i], to[j], case_sensitive)
      With(patch) == [walk EXCEPT !.patches = Append(@, patch)]
  IN CASE i > Len(from) /\ j > Len(to) -> walk
       [] i <= Len(from) /\ diff < 0 ->
            PatchMembers(path, With(compose_patch("remove", path, from[i].string, NoItem)), i + 1, j, case_sensitive)
       [] j <= Len(to) /\ diff > 0 ->
            PatchMembers(path, With(compose_patch("add", path, to[j].string, to[j])), i, j + 1, case_sensitive)
       [] OTHER ->
            PatchMembers(path, Walk(walk.patches \o one.patches, [walk.from EXCEPT !.child[i] = one.from],
                                    [walk.to EXCEPT !.child[j] = one.to]), i + 1, j + 1, case_sensitive)

create_patches(path, from, to, case_sensitive) ==
  LET replace == <<compose_patch("replace", path, NULL, to)>>
  IN CASE from.type # to.type -> Walk(replace, from, to)
       [] from.type = to.type ->
            CASE from.type \in {"number", "string"} ->
                   Walk(IF from.value = to.value THEN <<>> ELSE replace, from, to)
              [] from.type = "array" -> PatchElements(path, from, to, case_sensitive)
              [] from.type = "object" ->
                   PatchMembers(path, Walk(<<>>, sort_object(from, case_sensitive), sort_object(to, case_sensitive)),
                                1, 1, case_sensitive)
              [] OTHER -> Walk(<<>>, from, to)
cJSONUtils_GeneratePatches(from, to, case_sensitive) == create_patches(<<>>, from, to, case_sensitive)

---------------------------------------------------------------------------
(* Merge patches. *)
RECURSIVE merge_patch(_, _, _)
MergeMember(target, member, case_sensitive) ==
  LET i == get_object_item(target, member.string, case_sensitive)
      without == IF i = 0 THEN target ELSE Detached(target, i)
      old == IF i = 0 THEN NoItem ELSE target.child[i]
  IN IF member.type = "null" THEN without
     ELSE add_item_to_object(without, member.string, merge_patch(old, member, case_sensitive))
merge_patch(target, patch, case_sensitive) ==
  IF patch.type # "object" THEN cJSON_Duplicate(patch)
  ELSE FoldLeft(LAMBDA t, member : MergeMember(t, member, case_sensitive),
                IF target.type = "object" THEN target ELSE NewObject, patch.child)

\* Members are sorted without regard to case when it is not to be regarded, and compared
\* with regard to it all the same; and members of members are always compared without.
RECURSIVE generate_merge_patch(_, _, _), MergeFrom(_, _, _, _)
MergeFrom(walk, i, j, case_sensitive) ==
  LET from == walk.from.child
      to == walk.to.child
      diff == CASE i > Len(from) -> 1
                [] i <= Len(from) /\ j > Len(to) -> -1
                [] OTHER -> compare_strings(from[i].string, to[j].string, TRUE)
      With(key, item) == [walk EXCEPT !.patches = add_item_to_object(@, key, item)]
      Sorted(w, compared) == [w EXCEPT !.from.child[i] = compared.a, !.to.child[j] = compared.b]
      Made(made) == [IF made.patches = NoItem THEN walk ELSE With(to[j].string, made.patches)
                       EXCEPT !.from.child[i] = made.from, !.to.child[j] = made.to]
      Both(compared) == IF compared.same THEN Sorted(walk, compared)
                        ELSE Made(generate_merge_patch(compared.a, compared.b, FALSE))
  IN CASE i > Len(from) /\ j > Len(to) -> walk
       [] i <= Len(from) /\ diff < 0 ->
            MergeFrom(With(from[i].string, Item("null", NULL, <<>>)), i + 1, j, case_sensitive)
       [] j <= Len(to) /\ diff > 0 -> MergeFrom(With(to[j].string, cJSON_Duplicate(to[j])), i, j + 1, case_sensitive)
       [] OTHER -> MergeFrom(Both(compare_json(from[i], to[j], case_sensitive)), i + 1, j + 1, case_sensitive)
generate_merge_patch(from, to, case_sensitive) ==
  LET Made(walk) == IF walk.patches.child = <<>> THEN [walk EXCEPT !.patches = NoItem] ELSE walk
  IN CASE to = NoItem -> Walk(Item("null", NULL, <<>>), from, to)
       [] to # NoItem /\ {from.type, to.type} # {"object"} -> Walk(cJSON_Duplicate(to), from, to)
       [] OTHER -> Made(MergeFrom(Walk(NewObject, sort_object(from, case_sensitive),
                                       sort_object(to, case_sensitive)), 1, 1, case_sensitive))

---------------------------------------------------------------------------
(* What patches must do. *)
RECURSIVE Sense(_), Linked(_), Positions(_), Plain(_), NoNulls(_)
\* An item without the order of its members.
Sense(item) ==
  CASE item.type = "array" -> <<"array", [i \in DOMAIN item.child |-> Sense(item.child[i])]>>
    [] item.type = "object" ->
         <<"object", {<<item.child[i].string, Sense(item.child[i])>> : i \in DOMAIN item.child}>>
    [] OTHER -> <<item.type, item.value>>
\* The first items' prev lead to the last ones.
Linked(item) == item.last = Len(item.child) /\ \A i \in DOMAIN item.child : Linked(item.child[i])
Positions(item) == {<<>>} \cup UNION {{<<i>> \o at : at \in Positions(item.child[i])} : i \in DOMAIN item.child}

\* Members' names differ in more than case, and decode_pointer_inplace gets them right.
Names(object) == {object.child[i].string : i \in DOMAIN object.child}
Plain(item) ==
  /\ item.type = "object" =>
       /\ Cardinality(Names(item)) = Len(item.child)
       /\ \A s \in Names(item) : s = Folded(s, FALSE) /\ decode_pointer_inplace(encode_string_as_pointer(s)) = s
  /\ \A i \in DOMAIN item.child : Plain(item.child[i])
\* A merge patch cannot say that a member is to be null.
NoNulls(item) ==
  item.type = "object" => \A i \in DOMAIN item.child : item.child[i].type # "null" /\ NoNulls(item.child[i])

\* The patches generated from two items turn a copy of one into the other, whatever the
\* two hold; the items themselves are only sorted.  So does the merge patch.
PatchesApply(from, to) ==
  Plain(from) /\ Plain(to) => \A case_sensitive \in BOOLEAN :
    /\ \A made \in {cJSONUtils_GeneratePatches(from, to, case_sensitive)} :
         /\ <<Sense(made.from), Sense(made.to)>> = <<Sense(from), Sense(to)>>
         /\ \A result \in {cJSONUtils_ApplyPatches(cJSON_Duplicate(made.from), made.patches, case_sensitive)} :
              /\ result.status = 0 /\ Sense(result.object) = Sense(to) /\ Linked(result.object)
              /\ apply_patch(result.object, [compose_patch("test", <<>>, NULL, to) EXCEPT !.from = NoItem],
                             case_sensitive).status = 0
    /\ cJSON_Compare(from, to, case_sensitive) <=> Sense(from) = Sense(to)
    /\ \A merge \in {generate_merge_patch(from, to, case_sensitive)} :
         NoNulls(to) => Sense(IF merge.patches = NoItem THEN merge.from
                              ELSE merge_patch(cJSON_Duplicate(merge.from), merge.patches, case_sensitive))
                          = Sense(to)

\* The pointer made for an item leads to it, through any names, and through it the item
\* can be copied, removed and the copy moved to where it was.
PointersLead(item) ==
  \A case_sensitive \in BOOLEAN, at \in Positions(item) :
    LET Aside == PathItem(<<Byte.slash, 122>>)
        Patch(op, from, path) == [op |-> op, from |-> from, path |-> path, value |-> NoItem]
        Trip(there) == <<Patch("copy", there, Aside), Patch("remove", NoItem, there), Patch("move", Aside, there)>>
    IN \A pointer \in {cJSONUtils_FindPointerFromObjectTo(item, at)} :
         /\ get_item_from_pointer(item, pointer, case_sensitive) = {at}
         /\ (at # <<>> /\ item.type = "object" /\ Plain(item)) =>
              \A result \in {cJSONUtils_ApplyPatches(item, Trip(PathItem(pointer)), case_sensitive)} :
                result.status = 0 /\ Sense(result.object) = Sense(item) /\ Linked(result.object)
===========================================================================
