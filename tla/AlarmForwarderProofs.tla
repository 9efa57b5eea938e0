------------------------ MODULE AlarmForwarderProofs ------------------------
(***************************************************************************)
(* Theorems about AlarmForwarder, for any messages and any limit of open   *)
(* descriptors.  The lemmas say what one strtok returns and what follows   *)
(* for the eight of them; the invariants need no more than that.           *)
(***************************************************************************)
EXTENDS AlarmForwarder, WellFoundedInduction, FiniteSetTheorems, TLAPS

(* A set of numbers that is not empty has a least one.                     *)
LEMMA LeastNatural ==
  ASSUME NEW S \in SUBSET Nat, S # {}
  PROVE  Min(S) \in S /\ \A y \in S : Min(S) <= y
<1>1. PICK x \in S : \A y \in S : ~ (<<y, x>> \in OpToRel(<, Nat))
  BY NatLessThanWellFounded, WFMin, Zenon
<1>2. \A y \in S : ~ (y < x)
  BY <1>1, Zenon DEF OpToRel
<1>3. \A y \in S : x <= y
  BY <1>2
<1> QED  BY <1>3 DEF Min

(* strtok returns the first piece behind `after` that is not empty, or the *)
(* end.                                                                    *)
LEMMA StrtokFinds ==
  ASSUME NEW m \in Seq(Piece), NEW after \in Nat, after <= Len(m) + 1
  PROVE  LET i == Strtok(m, after)
         IN  /\ i \in 1 .. Len(m) + 1
             /\ i <= Len(m) => after < i /\ m[i].len > 0
             /\ \A j \in after + 1 .. Len(m) : m[j].len > 0 => i <= j
<1> DEFINE S == {j \in after + 1 .. Len(m) : m[j].len > 0} \cup {Len(m) + 1}
<1>1. Len(m) \in Nat /\ S \in SUBSET Nat /\ S # {}
  OBVIOUS
<1>2. Min(S) \in S /\ \A y \in S : Min(S) <= y
  BY <1>1, LeastNatural
<1>3. Strtok(m, after) = Min(S)
  BY DEF Strtok
<1> HIDE DEF S
<1>4. ASSUME NEW i, i = Min(S)
      PROVE  /\ i \in 1 .. Len(m) + 1
             /\ i <= Len(m) => after < i /\ m[i].len > 0
             /\ \A j \in after + 1 .. Len(m) : m[j].len > 0 => i <= j
  BY <1>1, <1>2, <1>4 DEF S
<1> QED  BY <1>3, <1>4

(* A message http_send accepts has eight pieces that are not empty, and    *)
(* strtok finds them in their order.                                       *)
LEMMA PlacesRise ==
  ASSUME NEW m \in Seq(Piece), Places(m)[PORT] <= Len(m)
  PROVE  /\ \A k \in 1 .. PORT : Places(m)[k] \in 1 .. Len(m) /\ m[Places(m)[k]].len > 0
         /\ \A k \in 1 .. PORT - 1 : Places(m)[k] < Places(m)[k + 1]
<1> DEFINE p1 == Strtok(m, 0)   p2 == Strtok(m, p1)  p3 == Strtok(m, p2)
           p4 == Strtok(m, p3)  p5 == Strtok(m, p4)  p6 == Strtok(m, p5)
           p7 == Strtok(m, p6)  p8 == Strtok(m, p7)
<1>0. Places(m) = <<p1, p2, p3, p4, p5, p6, p7, p8>> /\ PORT = 8 /\ Len(m) \in Nat
  BY DEF Places, PORT
<1>a. \A a \in 0 .. Len(m) + 1 :
         /\ Strtok(m, a) \in 1 .. Len(m) + 1
         /\ Strtok(m, a) <= Len(m) => a < Strtok(m, a) /\ m[Strtok(m, a)].len > 0
  BY StrtokFinds
<1>1. p1 \in 1 .. Len(m) + 1 /\ (p1 <= Len(m) => m[p1].len > 0)
  BY <1>0, <1>a
<1> HIDE DEF p1
<1>2. p2 \in 1 .. Len(m) + 1 /\ (p2 <= Len(m) => p1 < p2 /\ m[p2].len > 0)
  BY <1>1, <1>a
<1> HIDE DEF p2
<1>3. p3 \in 1 .. Len(m) + 1 /\ (p3 <= Len(m) => p2 < p3 /\ m[p3].len > 0)
  BY <1>2, <1>a
<1> HIDE DEF p3
<1>4. p4 \in 1 .. Len(m) + 1 /\ (p4 <= Len(m) => p3 < p4 /\ m[p4].len > 0)
  BY <1>3, <1>a
<1> HIDE DEF p4
<1>5. p5 \in 1 .. Len(m) + 1 /\ (p5 <= Len(m) => p4 < p5 /\ m[p5].len > 0)
  BY <1>4, <1>a
<1> HIDE DEF p5
<1>6. p6 \in 1 .. Len(m) + 1 /\ (p6 <= Len(m) => p5 < p6 /\ m[p6].len > 0)
  BY <1>5, <1>a
<1> HIDE DEF p6
<1>7. p7 \in 1 .. Len(m) + 1 /\ (p7 <= Len(m) => p6 < p7 /\ m[p7].len > 0)
  BY <1>6, <1>a
<1> HIDE DEF p7
<1>8. p8 \in 1 .. Len(m) + 1 /\ (p8 <= Len(m) => p7 < p8 /\ m[p8].len > 0)
  BY <1>7, <1>a
<1> HIDE DEF p8
<1>9. p8 <= Len(m)
  BY <1>0
<1>10. p1 < p2 /\ p2 < p3 /\ p3 < p4 /\ p4 < p5 /\ p5 < p6 /\ p6 < p7 /\ p7 < p8
  BY <1>0, <1>1, <1>2, <1>3, <1>4, <1>5, <1>6, <1>7, <1>8, <1>9, SMTT(30)
<1> QED
  BY <1>0, <1>1, <1>2, <1>3, <1>4, <1>5, <1>6, <1>7, <1>8, <1>9, <1>10, SMTT(30)

(* What is parsed is eight pieces of the message, none of them empty.      *)
LEMMA ArgumentsTyped ==
  ASSUME NEW m \in Seq(Piece), Forwardable(m)
  PROVE  /\ Arguments(m) \in [1 .. PORT -> Piece]
         /\ \A k \in 1 .. PORT : Arguments(m)[k].len > 0
<1>1. \A k \in 1 .. PORT : m[Places(m)[k]] \in Piece /\ m[Places(m)[k]].len > 0
  BY PlacesRise DEF Forwardable
<1> QED  BY <1>1 DEF Arguments

(* The piece that the k-th strtok returns.                                 *)
Token(m, k) == Places(m)[k]

(* The places of the eight tokens, one by one.                             *)
LEMMA EightPlaces ==
  ASSUME NEW m \in Seq(Piece), Forwardable(m)
  PROVE  /\ \A k \in 1 .. 8 : /\ Token(m, k) \in DOMAIN m /\ Token(m, k) \in Nat
                             /\ m[Token(m, k)].len > 0
         /\ Token(m, 1) < Token(m, 2) /\ Token(m, 2) < Token(m, 3)
         /\ Token(m, 3) < Token(m, 4) /\ Token(m, 4) < Token(m, 5)
         /\ Token(m, 5) < Token(m, 6) /\ Token(m, 6) < Token(m, 7)
         /\ Token(m, 7) < Token(m, 8)
<1>1. \A k \in 1 .. 8 : Places(m)[k] \in 1 .. Len(m) /\ m[Places(m)[k]].len > 0
  BY PlacesRise DEF Forwardable, PORT
<1>2. \A k \in 1 .. 7 : Places(m)[k] < Places(m)[k + 1]
  BY PlacesRise, SMTT(30) DEF Forwardable, PORT
<1>3. \A k \in 1 .. 7 : Token(m, k) < Token(m, k + 1)
  BY <1>2 DEF Token
<1>4. 1 + 1 = 2 /\ 2 + 1 = 3 /\ 3 + 1 = 4 /\ 4 + 1 = 5 /\ 5 + 1 = 6 /\ 6 + 1 = 7 /\ 7 + 1 = 8
  OBVIOUS
<1>5. DOMAIN m = 1 .. Len(m) /\ Len(m) \in Nat
  OBVIOUS
<1>6. \A k \in 1 .. 8 : Token(m, k) \in 1 .. Len(m) /\ m[Token(m, k)].len > 0
  BY <1>1 DEF Token
<1> QED  BY <1>3, <1>4, <1>5, <1>6

(* A field's number grows along the message, and is not above the piece's. *)
LEMMA PlaceGrows ==
  ASSUME NEW m \in Seq(Piece)
  PROVE  /\ \A i \in DOMAIN m : Place(m, i) \in 1 .. Len(m)
         /\ \A i, j \in DOMAIN m : i <= j => Place(m, i) <= Place(m, j)
<1> DEFINE Lines(i) == {j \in 2 .. i - 1 : m[j - 1].sep = "CR" /\ m[j].len = 0 /\ m[j].sep = "LF"}
<1>1. \A i \in DOMAIN m : Place(m, i) = 1 + Cardinality(Lines(i))
  BY DEF Place
<1>2. DOMAIN m = 1 .. Len(m) /\ Len(m) \in Nat
  OBVIOUS
<1>3. ASSUME NEW i \in DOMAIN m
      PROVE  /\ IsFiniteSet(Lines(i)) /\ Cardinality(Lines(i)) \in Nat
             /\ 1 + Cardinality(Lines(i)) <= i
  <2>1. IsFiniteSet(1 .. i - 1) /\ Cardinality(1 .. i - 1) = i - 1
    <3>1. 1 \in Int /\ i - 1 \in Int /\ i >= 1
      BY <1>2
    <3>2. IsFiniteSet(1 .. i - 1) /\ Cardinality(1 .. i - 1) = IF 1 > i - 1 THEN 0 ELSE (i - 1) - 1 + 1
      BY <3>1, FS_Interval
    <3> QED  BY <3>1, <3>2
  <2>2. Lines(i) \subseteq 1 .. i - 1
    BY <1>2
  <2> HIDE DEF Lines
  <2>3. IsFiniteSet(Lines(i)) /\ Cardinality(Lines(i)) <= i - 1
    BY <2>1, <2>2, FS_Subset
  <2> QED  BY <2>3, <1>2, FS_CardinalityType
<1>4. ASSUME NEW i \in DOMAIN m, NEW j \in DOMAIN m, i <= j
      PROVE  Cardinality(Lines(i)) <= Cardinality(Lines(j))
  <2>1. Lines(i) \subseteq Lines(j)
    BY <1>2, <1>4
  <2> HIDE DEF Lines
  <2> QED  BY <2>1, <1>3, FS_Subset
<1> HIDE DEF Lines
<1>5. ASSUME NEW i \in DOMAIN m PROVE Place(m, i) \in 1 .. Len(m)
  BY <1>1, <1>2, <1>3
<1>6. ASSUME NEW i \in DOMAIN m, NEW j \in DOMAIN m, i <= j PROVE Place(m, i) <= Place(m, j)
  BY <1>1, <1>3, <1>4, <1>6
<1> QED  BY <1>5, <1>6

(* Two pieces of one field that are not empty are two parts of it.         *)
LEMMA FieldIsSplit ==
  ASSUME NEW m \in Seq(Piece), NEW f, NEW i \in Filled(m, f), NEW j \in Filled(m, f), i # j
  PROVE  Cardinality(Filled(m, f)) > 1
<1>1. IsFiniteSet(DOMAIN m)
  <2>1. DOMAIN m = 1 .. Len(m) /\ 1 \in Int /\ Len(m) \in Int
    OBVIOUS
  <2> QED  BY <2>1, FS_Interval
<1>2. IsFiniteSet(Filled(m, f))
  BY <1>1, FS_Subset DEF Filled
<1>3. {i} \cup {j} \subseteq Filled(m, f) /\ Cardinality({i} \cup {j}) = 2
  <2>1. IsFiniteSet({i}) /\ Cardinality({i}) = 1
    BY FS_Singleton
  <2>2. j \notin {i}
    OBVIOUS
  <2>3. Cardinality({i} \cup {j}) = Cardinality({i}) + 1
    BY <2>1, <2>2, FS_AddElement
  <2>4. Cardinality({i} \cup {j}) = 2
    <3> DEFINE c == Cardinality({i})
               d == Cardinality({i} \cup {j})
    <3>1. c = 1 /\ d = c + 1
      BY <2>1, <2>3, Zenon
    <3> HIDE DEF c, d
    <3>2. d = 2
      BY <3>1, SMT
    <3> QED  BY <3>2 DEF d
  <2>5. {i} \cup {j} \subseteq Filled(m, f)
    BY Zenon
  <2> QED  BY <2>4, <2>5, Zenon
<1>4. 2 <= Cardinality(Filled(m, f)) /\ Cardinality(Filled(m, f)) \in Nat
  BY <1>2, <1>3, FS_Subset, FS_CardinalityType
<1> QED  BY <1>4

(* When no field is split, the k-th token is not before the k-th field ... *)
LEMMA TokensReach ==
  ASSUME NEW m \in Seq(Piece), Forwardable(m),
         \A f \in 1 .. PORT : ~ (Cardinality(Filled(m, f)) > 1)
  PROVE  /\ \A k \in 1 .. 8 : Token(m, k) \in Filled(m, Place(m, Token(m, k)))
         /\ Place(m, Token(m, 8)) <= 8 => \A k \in 1 .. 8 : Place(m, Token(m, k)) = k
<1> DEFINE Q(k) == Place(m, Token(m, k))
<1>0. \A k \in 1 .. 8 : /\ Token(m, k) \in DOMAIN m /\ Token(m, k) \in Nat
                       /\ m[Token(m, k)].len > 0
  BY EightPlaces
<1>1. ASSUME NEW k \in 1 .. 8
      PROVE  Q(k) \in Nat /\ Q(k) >= 1 /\ Token(m, k) \in Filled(m, Q(k))
  <2>1. Token(m, k) \in DOMAIN m /\ m[Token(m, k)].len > 0
    BY <1>0
  <2>2. Q(k) \in 1 .. Len(m) /\ Len(m) \in Nat
    BY <2>1, PlaceGrows
  <2>3. Token(m, k) \in Filled(m, Q(k))
    BY <2>1 DEF Filled
  <2> HIDE DEF Q
  <2> QED  BY <2>2, <2>3
<1>2. ASSUME NEW k \in 1 .. 8, NEW l \in 1 .. 8, Token(m, k) < Token(m, l)
      PROVE  Q(k) <= Q(l) /\ (Q(k) <= 8 => Q(k) < Q(l))
  <2>0. /\ Token(m, k) \in DOMAIN m /\ Token(m, l) \in DOMAIN m
        /\ Token(m, k) \in Nat /\ Token(m, l) \in Nat
    BY <1>0
  <2>1. Q(k) <= Q(l)
    <3>1. Token(m, k) <= Token(m, l)
      BY <2>0, <1>2
    <3> QED  BY <2>0, <3>1, PlaceGrows
  <2>2. Q(k) \in Nat /\ Q(l) \in Nat /\ Q(k) >= 1
    BY <1>1
  <2>3. ASSUME Q(k) <= 8, Q(k) = Q(l) PROVE FALSE
    <3>1. Token(m, k) \in Filled(m, Q(k)) /\ Token(m, l) \in Filled(m, Q(l))
      BY <1>1
    <3>2. Token(m, k) # Token(m, l)
      BY <2>0, <1>2
    <3> HIDE DEF Q
    <3>3. Q(k) \in 1 .. PORT
      BY <2>2, <2>3 DEF PORT
    <3>4. Cardinality(Filled(m, Q(k))) > 1
      BY <3>1, <3>2, <2>3, FieldIsSplit
    <3> QED  BY <3>3, <3>4
  <2> HIDE DEF Q
  <2> QED  BY <2>1, <2>2, <2>3
<1>3. /\ Token(m, 1) < Token(m, 2) /\ Token(m, 2) < Token(m, 3) /\ Token(m, 3) < Token(m, 4)
      /\ Token(m, 4) < Token(m, 5) /\ Token(m, 5) < Token(m, 6) /\ Token(m, 6) < Token(m, 7)
      /\ Token(m, 7) < Token(m, 8)
  BY EightPlaces
<1>4. /\ Q(1) \in Nat /\ Q(2) \in Nat /\ Q(3) \in Nat /\ Q(4) \in Nat /\ Q(5) \in Nat
      /\ Q(6) \in Nat /\ Q(7) \in Nat /\ Q(8) \in Nat /\ Q(1) >= 1
  BY <1>1
<1> HIDE DEF Q
<1>5. Q(1) <= Q(2) /\ (Q(1) <= 8 => Q(1) < Q(2))  BY <1>2, <1>3
<1>6. Q(2) <= Q(3) /\ (Q(2) <= 8 => Q(2) < Q(3))  BY <1>2, <1>3
<1>7. Q(3) <= Q(4) /\ (Q(3) <= 8 => Q(3) < Q(4))  BY <1>2, <1>3
<1>8. Q(4) <= Q(5) /\ (Q(4) <= 8 => Q(4) < Q(5))  BY <1>2, <1>3
<1>9. Q(5) <= Q(6) /\ (Q(5) <= 8 => Q(5) < Q(6))  BY <1>2, <1>3
<1>10. Q(6) <= Q(7) /\ (Q(6) <= 8 => Q(6) < Q(7))  BY <1>2, <1>3
<1>11. Q(7) <= Q(8) /\ (Q(7) <= 8 => Q(7) < Q(8))  BY <1>2, <1>3
<1>12. ASSUME Q(8) <= 8
       PROVE  /\ Q(1) = 1 /\ Q(2) = 2 /\ Q(3) = 3 /\ Q(4) = 4
              /\ Q(5) = 5 /\ Q(6) = 6 /\ Q(7) = 7 /\ Q(8) = 8
  <2>1. Q(7) < Q(8)  BY <1>4, <1>11, <1>12
  <2>2. Q(6) < Q(7)  BY <1>4, <1>10, <1>12, <2>1
  <2>3. Q(5) < Q(6)  BY <1>4, <1>9, <1>12, <2>1, <2>2
  <2>4. Q(4) < Q(5)  BY <1>4, <1>8, <1>12, <2>1, <2>2, <2>3
  <2>5. Q(3) < Q(4)  BY <1>4, <1>7, <1>12, <2>1, <2>2, <2>3, <2>4
  <2>6. Q(2) < Q(3)  BY <1>4, <1>6, <1>12, <2>1, <2>2, <2>3, <2>4, <2>5
  <2>7. Q(1) < Q(2)  BY <1>4, <1>5, <1>12, <2>1, <2>2, <2>3, <2>4, <2>5, <2>6
  <2>8. Q(4) = 4 /\ Q(3) = 3 /\ Q(2) = 2 /\ Q(1) = 1
    BY <1>4, <1>12, <2>1, <2>2, <2>3, <2>4, <2>5, <2>6, <2>7, SMTT(30)
  <2> QED  BY <1>4, <1>12, <2>1, <2>2, <2>3, <2>4, <2>8, SMTT(30)
<1>13. Q(8) <= 8 => \A k \in 1 .. 8 : Q(k) = k
  BY <1>12
<1>14. \A k \in 1 .. 8 : Token(m, k) \in Filled(m, Q(k))
  BY <1>1
<1> QED  BY <1>13, <1>14 DEF Q

(* ... and when no field is empty it is not behind it.                     *)
LEMMA TokensStay ==
  ASSUME NEW m \in Seq(Piece), Forwardable(m),
         \A f \in 1 .. PORT : Filled(m, f) # {}
  PROVE  Place(m, Token(m, 8)) <= 8
<1> DEFINE I(f) == CHOOSE i \in DOMAIN m : i \in Filled(m, f)
<1>1. \A f \in 1 .. 8 : I(f) \in DOMAIN m /\ I(f) \in Filled(m, f)
  <2>1. \A f \in 1 .. 8 : \E i \in DOMAIN m : i \in Filled(m, f)
    BY DEF Filled, PORT
  <2> QED  BY <2>1
<1> HIDE DEF I
<1>2. DOMAIN m = 1 .. Len(m) /\ Len(m) \in Nat
  OBVIOUS
<1>3. \A f \in 1 .. 8 : /\ I(f) \in DOMAIN m /\ I(f) \in 1 .. Len(m)
                       /\ Place(m, I(f)) = f /\ m[I(f)].len > 0
  BY <1>1, <1>2 DEF Filled
<1>4. ASSUME NEW f \in 1 .. 8, NEW g \in 1 .. 8, f < g
      PROVE  I(f) < I(g)
  <2>1. /\ I(f) \in DOMAIN m /\ I(g) \in DOMAIN m
        /\ I(f) \in 1 .. Len(m) /\ I(g) \in 1 .. Len(m)
        /\ Place(m, I(f)) = f /\ Place(m, I(g)) = g
    BY <1>3
  <2>2. I(g) <= I(f) => Place(m, I(g)) <= Place(m, I(f))
    BY <2>1, PlaceGrows
  <2> QED  BY <2>1, <2>2, <1>2, <1>4
<1>5. /\ Token(m, 1) = Strtok(m, 0) /\ Token(m, 2) = Strtok(m, Token(m, 1))
      /\ Token(m, 3) = Strtok(m, Token(m, 2)) /\ Token(m, 4) = Strtok(m, Token(m, 3))
      /\ Token(m, 5) = Strtok(m, Token(m, 4)) /\ Token(m, 6) = Strtok(m, Token(m, 5))
      /\ Token(m, 7) = Strtok(m, Token(m, 6)) /\ Token(m, 8) = Strtok(m, Token(m, 7))
  BY DEF Token, Places
<1>6. \A k \in 1 .. 8 : Token(m, k) \in DOMAIN m /\ Token(m, k) \in 1 .. Len(m)
  BY EightPlaces, <1>2
<1>7. ASSUME NEW a \in 0 .. Len(m), NEW f \in 1 .. 8, a < I(f)
      PROVE  Strtok(m, a) <= I(f)
  <2>1. a \in Nat /\ a <= Len(m) + 1 /\ I(f) \in a + 1 .. Len(m) /\ m[I(f)].len > 0
    <3>1. I(f) \in 1 .. Len(m) /\ m[I(f)].len > 0
      BY <1>3
    <3> QED  BY <3>1, <1>2, <1>7
  <2> QED  BY <2>1, StrtokFinds
<1>8. Token(m, 1) <= I(1)
  <2>1. 0 \in 0 .. Len(m) /\ 0 < I(1)
    BY <1>2, <1>3
  <2> QED  BY <2>1, <1>5, <1>7
<1>9. ASSUME NEW k \in 1 .. 8, NEW l \in 1 .. 8, k < l,
             Token(m, k) <= I(k), Token(m, l) = Strtok(m, Token(m, k))
      PROVE  Token(m, l) <= I(l)
  <2>1. I(k) < I(l) /\ I(k) \in 1 .. Len(m) /\ I(l) \in 1 .. Len(m) /\ Token(m, k) \in 1 .. Len(m)
    BY <1>3, <1>4, <1>6, <1>9
  <2>2. Token(m, k) \in 0 .. Len(m) /\ Token(m, k) < I(l)
    BY <2>1, <1>2, <1>9
  <2> QED  BY <2>2, <1>7, <1>9
<1>10. Token(m, 2) <= I(2)  BY <1>5, <1>8, <1>9
<1>11. Token(m, 3) <= I(3)  BY <1>5, <1>9, <1>10
<1>12. Token(m, 4) <= I(4)  BY <1>5, <1>9, <1>11
<1>13. Token(m, 5) <= I(5)  BY <1>5, <1>9, <1>12
<1>14. Token(m, 6) <= I(6)  BY <1>5, <1>9, <1>13
<1>15. Token(m, 7) <= I(7)  BY <1>5, <1>9, <1>14
<1>16. Token(m, 8) <= I(8)  BY <1>5, <1>9, <1>15
<1>17. Place(m, Token(m, 8)) <= Place(m, I(8))
  <2>1. Token(m, 8) \in DOMAIN m /\ I(8) \in DOMAIN m
    BY <1>3, <1>6
  <2> QED  BY <2>1, <1>16, PlaceGrows
<1>18. Place(m, I(8)) = 8
  BY <1>3
<1> QED  BY <1>17, <1>18

(* So the fields are in place, but for the two exceptions.                 *)
LEMMA ArgumentsInPlace ==
  ASSUME NEW m \in Seq(Piece), Forwardable(m)
  PROVE  \/ \A k \in 1 .. PORT : \E i \in Filled(m, k) : Arguments(m)[k] = m[i]
         \/ \E k \in 1 .. PORT : Cardinality(Filled(m, k)) > 1
         \/ /\ \E k \in 1 .. PORT : Filled(m, k) = {}
            /\ \E f \in PORT + 1 .. Len(m) : Filled(m, f) # {}
<1> SUFFICES ASSUME \A f \in 1 .. PORT : ~ (Cardinality(Filled(m, f)) > 1)
             PROVE  \/ \A k \in 1 .. PORT : \E i \in Filled(m, k) : Arguments(m)[k] = m[i]
                    \/ /\ \E k \in 1 .. PORT : Filled(m, k) = {}
                       /\ \E f \in PORT + 1 .. Len(m) : Filled(m, f) # {}
  OBVIOUS
<1>1. /\ \A k \in 1 .. 8 : Token(m, k) \in Filled(m, Place(m, Token(m, k)))
      /\ Place(m, Token(m, 8)) <= 8 => \A k \in 1 .. 8 : Place(m, Token(m, k)) = k
  BY TokensReach
<1>2. Place(m, Token(m, 8)) \in 1 .. Len(m) /\ Len(m) \in Nat
  <2>1. Token(m, 8) \in DOMAIN m
    BY EightPlaces
  <2> QED  BY <2>1, PlaceGrows
<1>3. \A k \in 1 .. 8 : Arguments(m)[k] = m[Token(m, k)]
  BY DEF Arguments, Token, PORT
<1>4. CASE Place(m, Token(m, 8)) <= 8
  <2>1. \A k \in 1 .. 8 : Token(m, k) \in Filled(m, k) /\ Arguments(m)[k] = m[Token(m, k)]
    BY <1>1, <1>3, <1>4
  <2> QED  BY <2>1 DEF PORT
<1>5. CASE ~ (Place(m, Token(m, 8)) <= 8)
  <2>1. \E f \in 1 .. PORT : Filled(m, f) = {}
    BY <1>5, TokensStay
  <2>2. Place(m, Token(m, 8)) \in PORT + 1 .. Len(m)
    BY <1>2, <1>5 DEF PORT
  <2>3. Filled(m, Place(m, Token(m, 8))) # {}
    BY <1>1
  <2> QED  BY <2>1, <2>2, <2>3
<1> QED  BY <1>4, <1>5

(* Eight things one behind the other, a space between them.                *)
LEMMA EightBehind ==
  ASSUME NEW at \in [1 .. 8 -> Nat], NEW len \in [1 .. 8 -> Nat], NEW e \in Nat,
         \A k \in 1 .. 7 : at[k] + len[k] < at[k + 1],
         at[8] + len[8] <= e
  PROVE  len[1] + len[2] + len[3] + len[4] + len[5] + len[6] + len[7] + len[8] + 7 <= e
<1>1. /\ at[1] + len[1] < at[2] /\ at[2] + len[2] < at[3] /\ at[3] + len[3] < at[4]
      /\ at[4] + len[4] < at[5] /\ at[5] + len[5] < at[6] /\ at[6] + len[6] < at[7]
      /\ at[7] + len[7] < at[8]
  OBVIOUS
<1>2. /\ at[1] \in Nat /\ at[2] \in Nat /\ at[3] \in Nat /\ at[4] \in Nat
      /\ at[5] \in Nat /\ at[6] \in Nat /\ at[7] \in Nat /\ at[8] \in Nat
      /\ len[1] \in Nat /\ len[2] \in Nat /\ len[3] \in Nat /\ len[4] \in Nat
      /\ len[5] \in Nat /\ len[6] \in Nat /\ len[7] \in Nat /\ len[8] \in Nat
  OBVIOUS
<1> QED  BY <1>1, <1>2

(* The tokens and the separators between them are in the message.          *)
LEMMA TokensFit ==
  ASSUME NEW m \in Seq(Piece), Apart(m), Forwardable(m), NEW r, r = Arguments(m)
  PROVE  /\ MessageLen(m) \in Nat
         /\ r[1].len + r[2].len + r[3].len + r[4].len + r[5].len + r[6].len + r[7].len + r[8].len
              + 7 <= MessageLen(m)
<1> DEFINE A(k) == m[Token(m, k)].at
           L(k) == m[Token(m, k)].len
<1>1. \A k \in 1 .. 8 : Token(m, k) \in DOMAIN m /\ Token(m, k) \in Nat
  BY EightPlaces
<1>2. DOMAIN m = 1 .. Len(m) /\ Len(m) \in Nat
  OBVIOUS
<1>3. ASSUME NEW i \in DOMAIN m PROVE m[i].at \in Nat /\ m[i].len \in Nat
  <2>1. m[i] \in Piece
    OBVIOUS
  <2> QED  BY <2>1 DEF Piece
<1>4. \A k \in 1 .. 8 : r[k].len = L(k) /\ A(k) \in Nat /\ L(k) \in Nat
  <2>1. \A k \in 1 .. 8 : r[k] = m[Token(m, k)]
    BY DEF Arguments, Token, PORT
  <2> QED  BY <2>1, <1>1, <1>3
<1>5. ASSUME NEW k \in 1 .. 8, NEW l \in 1 .. 8, Token(m, k) < Token(m, l)
      PROVE  A(k) + L(k) < A(l)
  BY <1>1, <1>5 DEF Apart
<1> DEFINE n == Len(m)
<1>6. n \in DOMAIN m /\ Token(m, 8) \in 1 .. n
  BY <1>1, <1>2
<1>7. m[n].at \in Nat /\ m[n].len \in Nat /\ MessageLen(m) = m[n].at + m[n].len
  BY <1>3, <1>6 DEF MessageLen
<1>8. A(8) + L(8) <= MessageLen(m)
  <2>1. CASE Token(m, 8) = n
    <3>1. A(8) = m[n].at /\ L(8) = m[n].len
      BY <2>1
    <3> QED  BY <3>1, <1>7
  <2>2. CASE Token(m, 8) < n
    <3>1. A(8) + L(8) < m[n].at
      BY <2>2, <1>1, <1>6 DEF Apart
    <3>2. A(8) \in Nat /\ L(8) \in Nat
      BY <1>4
    <3> HIDE DEF A, L
    <3> QED  BY <3>1, <3>2, <1>7
  <2> QED  BY <2>1, <2>2, <1>2, <1>6
<1>9. \A k \in 1 .. 7 : A(k) + L(k) < A(k + 1)
  <2>1. \A k \in 1 .. 7 : k \in 1 .. 8 /\ k + 1 \in 1 .. 8 /\ Token(m, k) < Token(m, k + 1)
    <3>1. /\ Token(m, 1) < Token(m, 2) /\ Token(m, 2) < Token(m, 3)
          /\ Token(m, 3) < Token(m, 4) /\ Token(m, 4) < Token(m, 5)
          /\ Token(m, 5) < Token(m, 6) /\ Token(m, 6) < Token(m, 7)
          /\ Token(m, 7) < Token(m, 8)
      BY EightPlaces
    <3>2. \A k \in 1 .. 7 : k \in 1 .. 8 /\ k + 1 \in 1 .. 8
      OBVIOUS
    <3>3. \A k \in 1 .. 7 : Token(m, k) < Token(m, k + 1)
      BY <3>1
    <3> QED  BY <3>2, <3>3
  <2> QED  BY <2>1, <1>5
<1>10. MessageLen(m) \in Nat
  BY <1>7
<1> DEFINE at == [k \in 1 .. 8 |-> A(k)]
           len == [k \in 1 .. 8 |-> L(k)]
<1> HIDE DEF A, L
<1>11. at \in [1 .. 8 -> Nat] /\ len \in [1 .. 8 -> Nat]
  BY <1>4
<1>12. \A k \in 1 .. 7 : at[k] + len[k] < at[k + 1]
  <2>1. \A k \in 1 .. 7 : k \in 1 .. 8 /\ k + 1 \in 1 .. 8
    OBVIOUS
  <2> QED  BY <2>1, <1>9
<1>13. at[8] + len[8] <= MessageLen(m)
  BY <1>8
<1>14. /\ r[1].len = len[1] /\ r[2].len = len[2] /\ r[3].len = len[3] /\ r[4].len = len[4]
       /\ r[5].len = len[5] /\ r[6].len = len[6] /\ r[7].len = len[7] /\ r[8].len = len[8]
  BY <1>4
<1> HIDE DEF at, len
<1>15. len[1] + len[2] + len[3] + len[4] + len[5] + len[6] + len[7] + len[8] + 7
         <= MessageLen(m)
  BY <1>10, <1>11, <1>12, <1>13, EightBehind
<1> QED  BY <1>10, <1>14, <1>15

(* A buffer that has been cut holds one token at most: it is not accepted  *)
(* again.                                                                  *)
LEMMA CutIsSpent ==
  ASSUME NEW m \in Seq(Piece)
  PROVE  Cut(m) \in Seq(Piece) /\ ~ Forwardable(Cut(m))
<1> DEFINE p == Strtok(m, 0)
<1>1. p \in 1 .. Len(m) + 1 /\ Len(m) \in Nat
  BY StrtokFinds
<1>2. CASE p > Len(m)
  <2>1. Cut(m) = m /\ Places(m)[1] = p
    BY <1>1, <1>2 DEF Cut, Places
  <2>2. ~ (Places(m)[PORT] <= Len(m))
    BY <2>1, <1>1, <1>2, PlacesRise DEF PORT
  <2> QED  BY <2>1, <2>2 DEF Forwardable
<1>3. CASE p <= Len(m)
  <2> DEFINE c == SubSeq(m, 1, p)
  <2>1. Cut(m) = c
    BY <1>3 DEF Cut
  <2>2. c \in Seq(Piece) /\ Len(c) = p /\ \A i \in 1 .. p : c[i] = m[i]
    BY <1>1, <1>3
  <2>3. \A j \in 1 .. p - 1 : ~ (m[j].len > 0)
    BY <1>1, StrtokFinds
  <2>4. Strtok(c, 0) >= p
    <3> DEFINE q == Strtok(c, 0)
    <3>1. q \in 1 .. p + 1 /\ (q <= p => c[q].len > 0)
      <4>1. 0 \in Nat /\ 0 <= Len(c) + 1
        BY <2>2, <1>1
      <4> HIDE DEF c, p
      <4> QED  BY <4>1, <2>2, StrtokFinds
    <3> HIDE DEF q, p, c
    <3> QED  BY <3>1, <2>2, <2>3, <1>1 DEF q
  <2>5. ASSUME Places(c)[PORT] <= Len(c) PROVE FALSE
    <3>1. /\ \A k \in 1 .. PORT : Places(c)[k] \in 1 .. Len(c)
          /\ \A k \in 1 .. PORT - 1 : Places(c)[k] < Places(c)[k + 1]
      BY <2>2, <2>5, PlacesRise
    <3>2. Places(c)[1] = Strtok(c, 0)
      BY DEF Places
    <3>3. p <= Places(c)[1]
      BY <3>2, <2>4
    <3>4. Places(c)[1] < Places(c)[2] /\ Places(c)[1] \in 1 .. p /\ Places(c)[2] \in 1 .. p
      BY <3>1, <2>2, SMTT(30) DEF PORT
    <3> HIDE DEF p, c
    <3> QED  BY <3>3, <3>4, <1>1
  <2> QED  BY <2>1, <2>2, <2>5 DEF Forwardable
<1> QED  BY <1>1, <1>2, <1>3


(* The empty message has no token.                                         *)
LEMMA EmptyIsRefused == << >> \in Seq(Piece) /\ ~ Forwardable(<< >>)
<1>1. << >> \in Seq(Piece) /\ Len(<< >>) = 0
  OBVIOUS
<1>2. ASSUME Places(<< >>)[PORT] <= Len(<< >>)
      PROVE  FALSE
  <2>1. \A k \in 1 .. PORT : Places(<< >>)[k] \in 1 .. Len(<< >>)
    BY <1>1, <1>2, PlacesRise, Zenon
  <2> QED  BY <2>1, <1>1 DEF PORT
<1> QED  BY <1>1, <1>2 DEF Forwardable

(* A number's decimal digits are few.                                      *)
LEMMA DigitsFew ==
  ASSUME NEW n
  PROVE  Digits(n) \in 0 .. 10
<1> DEFINE S == {k \in 0 .. 9 : 10^k <= n}
<1>1. IsFiniteSet(0 .. 9) /\ Cardinality(0 .. 9) = 10
  <2>1. 0 \in Int /\ 9 \in Int /\ ~ (0 > 9) /\ 9 - 0 + 1 = 10
    OBVIOUS
  <2> QED  BY <2>1, FS_Interval
<1>2. S \subseteq 0 .. 9
  OBVIOUS
<1> HIDE DEF S
<1>3. Cardinality(S) \in Nat /\ Cardinality(S) <= 10
  BY <1>1, <1>2, FS_Subset, FS_CardinalityType
<1> QED  BY <1>3 DEF Digits, S

-----------------------------------------------------------------------------
(* The buffer of the caller is never accepted again, a call under way has  *)
(* the arguments of its message, and what `sent`, `requests` and `fds`     *)
(* count follows from where the call is.                                   *)
Parsed ==
  pc # "idle" => Forwardable(message) /\ Apart(message) /\ request = Arguments(message)
Whole == request \in [1 .. PORT -> Piece] /\ \A k \in 1 .. PORT : request[k].len > 0
IInv ==
  /\ TypeOK
  /\ ~ Forwardable(buffer)
  /\ pc # "idle" => Whole
  /\ requests \in {0, 1} /\ (pc \in {"socket", "connect", "write"} => requests = 0)
  /\ pc = "read" => sent = RequestLen(request)
  /\ pc = "idle" /\ ret = 0 /\ message # << >> => Whole /\ sent = RequestLen(request)
  /\ DescriptorsAccounted
  /\ Parsed

(* The lengths of a request are numbers.                                   *)
LEMMA LengthsTyped ==
  ASSUME NEW r \in [1 .. PORT -> Piece], \A k \in 1 .. PORT : r[k].len > 0
  PROVE  /\ BodyLen(r) \in Nat /\ HeaderLen(r) \in Nat /\ RequestLen(r) \in Nat
         /\ BodyLen(r) > 0 /\ HeaderLen(r) > 0
         /\ RequestLen(r) = HeaderLen(r) + BodyLen(r) + TRAILER
         /\ Cuts(r) \subseteq Nat
<1> DEFINE L(k) == r[k].len
<1>1. \A k \in 1 .. 8 : L(k) \in Nat
  <2>1. \A k \in 1 .. 8 : r[k] \in Piece
    BY DEF PORT
  <2> QED  BY <2>1 DEF Piece
<1>2. /\ BodyLen(r) = BODY_TEMPLATE + L(1) + L(2) + L(3) + L(4) + L(5) + L(6)
      /\ HeaderLen(r) = HEADER_TEMPLATE + L(7) + Digits(ContentLength(r))
  BY DEF BodyLen, HeaderLen
<1> HIDE DEF L
<1>3. /\ L(1) \in Nat /\ L(2) \in Nat /\ L(3) \in Nat /\ L(4) \in Nat
      /\ L(5) \in Nat /\ L(6) \in Nat /\ L(7) \in Nat
  BY <1>1
<1>4. BodyLen(r) \in Nat /\ BodyLen(r) > 0
  BY <1>2, <1>3, SMTT(30) DEF BODY_TEMPLATE
<1> DEFINE D == Digits(ContentLength(r))
<1>5. D \in Nat /\ HeaderLen(r) = 208 + L(7) + D
  BY <1>2, DigitsFew DEF HEADER_TEMPLATE
<1> HIDE DEF D
<1>6. HeaderLen(r) \in Nat /\ HeaderLen(r) > 0
  BY <1>3, <1>5
<1>7. RequestLen(r) = HeaderLen(r) + BodyLen(r) + 4 /\ TRAILER = 4
  BY DEF RequestLen, TRAILER
<1>8. Cuts(r) \subseteq Nat
  BY <1>4, <1>6, <1>7, SMTT(30) DEF Cuts
<1> QED  BY <1>4, <1>6, <1>7, <1>8

(* The first process starts with nothing.                                  *)
LEMMA InitInv == Init => IInv
BY EmptyIsRefused, FdsAssumption
  DEF Init, IInv, TypeOK, DescriptorsAccounted, Parsed


(* A call that is refused at once.                                         *)
LEMMA RejectInv ==
  ASSUME IInv, NEW m \in Seq(Piece), Reject(m),
         message' \in Seq(Piece), requests' \in {0, 1}
  PROVE  IInv'
<1>1. Cut(m) \in Seq(Piece) /\ ~ Forwardable(Cut(m))
  BY CutIsSpent
<1> QED
  BY <1>1 DEF IInv, TypeOK, DescriptorsAccounted, Parsed, Reject, Return, Whole

(* A call that builds a request from a new message.                        *)
LEMMA BuildInv ==
  ASSUME IInv, NEW m \in Seq(Piece), Apart(m), Build(m), Fill(m)
  PROVE  IInv'
<1>1. Cut(m) \in Seq(Piece) /\ ~ Forwardable(Cut(m))
  BY CutIsSpent
<1>2. /\ Forwardable(m) /\ pc = "idle" /\ pc' = "socket" /\ request' = Arguments(m)
      /\ buffer' = Cut(m) /\ sent' = 0 /\ UNCHANGED <<fds, ret, failed>>
      /\ message' = m /\ requests' = 0
  BY DEF Build, Fill
<1>3. Whole'
  BY <1>2, ArgumentsTyped DEF Whole
<1>4. Parsed'
  BY <1>2 DEF Parsed
<1>5. TypeOK'
  BY <1>1, <1>2, <1>3 DEF IInv, TypeOK, Whole
<1>6. DescriptorsAccounted'
  BY <1>2 DEF IInv, DescriptorsAccounted
<1> QED  BY <1>1, <1>2, <1>3, <1>4, <1>5, <1>6 DEF IInv

(* The steps after that leave message and request alone, or end the        *)
(* process.                                                                *)
LEMMA StepInv ==
  ASSUME IInv, Step
  PROVE  IInv'
<1> USE FdsAssumption
<1>1. CASE Socket
  BY <1>1 DEF IInv, TypeOK, DescriptorsAccounted, Parsed, Whole, Socket, caller
<1>2. CASE SocketFails
  BY <1>2 DEF IInv, TypeOK, DescriptorsAccounted, Parsed, Whole, SocketFails, caller, Return
<1>3. CASE Connect
  BY <1>3 DEF IInv, TypeOK, DescriptorsAccounted, Parsed, Whole, Connect, caller
<1>4. CASE ConnectFails
  BY <1>4 DEF IInv, TypeOK, DescriptorsAccounted, Parsed, Whole, ConnectFails, CloseSocket,
              caller, Return
<1>5. CASE Write
  <2>1. RequestLen(request) \in Nat
    BY <1>5, LengthsTyped DEF IInv, Whole, Write
  <2> QED
    BY <1>5, <2>1 DEF IInv, TypeOK, DescriptorsAccounted, Parsed, Whole, Write, caller
<1>6. CASE WriteShort
  <2>1. Cuts(request) \subseteq Nat
    BY <1>6, LengthsTyped DEF IInv, Whole, WriteShort
  <2> QED
    BY <1>6, <2>1 DEF IInv, TypeOK, DescriptorsAccounted, Parsed, Whole, WriteShort, caller,
                      Return
<1>7. CASE BrokenPipe
  <2>1. Init'
    BY <1>7 DEF BrokenPipe, Init
  <2> QED  BY <2>1, InitInv, PTL
<1>8. CASE Read
  BY <1>8 DEF IInv, TypeOK, DescriptorsAccounted, Parsed, Whole, Read, caller, Return
<1> QED  BY <1>1, <1>2, <1>3, <1>4, <1>5, <1>6, <1>7, <1>8 DEF Step

(* The invariant holds in every reachable state.                           *)
THEOREM Invariance == Spec => []IInv
<1>1. IInv /\ [Next]_vars => IInv'
  <2> SUFFICES ASSUME IInv, [Next]_vars PROVE IInv'
    OBVIOUS
  <2>1. CASE SendNothing
    BY <2>1, EmptyIsRefused
    DEF IInv, TypeOK, DescriptorsAccounted, Parsed, Whole, SendNothing, Return
  <2>2. ASSUME NEW m \in Messages, Fill(m), Reject(m) \/ Build(m)
        PROVE  IInv'
    <3>1. m \in Seq(Piece) /\ Apart(m)
      BY MessagesAssumption
    <3> QED  BY <2>2, <3>1, RejectInv, BuildInv DEF Fill
  <2>3. CASE PassAgain /\ (Reject(buffer) \/ Build(buffer))
    <3>1. ~ Build(buffer)
      BY DEF IInv, Build
    <3>2. buffer \in Seq(Piece) /\ message' \in Seq(Piece) /\ requests' \in {0, 1}
      BY <2>3 DEF IInv, TypeOK, PassAgain
    <3> QED  BY <2>3, <3>1, <3>2, RejectInv
  <2>4. CASE Step
    BY <2>4, StepInv
  <2>5. CASE UNCHANGED vars
    BY <2>5 DEF IInv, TypeOK, DescriptorsAccounted, Parsed, Whole, vars, caller
  <2> QED  BY <2>1, <2>2, <2>3, <2>4, <2>5 DEF Next, Call
<1> QED  BY <1>1, InitInv, PTL DEF Spec

-----------------------------------------------------------------------------
(* The types are right, and no descriptor is closed that is not open.      *)
THEOREM TypeCorrect == Spec => []TypeOK
<1>1. IInv => TypeOK
  BY DEF IInv
<1> QED  BY <1>1, Invariance, PTL

(* A descriptor open outside a call was left by a write that failed.       *)
THEOREM DescriptorsKept == Spec => []DescriptorsAccounted
<1>1. IInv => DescriptorsAccounted
  BY DEF IInv
<1> QED  BY <1>1, Invariance, PTL

(* http_send returns 0 only for a request written whole.                   *)
THEOREM ZeroIsWhole == Spec => []ZeroMeansSent
<1>1. IInv => ZeroMeansSent
  <2> SUFFICES ASSUME IInv, pc = "idle", ret = 0, message # << >>
               PROVE  /\ PeerComplete
                      /\ sent = HeaderLen(request) + ContentLength(request) + TRAILER
    BY DEF ZeroMeansSent
  <2>1. Whole /\ sent = RequestLen(request)
    BY DEF IInv
  <2>2. /\ BodyLen(request) \in Nat /\ HeaderLen(request) \in Nat /\ HeaderLen(request) > 0
        /\ sent = HeaderLen(request) + BodyLen(request) + TRAILER
    BY <2>1, LengthsTyped DEF Whole
  <2> QED  BY <2>2 DEF PeerComplete, ContentLength, TRAILER
<1> QED  BY <1>1, Invariance, PTL

(* A field is sent under another's name only when one of the first eight   *)
(* has a CR or LF in it, or one is empty and there are more than eight.    *)
THEOREM FieldsKeepPlace == Spec => []FieldsInPlace
<1>1. IInv => FieldsInPlace
  <2> SUFFICES ASSUME IInv, pc # "idle"
               PROVE  \/ \A k \in 1 .. PORT : \E i \in Filled(message, k) : request[k] = message[i]
                      \/ \E k \in 1 .. PORT : Cardinality(Filled(message, k)) > 1
                      \/ /\ \E k \in 1 .. PORT : Filled(message, k) = {}
                         /\ \E f \in PORT + 1 .. Len(message) : Filled(message, f) # {}
    BY DEF FieldsInPlace
  <2>1. message \in Seq(Piece) /\ Forwardable(message) /\ request = Arguments(message)
    BY DEF IInv, TypeOK, Parsed
  <2> QED  BY <2>1, ArgumentsInPlace
<1> QED  BY <1>1, Invariance, PTL

(* No retry with the same buffer makes a second request.                   *)
THEOREM OneRequestPerBuffer == Spec => []AtMostOneRequest
<1>1. IInv => AtMostOneRequest
  BY DEF IInv, AtMostOneRequest
<1> QED  BY <1>1, Invariance, PTL

(* Messages of up to LargestMessage bytes fit the two static buffers,      *)
(* however their fields are separated.                                     *)
THEOREM BuffersSuffice == Spec => []BuffersHold
<1>1. IInv => BuffersHold
  <2> SUFFICES ASSUME IInv, pc # "idle", MessageLen(message) <= LargestMessage
               PROVE  BodyLen(request) < BODY_BUF_SIZE /\ RequestLen(request) < HEADER_BUF_SIZE
    BY DEF BuffersHold
  <2> DEFINE L(k) == request[k].len
  <2>1. \A k \in 1 .. 8 : L(k) \in Nat /\ L(k) > 0
    BY DEF IInv, Whole, Piece, PORT
  <2>2. /\ L(1) + L(2) + L(3) + L(4) + L(5) + L(6) + L(7) + L(8) + 7 <= MessageLen(message)
        /\ MessageLen(message) \in Nat
    BY TokensFit DEF IInv, TypeOK, Parsed
  <2>3. Digits(BodyLen(request)) \in 0 .. 10
    BY DigitsFew
  <2>4. /\ BodyLen(request) = BODY_TEMPLATE + L(1) + L(2) + L(3) + L(4) + L(5) + L(6)
        /\ RequestLen(request)
             = HEADER_TEMPLATE + L(7) + Digits(BodyLen(request)) + BodyLen(request) + TRAILER
    BY DEF BodyLen, RequestLen, HeaderLen, ContentLength
  <2>5. /\ L(1) \in Nat /\ L(2) \in Nat /\ L(3) \in Nat /\ L(4) \in Nat
        /\ L(5) \in Nat /\ L(6) \in Nat /\ L(7) \in Nat /\ L(8) \in Nat
        /\ L(7) > 0 /\ L(8) > 0
    BY <2>1
  <2> HIDE DEF L
  <2> QED
    BY <2>2, <2>3, <2>4, <2>5, SMT
    DEF LargestMessage, TRAILER, BODY_TEMPLATE, HEADER_TEMPLATE, BODY_BUF_SIZE, HEADER_BUF_SIZE
<1> QED  BY <1>1, Invariance, PTL
=============================================================================
