-------------------------- MODULE LocalStoreProofs --------------------------
(***************************************************************************)
(* Proofs about LocalStore, for any number of DIDs, peers, handles and      *)
(* rows.  The merge goes over the old owners one by one, and over the       *)
(* handles one by one; what it does to a row is shown by induction on how   *)
(* far it is, which the well-foundedness of the numbers gives (Induction).  *)
(***************************************************************************)
EXTENDS LocalStore, WellFoundedInduction, FiniteSetTheorems, SequenceTheorems, TLAPS

LEMMA Induction ==
  ASSUME NEW S, 0 \in S, \A n \in Nat : n \in S => n + 1 \in S
  PROVE  Nat \subseteq S
<1> DEFINE T == Nat \ S
<1> SUFFICES ASSUME T # {} PROVE FALSE
  OBVIOUS
<1>1. PICK x \in T : \A y \in T : ~(<<y, x>> \in OpToRel(<, Nat))
  <2>1. T \subseteq Nat
    OBVIOUS
  <2> HIDE DEF T
  <2> QED
    BY <2>1, WFMin, NatLessThanWellFounded
<1>2. \A y \in T : ~(y < x)
  BY <1>1 DEF OpToRel
<1>3. x \in Nat /\ x # 0 /\ x - 1 \in Nat /\ x - 1 < x
  OBVIOUS
<1>4. x - 1 \in S
  BY <1>2, <1>3
<1>5. (x - 1) + 1 \in S
  BY <1>3, <1>4
<1> QED
  BY <1>3, <1>5

(***************************************************************************)
(* The merge of a table                                                    *)
(***************************************************************************)
LEMMA Owned ==
  /\ Len(OldOwners) \in Nat /\ Len(OldOwners) # 0
  /\ \A i \in 1..Len(OldOwners) : OldOwners[i] \in Olds /\ OldOwners[i] # NewOwner
  /\ \A o \in Olds : \E i \in 1..Len(OldOwners) : o = OldOwners[i]
BY ConstantsOK, EmptySeq DEF Olds

(* The recursion over the owners has a value.                               *)
LEMMA MergeDefined ==
  ASSUME NEW table, NEW t
  PROVE  \E m : m = [i \in 0..Len(OldOwners) |->
                       IF i = 0 THEN t ELSE MergeOwner(table, m[i - 1], OldOwners[i])]
<1> DEFINE S == {n \in Nat : \E m : m = [i \in 0..n |->
                   IF i = 0 THEN t ELSE MergeOwner(table, m[i - 1], OldOwners[i])]}
<1>1. 0 \in S
  <2> DEFINE m == [i \in 0..0 |-> t]
  <2>1. m = [i \in 0..0 |-> IF i = 0 THEN t ELSE MergeOwner(table, m[i - 1], OldOwners[i])]
    OBVIOUS
  <2> QED
    BY <2>1
<1>2. ASSUME NEW n \in Nat, n \in S PROVE n + 1 \in S
  <2>1. PICK m : m = [i \in 0..n |->
                   IF i = 0 THEN t ELSE MergeOwner(table, m[i - 1], OldOwners[i])]
    BY <1>2
  <2> DEFINE g == [i \in 0..(n + 1) |->
                     IF i = n + 1 THEN MergeOwner(table, m[n], OldOwners[n + 1]) ELSE m[i]]
  <2>2. ASSUME NEW i \in 0..(n + 1)
        PROVE  g[i] = IF i = 0 THEN t ELSE MergeOwner(table, g[i - 1], OldOwners[i])
    <3>1. CASE i = n + 1
      <4>1. g[i - 1] = m[n] /\ i # 0 /\ g[i] = MergeOwner(table, m[n], OldOwners[n + 1])
        BY <3>1
      <4> QED
        BY <3>1, <4>1
    <3>2. CASE i # n + 1
      <4>1. i \in 0..n /\ g[i] = m[i] /\ (i # 0 => g[i - 1] = m[i - 1])
        BY <3>2
      <4>2. m[i] = IF i = 0 THEN t ELSE MergeOwner(table, m[i - 1], OldOwners[i])
        BY <2>1, <4>1
      <4> QED
        BY <4>1, <4>2
    <3> QED
      BY <3>1, <3>2
  <2>3. g = [i \in 0..(n + 1) |->
               IF i = 0 THEN t ELSE MergeOwner(table, g[i - 1], OldOwners[i])]
    BY <2>2
  <2>4. \E h : h = [i \in 0..(n + 1) |->
                      IF i = 0 THEN t ELSE MergeOwner(table, h[i - 1], OldOwners[i])]
    <3> HIDE DEF g
    <3> QED
      BY <2>3
  <2> QED
    BY <2>4
<1>3. Nat \subseteq S
  <2> HIDE DEF S
  <2> QED
    BY <1>1, <1>2, Induction
<1> QED
  BY <1>3, Owned

LEMMA MergeTurns ==
  ASSUME NEW table, NEW t
  PROVE  /\ MergeOwners(table, t)[0] = t
         /\ \A i \in 1..Len(OldOwners) :
              MergeOwners(table, t)[i] = MergeOwner(table, MergeOwners(table, t)[i - 1], OldOwners[i])
<1>1. MergeOwners(table, t) = [i \in 0..Len(OldOwners) |->
        IF i = 0 THEN t ELSE MergeOwner(table, MergeOwners(table, t)[i - 1], OldOwners[i])]
  BY MergeDefined DEF MergeOwners
<1> DEFINE m == MergeOwners(table, t)
<1>2. ASSUME NEW i \in 0..Len(OldOwners)
      PROVE  m[i] = IF i = 0 THEN t ELSE MergeOwner(table, m[i - 1], OldOwners[i])
  BY <1>1
<1> HIDE DEF m
<1>3. 0 \in 0..Len(OldOwners) /\ \A i \in 1..Len(OldOwners) : i \in 0..Len(OldOwners) /\ i # 0
  BY Owned
<1>4. m[0] = t /\ \A i \in 1..Len(OldOwners) : m[i] = MergeOwner(table, m[i - 1], OldOwners[i])
  BY <1>2, <1>3
<1> QED
  BY <1>4 DEF m

Paired(t) == \A k \in DOMAIN t : k = <<k[1], k[2]>>

(* u has the rows of t of all old owners.                                   *)
OldsKept(t, u) ==
  \A p, x : p # NewOwner =>
    /\ <<p, x>> \in DOMAIN u <=> <<p, x>> \in DOMAIN t
    /\ <<p, x>> \in DOMAIN t => u[<<p, x>>] = t[<<p, x>>]

(* u is t with the rows of o joined to those of the new owner.              *)
Taken(table, t, o, u) ==
  /\ \A x : <<NewOwner, x>> \in DOMAIN u <=> <<NewOwner, x>> \in DOMAIN t \/ <<o, x>> \in DOMAIN t
  /\ \A x : <<NewOwner, x>> \in DOMAIN u =>
       u[<<NewOwner, x>>] =
         IF <<o, x>> \notin DOMAIN t THEN t[<<NewOwner, x>>]
         ELSE IF <<NewOwner, x>> \in DOMAIN t
           THEN Join(table, t[<<NewOwner, x>>], Normalize(table, t[<<o, x>>]))
         ELSE Normalize(table, t[<<o, x>>])

LEMMA OwnerMerged ==
  ASSUME NEW table, NEW t, Paired(t), NEW o, o # NewOwner
  PROVE  LET u == MergeOwner(table, t, o) IN Paired(u) /\ OldsKept(t, u) /\ Taken(table, t, o, u)
<1> PICK u : u = MergeOwner(table, t, o)
  OBVIOUS
<1> DEFINE K == {Under(k, NewOwner) : k \in KeysOf(t, o)}
           rows == [k \in K |-> IF k \in DOMAIN t
                                THEN Join(table, t[k], Normalize(table, t[Under(k, o)]))
                                ELSE Normalize(table, t[Under(k, o)])]
<1>1. u = [k \in DOMAIN t \union K |-> IF k \in K THEN rows[k] ELSE t[k]]
  BY DEF MergeOwner, UpsertRows
<1>2. \A k \in K : k = <<NewOwner, k[2]>> /\ <<o, k[2]>> \in DOMAIN t
  BY DEF Under, KeysOf, Paired
<1>3. \A x : <<o, x>> \in DOMAIN t => <<NewOwner, x>> \in K
  BY DEF Under, KeysOf
<1>4. \A x : <<NewOwner, x>> \in K =>
        rows[<<NewOwner, x>>] = IF <<NewOwner, x>> \in DOMAIN t
                                THEN Join(table, t[<<NewOwner, x>>], Normalize(table, t[<<o, x>>]))
                                ELSE Normalize(table, t[<<o, x>>])
  BY DEF Under
<1> HIDE DEF K, rows
<1>5. Paired(u)
  <2>1. ASSUME NEW k \in DOMAIN u PROVE k = <<k[1], k[2]>>
    <3>1. CASE k \in K
      <4>1. k = <<NewOwner, k[2]>>
        BY <1>2, <3>1
      <4>2. k[1] = NewOwner
        BY <4>1
      <4> QED
        BY <4>1, <4>2
    <3>2. CASE k \notin K
      BY <1>1, <3>2 DEF Paired
    <3> QED
      BY <3>1, <3>2
  <2> QED
    BY <2>1 DEF Paired
<1>6. \A p, x : p # NewOwner => <<p, x>> \notin K
  BY <1>2
<1>7. \A x : <<NewOwner, x>> \in K <=> <<o, x>> \in DOMAIN t
  BY <1>2, <1>3
<1>8. OldsKept(t, u)
  BY <1>1, <1>6 DEF OldsKept
<1>9. Taken(table, t, o, u)
  BY <1>1, <1>4, <1>7 DEF Taken
<1> QED
  BY <1>5, <1>8, <1>9

(* Up to the turn of an owner, its rows and those of the later ones are as  *)
(* they were.                                                               *)
LEMMA OwnersMerged ==
  ASSUME NEW table, NEW t, Paired(t), NEW m, m = MergeOwners(table, t), NEW n \in 0..Len(OldOwners)
  PROVE  Paired(m[n]) /\ OldsKept(t, m[n])
<1> DEFINE P(i) == Paired(m[i]) /\ OldsKept(t, m[i])
           S == {i \in Nat : i <= Len(OldOwners) => P(i)}
<1>1. m[0] = t /\ \A i \in 1..Len(OldOwners) : m[i] = MergeOwner(table, m[i - 1], OldOwners[i])
  BY MergeTurns
<1>2. 0 \in S
  BY <1>1 DEF OldsKept
<1>3. ASSUME NEW i \in Nat, i \in S PROVE i + 1 \in S
  <2> SUFFICES ASSUME i + 1 <= Len(OldOwners) PROVE P(i + 1)
    OBVIOUS
  <2>1. i + 1 \in 1..Len(OldOwners) /\ (i + 1) - 1 = i /\ i <= Len(OldOwners)
    BY Owned
  <2>2. P(i)
    BY <1>3, <2>1
  <2>3. m[i + 1] = MergeOwner(table, m[i], OldOwners[i + 1]) /\ OldOwners[i + 1] # NewOwner
    BY <1>1, <2>1, Owned
  <2>4. Paired(m[i + 1]) /\ OldsKept(m[i], m[i + 1])
    BY <2>2, <2>3, OwnerMerged
  <2>5. OldsKept(t, m[i + 1])
    BY <2>2, <2>4 DEF OldsKept
  <2> QED
    BY <2>4, <2>5
<1>4. Nat \subseteq S
  <2> HIDE DEF S
  <2> QED
    BY <1>2, <1>3, Induction
<1>5. P(n)
  BY <1>4, Owned
<1> QED
  BY <1>5

(* Every row of a table is one of an owner, and m is the table after the    *)
(* turns of all old ones.                                                   *)
OfOwners(t) == Paired(t) /\ \A k \in DOMAIN t : k[1] \in Owners

LEMMA RowsMerged ==
  ASSUME NEW table, NEW t, OfOwners(t), NEW m, m = MergeOwners(table, t)[Len(OldOwners)]
  PROVE  LET u == MergeRows(table, t) IN
         /\ \A k \in DOMAIN u : k = <<NewOwner, k[2]>>
         /\ \A x : <<NewOwner, x>> \in DOMAIN u <=> <<NewOwner, x>> \in DOMAIN m
         /\ \A x : <<NewOwner, x>> \in DOMAIN m => u[<<NewOwner, x>>] = m[<<NewOwner, x>>]
<1> DEFINE u == MergeRows(table, t)
<1>1. Len(OldOwners) \in 0..Len(OldOwners)
  BY Owned
<1>2. Paired(t)
  BY DEF OfOwners
<1>3. /\ Paired(m)
      /\ \A p, x : p # NewOwner => (<<p, x>> \in DOMAIN m <=> <<p, x>> \in DOMAIN t)
  <2>1. Paired(m) /\ OldsKept(t, m)
    BY <1>1, <1>2, OwnersMerged
  <2> QED
    BY <2>1 DEF OldsKept
<1>4. u = [k \in {k \in DOMAIN m : k[1] \notin Olds} |-> m[k]]
  BY DEF MergeRows, DeleteRowsForOwners
<1> HIDE DEF u
<1>5. ASSUME NEW k \in DOMAIN u PROVE k = <<NewOwner, k[2]>>
  <2>1. k = <<k[1], k[2]>> /\ k[1] \notin Olds /\ k \in DOMAIN m
    BY <1>3, <1>4 DEF Paired
  <2>2. k[1] = NewOwner
    <3> SUFFICES ASSUME k[1] # NewOwner PROVE FALSE
      OBVIOUS
    <3>1. <<k[1], k[2]>> \in DOMAIN t
      BY <1>3, <2>1
    <3>2. <<k[1], k[2]>>[1] \in Owners
      BY <3>1 DEF OfOwners
    <3> QED
      BY <2>1, <3>2 DEF Owners
  <2> QED
    BY <2>1, <2>2
<1>6. NewOwner \notin Olds
  BY ConstantsOK
<1>7. \A x : <<NewOwner, x>>[1] = NewOwner
  OBVIOUS
<1> QED
  BY <1>4, <1>5, <1>6, <1>7 DEF u

(* What holds of the rows of the new owner, and after each join, holds of   *)
(* every merged row.                                                        *)
Closed(table, t, S) ==
  /\ \A x : <<NewOwner, x>> \in DOMAIN t => <<x, t[<<NewOwner, x>>]>> \in S
  /\ \A o \in Olds : \A x : <<o, x>> \in DOMAIN t =>
       LET r == Normalize(table, t[<<o, x>>]) IN
       <<x, r>> \in S /\ \A e : <<x, e>> \in S => <<x, Join(table, e, r)>> \in S

LEMMA Merges ==
  ASSUME NEW table, NEW t, OfOwners(t), NEW S, Closed(table, t, S)
  PROVE  \A x : <<NewOwner, x>> \in DOMAIN MergeRows(table, t) =>
           /\ \E p \in Owners : <<p, x>> \in DOMAIN t
           /\ <<x, MergeRows(table, t)[<<NewOwner, x>>]>> \in S
<1> DEFINE m == MergeOwners(table, t)
           P(i) == \A x : <<NewOwner, x>> \in DOMAIN m[i] =>
                     /\ \E p \in Owners : <<p, x>> \in DOMAIN t
                     /\ <<x, m[i][<<NewOwner, x>>]>> \in S
           I == {i \in Nat : i <= Len(OldOwners) => P(i)}
<1>0. Paired(t)
  BY DEF OfOwners
<1>1. m[0] = t /\ \A i \in 1..Len(OldOwners) : m[i] = MergeOwner(table, m[i - 1], OldOwners[i])
  BY MergeTurns
<1>2. \A i \in 0..Len(OldOwners) : Paired(m[i]) /\ OldsKept(t, m[i])
  BY <1>0, OwnersMerged
<1>3. Len(OldOwners) \in Nat /\ m[Len(OldOwners)] = MergeOwners(table, t)[Len(OldOwners)]
  BY Owned
<1> HIDE DEF m
<1>4. 0 \in I
  BY <1>1 DEF Closed, Owners
<1>5. ASSUME NEW i \in Nat, i \in I PROVE i + 1 \in I
  <2> SUFFICES ASSUME i + 1 <= Len(OldOwners) PROVE P(i + 1)
    OBVIOUS
  <2>1. i + 1 \in 1..Len(OldOwners) /\ (i + 1) - 1 = i /\ i \in 0..Len(OldOwners)
    BY <1>3
  <2>2. P(i) /\ Paired(m[i])
    BY <1>2, <1>5, <2>1
  <2>3. PICK o : o = OldOwners[i + 1]
    OBVIOUS
  <2>4. o \in Olds /\ o # NewOwner /\ m[i + 1] = MergeOwner(table, m[i], o)
    BY <1>1, <2>1, <2>3, Owned
  <2>5. Taken(table, m[i], o, m[i + 1])
    BY <2>2, <2>4, OwnerMerged
  <2>6. \A x : /\ <<o, x>> \in DOMAIN m[i] <=> <<o, x>> \in DOMAIN t
               /\ <<o, x>> \in DOMAIN t => m[i][<<o, x>>] = t[<<o, x>>]
    BY <1>2, <2>1, <2>4 DEF OldsKept
  <2>7. ASSUME NEW x, <<NewOwner, x>> \in DOMAIN m[i + 1]
        PROVE  /\ \E p \in Owners : <<p, x>> \in DOMAIN t
               /\ <<x, m[i + 1][<<NewOwner, x>>]>> \in S
    <3>1. CASE <<o, x>> \notin DOMAIN m[i]
      <4>1. <<NewOwner, x>> \in DOMAIN m[i] /\ m[i + 1][<<NewOwner, x>>] = m[i][<<NewOwner, x>>]
        BY <2>5, <2>7, <3>1 DEF Taken
      <4> QED
        BY <2>2, <4>1
    <3>2. CASE <<o, x>> \in DOMAIN m[i]
      <4>1. PICK r : r = Normalize(table, t[<<o, x>>])
        OBVIOUS
      <4>2. <<x, r>> \in S /\ \A e : <<x, e>> \in S => <<x, Join(table, e, r)>> \in S
        BY <2>4, <2>6, <3>2, <4>1 DEF Closed
      <4>3. m[i + 1][<<NewOwner, x>>] = IF <<NewOwner, x>> \in DOMAIN m[i]
                                        THEN Join(table, m[i][<<NewOwner, x>>], r) ELSE r
        BY <2>5, <2>6, <2>7, <3>2, <4>1 DEF Taken
      <4>4. o \in Owners /\ <<o, x>> \in DOMAIN t
        BY <2>4, <2>6, <3>2 DEF Owners
      <4> QED
        BY <2>2, <4>2, <4>3, <4>4
    <3> QED
      BY <3>1, <3>2
  <2> QED
    BY <2>7
<1>6. Nat \subseteq I
  <2> HIDE DEF I
  <2> QED
    BY <1>4, <1>5, Induction
<1>7. P(Len(OldOwners))
  BY <1>3, <1>6
<1> QED
  BY <1>3, <1>7, RowsMerged

(* What a row of some owner makes true of the merged one, and no join takes *)
(* back.                                                                    *)
LEMMA Keeps ==
  ASSUME NEW table, NEW t, OfOwners(t), NEW p \in Owners, NEW x, <<p, x>> \in DOMAIN t, NEW S,
         p = NewOwner => t[<<p, x>>] \in S,
         p # NewOwner => LET r == Normalize(table, t[<<p, x>>]) IN
                         r \in S /\ \A e : Join(table, e, r) \in S,
         \A o \in Olds : <<o, x>> \in DOMAIN t =>
           \A e \in S : Join(table, e, Normalize(table, t[<<o, x>>])) \in S
  PROVE  /\ <<NewOwner, x>> \in DOMAIN MergeRows(table, t)
         /\ MergeRows(table, t)[<<NewOwner, x>>] \in S
<1> DEFINE m == MergeOwners(table, t)
           P(i) == p = NewOwner \/ (\E j \in 1..i : p = OldOwners[j]) =>
                     <<NewOwner, x>> \in DOMAIN m[i] /\ m[i][<<NewOwner, x>>] \in S
           I == {i \in Nat : i <= Len(OldOwners) => P(i)}
<1>0. Paired(t)
  BY DEF OfOwners
<1>1. m[0] = t /\ \A i \in 1..Len(OldOwners) : m[i] = MergeOwner(table, m[i - 1], OldOwners[i])
  BY MergeTurns
<1>2. \A i \in 0..Len(OldOwners) : Paired(m[i]) /\ OldsKept(t, m[i])
  BY <1>0, OwnersMerged
<1>3. Len(OldOwners) \in Nat /\ m[Len(OldOwners)] = MergeOwners(table, t)[Len(OldOwners)]
  BY Owned
<1> HIDE DEF m
<1>4. 0 \in I
  BY <1>1
<1>5. ASSUME NEW i \in Nat, i \in I PROVE i + 1 \in I
  <2> SUFFICES ASSUME i + 1 <= Len(OldOwners), p = NewOwner \/ \E j \in 1..(i + 1) : p = OldOwners[j]
               PROVE  <<NewOwner, x>> \in DOMAIN m[i + 1] /\ m[i + 1][<<NewOwner, x>>] \in S
    OBVIOUS
  <2>1. i + 1 \in 1..Len(OldOwners) /\ (i + 1) - 1 = i /\ i \in 0..Len(OldOwners)
    BY <1>3
  <2>2. P(i) /\ Paired(m[i])
    BY <1>2, <1>5, <2>1
  <2>3. PICK o : o = OldOwners[i + 1]
    OBVIOUS
  <2>4. o \in Olds /\ o # NewOwner /\ m[i + 1] = MergeOwner(table, m[i], o)
    BY <1>1, <2>1, <2>3, Owned
  <2>5. Taken(table, m[i], o, m[i + 1])
    BY <2>2, <2>4, OwnerMerged
  <2>6. /\ <<o, x>> \in DOMAIN m[i] <=> <<o, x>> \in DOMAIN t
        /\ <<o, x>> \in DOMAIN t => m[i][<<o, x>>] = t[<<o, x>>]
    BY <1>2, <2>1, <2>4 DEF OldsKept
  <2>7. PICK r : r = Normalize(table, t[<<o, x>>])
    OBVIOUS
  <2>8. <<o, x>> \in DOMAIN t =>
          /\ <<NewOwner, x>> \in DOMAIN m[i + 1]
          /\ m[i + 1][<<NewOwner, x>>] = IF <<NewOwner, x>> \in DOMAIN m[i]
                                         THEN Join(table, m[i][<<NewOwner, x>>], r) ELSE r
    BY <2>5, <2>6, <2>7 DEF Taken
  <2>9. CASE p = o
    BY <2>4, <2>7, <2>8, <2>9
  <2>10. CASE p # o
    <3>1. p = NewOwner \/ \E j \in 1..i : p = OldOwners[j]
      BY <2>3, <2>10
    <3>2. <<NewOwner, x>> \in DOMAIN m[i] /\ m[i][<<NewOwner, x>>] \in S
      BY <2>2, <3>1
    <3>3. CASE <<o, x>> \in DOMAIN t
      BY <2>4, <2>7, <2>8, <3>2, <3>3
    <3>4. CASE <<o, x>> \notin DOMAIN t
      BY <2>5, <2>6, <3>2, <3>4 DEF Taken
    <3> QED
      BY <3>3, <3>4
  <2> QED
    BY <2>9, <2>10
<1>6. Nat \subseteq I
  <2> HIDE DEF I
  <2> QED
    BY <1>4, <1>5, Induction
<1>7. P(Len(OldOwners))
  BY <1>3, <1>6
<1>8. p = NewOwner \/ \E j \in 1..Len(OldOwners) : p = OldOwners[j]
  BY Owned DEF Owners
<1> QED
  BY <1>3, <1>7, <1>8, RowsMerged

(***************************************************************************)
(* The turns of the handles                                                *)
(***************************************************************************)
LEMMA TurnsDefined ==
  ASSUME NEW t, NEW order, Len(order) \in Nat
  PROVE  \E m : m = [i \in 0..Len(order) |->
                       IF i = 0 THEN t ELSE NormalizeCurrentHandle(m[i - 1], order[i])]
<1> DEFINE S == {n \in Nat : \E m : m = [i \in 0..n |->
                   IF i = 0 THEN t ELSE NormalizeCurrentHandle(m[i - 1], order[i])]}
<1>1. 0 \in S
  <2> DEFINE m == [i \in 0..0 |-> t]
  <2>1. m = [i \in 0..0 |-> IF i = 0 THEN t ELSE NormalizeCurrentHandle(m[i - 1], order[i])]
    OBVIOUS
  <2> QED
    BY <2>1
<1>2. ASSUME NEW n \in Nat, n \in S PROVE n + 1 \in S
  <2>1. PICK m : m = [i \in 0..n |->
                   IF i = 0 THEN t ELSE NormalizeCurrentHandle(m[i - 1], order[i])]
    BY <1>2
  <2> DEFINE g == [i \in 0..(n + 1) |->
                     IF i = n + 1 THEN NormalizeCurrentHandle(m[n], order[n + 1]) ELSE m[i]]
  <2>2. ASSUME NEW i \in 0..(n + 1)
        PROVE  g[i] = IF i = 0 THEN t ELSE NormalizeCurrentHandle(g[i - 1], order[i])
    <3>1. CASE i = n + 1
      <4>1. g[i - 1] = m[n] /\ i # 0 /\ g[i] = NormalizeCurrentHandle(m[n], order[n + 1])
        BY <3>1
      <4> QED
        BY <3>1, <4>1
    <3>2. CASE i # n + 1
      <4>1. i \in 0..n /\ g[i] = m[i] /\ (i # 0 => g[i - 1] = m[i - 1])
        BY <3>2
      <4>2. m[i] = IF i = 0 THEN t ELSE NormalizeCurrentHandle(m[i - 1], order[i])
        BY <2>1, <4>1
      <4> QED
        BY <4>1, <4>2
    <3> QED
      BY <3>1, <3>2
  <2>3. g = [i \in 0..(n + 1) |->
               IF i = 0 THEN t ELSE NormalizeCurrentHandle(g[i - 1], order[i])]
    BY <2>2
  <2>4. \E f : f = [i \in 0..(n + 1) |->
                      IF i = 0 THEN t ELSE NormalizeCurrentHandle(f[i - 1], order[i])]
    <3> HIDE DEF g
    <3> QED
      BY <2>3
  <2> QED
    BY <2>4
<1>3. Nat \subseteq S
  <2> HIDE DEF S
  <2> QED
    BY <1>1, <1>2, Induction
<1> QED
  BY <1>3

LEMMA TurnsTaken ==
  ASSUME NEW t, NEW order, Len(order) \in Nat
  PROVE  /\ NormalizeCurrentHandles(t, order)[0] = t
         /\ \A i \in 1..Len(order) :
              NormalizeCurrentHandles(t, order)[i] =
                NormalizeCurrentHandle(NormalizeCurrentHandles(t, order)[i - 1], order[i])
<1>1. NormalizeCurrentHandles(t, order) = [i \in 0..Len(order) |->
        IF i = 0 THEN t
        ELSE NormalizeCurrentHandle(NormalizeCurrentHandles(t, order)[i - 1], order[i])]
  BY TurnsDefined DEF NormalizeCurrentHandles
<1> DEFINE m == NormalizeCurrentHandles(t, order)
<1>2. ASSUME NEW i \in 0..Len(order)
      PROVE  m[i] = IF i = 0 THEN t ELSE NormalizeCurrentHandle(m[i - 1], order[i])
  BY <1>1
<1> HIDE DEF m
<1>3. 0 \in 0..Len(order) /\ \A i \in 1..Len(order) : i \in 0..Len(order) /\ i # 0
  OBVIOUS
<1>4. m[0] = t /\ \A i \in 1..Len(order) : m[i] = NormalizeCurrentHandle(m[i - 1], order[i])
  BY <1>2, <1>3
<1> QED
  BY <1>4 DEF m

LEMMA FiniteMax ==
  ASSUME NEW S, S \subseteq Nat, IsFiniteSet(S), S # {}
  PROVE  \E x \in S : \A y \in S : y <= x
<1>1. PICK n \in Nat : ExistsBijection(1..n, S)
  BY FS_NatBijection
<1>2. PICK f : f \in [1..n -> S] /\ \A y \in S : \E i \in 1..n : f[i] = y
  BY <1>1 DEF ExistsBijection, Bijection, Surjection
<1> DEFINE I == {k \in Nat : k \in 1..n => \E i \in 1..k : \A j \in 1..k : f[j] <= f[i]}
<1>3. 0 \in I
  OBVIOUS
<1>4. ASSUME NEW k \in Nat, k \in I PROVE k + 1 \in I
  <2> SUFFICES ASSUME k + 1 \in 1..n PROVE \E i \in 1..(k + 1) : \A j \in 1..(k + 1) : f[j] <= f[i]
    OBVIOUS
  <2>1. \A j \in 1..n : f[j] \in Nat
    BY <1>2
  <2>2. CASE k = 0
    BY <2>1, <2>2
  <2>3. CASE k # 0
    <3>1. k \in 1..n
      BY <2>3
    <3>2. PICK i \in 1..k : \A j \in 1..k : f[j] <= f[i]
      BY <1>4, <3>1
    <3>3. \A j \in 1..(k + 1) : j \in 1..k \/ j = k + 1
      OBVIOUS
    <3>4. CASE f[k + 1] <= f[i]
      BY <3>2, <3>3, <3>4
    <3>5. CASE ~(f[k + 1] <= f[i])
      <4>1. i \in 1..n /\ k + 1 \in 1..(k + 1) /\ \A j \in 1..k : j \in 1..n
        BY <3>1
      <4>2. \A j \in 1..(k + 1) : f[j] <= f[k + 1]
        BY <2>1, <3>2, <3>3, <3>5, <4>1
      <4> QED
        BY <4>1, <4>2
    <3> QED
      BY <3>4, <3>5
  <2> QED
    BY <2>2, <2>3
<1>5. Nat \subseteq I
  <2> HIDE DEF I
  <2> QED
    BY <1>3, <1>4, Induction
<1>6. n \in 1..n
  <2>1. PICK y \in S : TRUE
    OBVIOUS
  <2>2. \E i \in 1..n : f[i] = y
    BY <1>2, <2>1
  <2> QED
    BY <2>2
<1>7. PICK i \in 1..n : \A j \in 1..n : f[j] <= f[i]
  BY <1>5, <1>6
<1> QED
  BY <1>2, <1>7

(* One of the bindings of a handle was seen last, and only one.             *)
LEMMA OneLastSeen ==
  ASSUME NEW b, IsTable(b, Owners \X (Handles \X Peers), BindingRows), NEW h \in Handles
  PROVE  /\ \A p \in LastSeen(b, h) : p \in Peers /\ <<NewOwner, <<h, p>>>> \in DOMAIN b
         /\ \A p, q \in LastSeen(b, h) : p = q
         /\ \A p \in Peers : <<NewOwner, <<h, p>>>> \in DOMAIN b => LastSeen(b, h) # {}
<1> DEFINE known == {p \in Peers : <<NewOwner, <<h, p>>>> \in DOMAIN b}
           seen(p) == b[<<NewOwner, <<h, p>>>>].seen
<1>1. known \subseteq Nat /\ IsFiniteSet(known)
  BY ConstantsOK, FS_Subset
<1>2. \A p \in known : seen(p) \in 1..MaxTime /\ seen(p) \in Nat
  BY ConstantsOK DEF IsTable, BindingRows
<1>3. LastSeen(b, h) = {p \in known : \A q \in known : seen(q) < seen(p) \/ (seen(q) = seen(p) /\ q <= p)}
  BY DEF LastSeen
<1>4. \A p \in known : p \in Peers /\ <<NewOwner, <<h, p>>>> \in DOMAIN b
  OBVIOUS
<1>5. \A p \in Peers : <<NewOwner, <<h, p>>>> \in DOMAIN b => p \in known
  OBVIOUS
<1> HIDE DEF known, seen
<1>6. ASSUME NEW p \in LastSeen(b, h), NEW q \in LastSeen(b, h) PROVE p = q
  <2>1. p \in known /\ q \in known
    BY <1>3
  <2>2. /\ seen(q) < seen(p) \/ (seen(q) = seen(p) /\ q <= p)
        /\ seen(p) < seen(q) \/ (seen(p) = seen(q) /\ p <= q)
    BY <1>3, <2>1
  <2>3. p \in Nat /\ q \in Nat /\ seen(p) \in Nat /\ seen(q) \in Nat
    BY <1>1, <1>2, <2>1
  <2> QED
    BY <2>2, <2>3
<1>7. ASSUME known # {} PROVE LastSeen(b, h) # {}
  <2> DEFINE T == {seen(p) : p \in known}
  <2>1. T \subseteq Nat /\ T # {}
    BY <1>2, <1>7
  <2>2. IsFiniteSet(T)
    <3> DEFINE f == [p \in known |-> seen(p)]
    <3>1. f \in Surjection(known, T)
      BY DEF Surjection
    <3> HIDE DEF f, T
    <3> QED
      BY <1>1, <3>1, FS_Surjection
  <2>3. PICK s \in T : \A y \in T : y <= s
    <3> HIDE DEF T
    <3> QED
      BY <2>1, <2>2, FiniteMax
  <2> DEFINE last == {p \in known : seen(p) = s}
  <2>4. last \subseteq Nat /\ IsFiniteSet(last) /\ last # {}
    BY <1>1, <2>3, FS_Subset
  <2>5. PICK p \in last : \A q \in last : q <= p
    <3> HIDE DEF last
    <3> QED
      BY <2>4, FiniteMax
  <2>6. p \in known /\ seen(p) = s
    OBVIOUS
  <2>7. ASSUME NEW q \in known PROVE seen(q) < seen(p) \/ (seen(q) = seen(p) /\ q <= p)
    <3>1. seen(q) <= s /\ (seen(q) = s => q <= p)
      BY <2>3, <2>5
    <3> QED
      BY <1>2, <2>6, <3>1
  <2> QED
    BY <1>3, <2>6, <2>7
<1> QED
  BY <1>3, <1>4, <1>5, <1>6, <1>7

Rows(t) ==
  /\ IsTable(t.c, Owners \X Peers, ContactRows)
  /\ IsTable(t.b, Owners \X (Handles \X Peers), BindingRows)

(* The contact of the new owner with a handle is its only current one.      *)
Settled(t, h) ==
  \A x \in Peers :
    <<NewOwner, x>> \in DOMAIN t.c /\ t.c[<<NewOwner, x>>].handle = h =>
      \A p \in Peers :
        (<<NewOwner, <<h, p>>>> \in DOMAIN t.b /\ t.b[<<NewOwner, <<h, p>>>>].current) <=> p = x

Met(t, h) == \E p \in Peers : <<NewOwner, <<h, p>>>> \in DOMAIN t.b

(* The turn of a handle settles it and disturbs no other one.               *)
LEMMA Turn ==
  ASSUME NEW t, Rows(t), NEW h \in Handles, NEW u, u = NormalizeCurrentHandle(t, h)
  PROVE  /\ Rows(u) /\ DOMAIN u.c = DOMAIN t.c /\ DOMAIN u.b = DOMAIN t.b
         /\ \A g \in Handles : Settled(t, g) => Settled(u, g)
         /\ Met(t, h) => Settled(u, h)
<1>1. /\ \A p \in LastSeen(t.b, h) : p \in Peers /\ <<NewOwner, <<h, p>>>> \in DOMAIN t.b
      /\ \A p, q \in LastSeen(t.b, h) : p = q
      /\ \A p \in Peers : <<NewOwner, <<h, p>>>> \in DOMAIN t.b => LastSeen(t.b, h) # {}
  BY OneLastSeen DEF Rows
<1>2. CASE LastSeen(t.b, h) = {}
  <2>1. u = t
    BY <1>2 DEF NormalizeCurrentHandle
  <2> QED
    BY <1>1, <1>2, <2>1 DEF Met
<1>3. CASE LastSeen(t.b, h) # {}
  <2>1. PICK last \in Peers : last \in LastSeen(t.b, h) /\ \A p : p \in LastSeen(t.b, h) <=> p = last
    BY <1>1, <1>3
  <2>2. <<NewOwner, <<h, last>>>> \in DOMAIN t.b
    BY <1>1, <2>1
  <2>3. u = [b |-> [k \in DOMAIN t.b |->
                      IF k[1] = NewOwner /\ k[2][1] = h
                      THEN [t.b[k] EXCEPT !.current = k[2][2] = last] ELSE t.b[k]],
             c |-> [k \in DOMAIN t.c |->
                      IF k[1] # NewOwner THEN t.c[k]
                      ELSE IF k[2] = last THEN [t.c[k] EXCEPT !.handle = h]
                      ELSE IF t.c[k].handle = h THEN [t.c[k] EXCEPT !.handle = NoHandle]
                      ELSE t.c[k]]]
    BY <1>3, <2>1 DEF NormalizeCurrentHandle
  <2>4. PICK c, b : /\ c = [k \in DOMAIN t.c |->
                      IF k[1] # NewOwner THEN t.c[k]
                      ELSE IF k[2] = last THEN [t.c[k] EXCEPT !.handle = h]
                      ELSE IF t.c[k].handle = h THEN [t.c[k] EXCEPT !.handle = NoHandle]
                      ELSE t.c[k]]
                    /\ b = [k \in DOMAIN t.b |->
                      IF k[1] = NewOwner /\ k[2][1] = h
                      THEN [t.b[k] EXCEPT !.current = k[2][2] = last] ELSE t.b[k]]
    OBVIOUS
  <2>5. u.c = c /\ u.b = b
    BY <2>3, <2>4
  <2>6. DOMAIN c = DOMAIN t.c /\ DOMAIN b = DOMAIN t.b
    BY <2>4
  <2>7. /\ \A k \in DOMAIN t.c : t.c[k] \in ContactRows
        /\ \A k \in DOMAIN t.b : t.b[k] \in BindingRows
    BY DEF Rows, IsTable
  <2>8. \A x : <<NewOwner, x>> \in DOMAIN c =>
          c[<<NewOwner, x>>].handle =
            IF x = last THEN h
            ELSE IF t.c[<<NewOwner, x>>].handle = h THEN NoHandle
            ELSE t.c[<<NewOwner, x>>].handle
    BY <2>4, <2>7 DEF ContactRows
  <2>9. /\ \A p \in Peers : <<NewOwner, <<h, p>>>> \in DOMAIN b => b[<<NewOwner, <<h, p>>>>].current = (p = last)
        /\ \A g \in Handles, p \in Peers : g # h /\ <<NewOwner, <<g, p>>>> \in DOMAIN b =>
             b[<<NewOwner, <<g, p>>>>] = t.b[<<NewOwner, <<g, p>>>>]
    BY <2>4, <2>7 DEF BindingRows
  <2>10. c \in [DOMAIN c -> ContactRows]
    <3>1. ASSUME NEW k \in DOMAIN t.c PROVE c[k] \in ContactRows
      <4>1. t.c[k] \in ContactRows
        BY <2>7
      <4> QED
        BY <2>4, <4>1 DEF ContactRows
    <3> QED
      BY <2>4, <3>1
  <2>11. b \in [DOMAIN b -> BindingRows]
    <3>1. ASSUME NEW k \in DOMAIN t.b PROVE b[k] \in BindingRows
      <4>1. t.b[k] \in BindingRows /\ (k[2][2] = last) \in BOOLEAN
        BY <2>7
      <4> QED
        BY <2>4, <4>1 DEF BindingRows
    <3> QED
      BY <2>4, <3>1
  <2>12. Rows(u)
    BY <2>5, <2>6, <2>10, <2>11 DEF Rows, IsTable
  <2>13. Settled(u, h)
    <3>1. ASSUME NEW x \in Peers, <<NewOwner, x>> \in DOMAIN c, c[<<NewOwner, x>>].handle = h
          PROVE  x = last
      BY <2>8, <3>1, ConstantsOK
    <3>2. \A p \in Peers : (<<NewOwner, <<h, p>>>> \in DOMAIN b /\ b[<<NewOwner, <<h, p>>>>].current) <=> p = last
      BY <2>2, <2>6, <2>9
    <3> QED
      BY <2>5, <3>1, <3>2 DEF Settled
  <2>14. ASSUME NEW g \in Handles, g # h, Settled(t, g) PROVE Settled(u, g)
    <3>1. ASSUME NEW x \in Peers, <<NewOwner, x>> \in DOMAIN c, c[<<NewOwner, x>>].handle = g
          PROVE  <<NewOwner, x>> \in DOMAIN t.c /\ t.c[<<NewOwner, x>>].handle = g
      BY <2>6, <2>8, <2>14, <3>1, ConstantsOK
    <3>2. ASSUME NEW x \in Peers, <<NewOwner, x>> \in DOMAIN c, c[<<NewOwner, x>>].handle = g
          PROVE  \A p \in Peers :
                   (<<NewOwner, <<g, p>>>> \in DOMAIN b /\ b[<<NewOwner, <<g, p>>>>].current) <=> p = x
      <4>1. \A p \in Peers :
              (<<NewOwner, <<g, p>>>> \in DOMAIN t.b /\ t.b[<<NewOwner, <<g, p>>>>].current) <=> p = x
        BY <2>14, <3>1, <3>2 DEF Settled
      <4> QED
        BY <2>6, <2>9, <2>14, <4>1
    <3> QED
      BY <2>5, <3>2 DEF Settled
  <2> QED
    BY <2>5, <2>6, <2>12, <2>13, <2>14
<1> QED
  BY <1>2, <1>3

(* After the turns of an order, every handle of it is settled.              *)
LEMMA Turns ==
  ASSUME NEW H \in SUBSET Handles, NEW order \in Orders(H), NEW t, Rows(t),
         \A h \in H : Met(t, h), \A h \in Handles \ H : Settled(t, h),
         NEW u, u = NormalizeCurrentHandles(t, order)[Len(order)]
  PROVE  /\ Rows(u) /\ DOMAIN u.c = DOMAIN t.c /\ DOMAIN u.b = DOMAIN t.b
         /\ \A h \in Handles : Settled(u, h)
<1>1. /\ Cardinality(H) \in Nat
      /\ order \in [1..Cardinality(H) -> H]
      /\ \A h \in H : \E i \in DOMAIN order : order[i] = h
  BY ConstantsOK, FS_Subset, FS_CardinalityType DEF Orders
<1>2. PICK n \in Nat : n = Cardinality(H)
  BY <1>1
<1>3. Len(order) = n /\ \A i \in 1..n : order[i] \in H
  BY <1>1, <1>2, LenProperties
<1> DEFINE m == NormalizeCurrentHandles(t, order)
           P(i) == /\ Rows(m[i]) /\ DOMAIN m[i].c = DOMAIN t.c /\ DOMAIN m[i].b = DOMAIN t.b
                   /\ \A h \in Handles \ H : Settled(m[i], h)
                   /\ \A j \in 1..i : Settled(m[i], order[j])
           I == {i \in Nat : i <= n => P(i)}
<1>4. m[0] = t /\ \A i \in 1..n : m[i] = NormalizeCurrentHandle(m[i - 1], order[i])
  BY <1>3, TurnsTaken
<1> HIDE DEF m
<1>5. 0 \in I
  BY <1>4
<1>6. ASSUME NEW i \in Nat, i \in I PROVE i + 1 \in I
  <2> SUFFICES ASSUME i + 1 <= n PROVE P(i + 1)
    OBVIOUS
  <2>1. i + 1 \in 1..n /\ (i + 1) - 1 = i /\ P(i)
    BY <1>6
  <2>2. m[i + 1] = NormalizeCurrentHandle(m[i], order[i + 1]) /\ order[i + 1] \in H
    BY <1>3, <1>4, <2>1
  <2>3. PICK h \in H : h = order[i + 1]
    BY <2>2
  <2>4. h \in Handles /\ Rows(m[i])
    BY <2>1
  <2>5. /\ Rows(m[i + 1]) /\ DOMAIN m[i + 1].c = DOMAIN m[i].c /\ DOMAIN m[i + 1].b = DOMAIN m[i].b
        /\ \A g \in Handles : Settled(m[i], g) => Settled(m[i + 1], g)
        /\ Met(m[i], h) => Settled(m[i + 1], h)
    BY <2>2, <2>3, <2>4, Turn
  <2>6. Met(m[i], h)
    BY <2>1 DEF Met
  <2>7. ASSUME NEW j \in 1..(i + 1) PROVE Settled(m[i + 1], order[j])
    <3>1. CASE j = i + 1
      BY <2>3, <2>5, <2>6, <3>1
    <3>2. CASE j # i + 1
      <4>1. j \in 1..i /\ j \in 1..n
        BY <2>1, <3>2
      <4>2. order[j] \in Handles /\ Settled(m[i], order[j])
        BY <1>3, <2>1, <4>1
      <4> QED
        BY <2>5, <4>2
    <3> QED
      BY <3>1, <3>2
  <2> QED
    BY <2>1, <2>5, <2>7
<1>7. Nat \subseteq I
  <2> HIDE DEF I
  <2> QED
    BY <1>5, <1>6, Induction
<1>8. P(n)
  BY <1>7
<1>9. \A h \in H : \E j \in 1..n : h = order[j]
  BY <1>1, <1>2
<1>10. u = m[n]
  BY <1>3 DEF m
<1> QED
  BY <1>8, <1>9, <1>10

(***************************************************************************)
(* The invariant                                                           *)
(***************************************************************************)
ContactKeys == Owners \X Peers
BindingKeys == Owners \X (Handles \X Peers)

(* The contact c[k] is the current one of its handle, and the only one.     *)
NamesCurrent(c, b) ==
  \A k \in DOMAIN c :
    c[k].handle # NoHandle =>
      \A p \in Peers :
        (<<k[1], <<c[k].handle, p>>>> \in DOMAIN b /\ b[<<k[1], <<c[k].handle, p>>>>].current) <=> p = k[2]

(* A DID with a handle has been met under it, by one of the owners.         *)
NamesMet(c, b) ==
  \A k \in DOMAIN c :
    c[k].handle # NoHandle => \E o \in Owners : <<o, <<c[k].handle, k[2]>>>> \in DOMAIN b

(* Messages are from their senders, and until a row was moved by            *)
(* RebindOwnerDID what it says of the person names its owner.               *)
FromSenders == \A k \in DOMAIN messages : messages[k].peer = Sender[k[2]]

NameOwners ==
  stage \notin {"rebound", "cleared"} =>
    /\ \A k \in DOMAIN messages : messages[k].self = k[1] /\ messages[k].thread = {k[1], Sender[k[2]]}
    /\ \A k \in DOMAIN groups : groups[k].creator = k[1]

Inv ==
  /\ TypeOK
  /\ HandleNamesCurrent
  /\ NamesMet(contacts, bindings)
  /\ FromSenders
  /\ NameOwners

LEMMA NamesCurrently ==
  HandleNamesCurrent <=> (stage \notin {"rebound", "cleared"} => NamesCurrent(contacts, bindings))
BY DEF HandleNamesCurrent, NamesCurrent

(* The DIDs met under a handle, as HandleHistory has them.                  *)
MetIn(b) == {k[2] : k \in DOMAIN b}

(* UpsertContact moves the handle: no other contact has it, and no other    *)
(* binding of it is current.                                                *)
LEMMA Upserts ==
  ASSUME TypeOK, NamesMet(contacts, bindings), NEW o \in Owners, NEW p \in Peers, NEW h \in Handles,
         UpsertContact(o, p, h)
  PROVE  /\ IsTable(contacts', ContactKeys, ContactRows)
         /\ IsTable(bindings', BindingKeys, BindingRows)
         /\ NamesMet(contacts', bindings')
         /\ NamesCurrent(contacts, bindings) => NamesCurrent(contacts', bindings')
         /\ MetIn(bindings') = MetIn(bindings) \union {<<h, p>>}
<1>1. /\ IsTable(contacts, ContactKeys, ContactRows) /\ IsTable(bindings, BindingKeys, BindingRows)
      /\ clock \in 1..MaxTime /\ clock \in Nat
  BY DEF TypeOK, ContactKeys, BindingKeys
<1>2. <<o, p>> \in ContactKeys /\ <<o, <<h, p>>>> \in BindingKeys
  BY DEF ContactKeys, BindingKeys
<1>3. PICK loser \in ContactKeys :
        /\ \A k \in DOMAIN contacts : k[1] = o /\ contacts[k].handle = h => loser \in DOMAIN contacts /\ loser[1] = o /\ contacts[loser].handle = h
        /\ contacts' = Put([k \in DOMAIN contacts |->
                              IF k = loser THEN [handle |-> NoHandle, seen |-> clock]
                              ELSE contacts[k]],
                           <<o, p>>, [handle |-> h, seen |-> clock])
  BY <1>1, <1>2 DEF UpsertContact, KeysOf, IsTable
<1>4. [handle |-> NoHandle, seen |-> clock] \in ContactRows /\ [handle |-> h, seen |-> clock] \in ContactRows
      /\ [current |-> TRUE, seen |-> clock] \in BindingRows
  BY <1>1 DEF ContactRows, BindingRows
<1> DEFINE c1 == [k \in DOMAIN contacts |-> IF k = loser THEN [handle |-> NoHandle, seen |-> clock] ELSE contacts[k]]
           others == {k \in KeysOf(bindings, o) : k[2][1] = h /\ k[2][2] # p}
           b1 == [k \in DOMAIN bindings |->
                    IF k \in others
                    THEN [current |-> FALSE, seen |-> IF bindings[k].seen < clock THEN clock
                                                      ELSE bindings[k].seen]
                    ELSE bindings[k]]
<1>5. IsTable(c1, ContactKeys, ContactRows) /\ DOMAIN c1 = DOMAIN contacts
  BY <1>1, <1>4 DEF IsTable
<1>6. IsTable(b1, BindingKeys, BindingRows) /\ DOMAIN b1 = DOMAIN bindings
  <2>1. ASSUME NEW k \in DOMAIN bindings PROVE b1[k] \in BindingRows
    <3>1. bindings[k] \in BindingRows
      BY <1>1 DEF IsTable
    <3> QED
      BY <1>1, <3>1 DEF BindingRows
  <2> QED
    BY <1>1, <2>1 DEF IsTable
<1>7. /\ contacts' = Put(c1, <<o, p>>, [handle |-> h, seen |-> clock])
      /\ bindings' = Put(b1, <<o, <<h, p>>>>, [current |-> TRUE, seen |-> clock])
  BY <1>3 DEF UpsertContact, UpsertContactHandleBinding
<1>8. \A k \in DOMAIN bindings : k \in others <=> k[1] = o /\ k[2][1] = h /\ k[2][2] # p
  BY DEF KeysOf
<1>9. \A k \in DOMAIN bindings : b1[k].current <=> bindings[k].current /\ k \notin others
  <2> SUFFICES ASSUME NEW k \in DOMAIN bindings PROVE b1[k].current <=> bindings[k].current /\ k \notin others
    OBVIOUS
  <2>1. bindings[k].current \in BOOLEAN
    BY <1>1 DEF IsTable, BindingRows
  <2>2. CASE k \in others
    BY <2>2
  <2>3. CASE k \notin others
    <3>1. b1[k] = bindings[k]
      BY <2>3
    <3> HIDE DEF b1, others
    <3> QED
      BY <2>1, <2>3, <3>1
  <2> QED
    BY <2>2, <2>3
<1>10. \A k \in DOMAIN contacts : c1[k].handle = IF k = loser THEN NoHandle ELSE contacts[k].handle
  OBVIOUS
<1> HIDE DEF c1, b1, others
<1>11. /\ IsTable(contacts', ContactKeys, ContactRows) /\ IsTable(bindings', BindingKeys, BindingRows)
       /\ DOMAIN contacts' = DOMAIN contacts \union {<<o, p>>}
       /\ DOMAIN bindings' = DOMAIN bindings \union {<<o, <<h, p>>>>}
       /\ \A k \in DOMAIN contacts' : contacts'[k] = IF k = <<o, p>> THEN [handle |-> h, seen |-> clock] ELSE c1[k]
       /\ \A k \in DOMAIN bindings' :
            bindings'[k] = IF k = <<o, <<h, p>>>> THEN [current |-> TRUE, seen |-> clock] ELSE b1[k]
  <2>1. PICK row \in ContactRows : row = [handle |-> h, seen |-> clock]
    BY <1>4
  <2>2. contacts' = Put(c1, <<o, p>>, row)
    BY <1>7, <2>1
  <2>3. PICK bound \in BindingRows : bound = [current |-> TRUE, seen |-> clock]
    BY <1>4
  <2>4. bindings' = Put(b1, <<o, <<h, p>>>>, bound)
    BY <1>7, <2>3
  <2>5. /\ IsTable(Put(c1, <<o, p>>, row), ContactKeys, ContactRows)
        /\ DOMAIN Put(c1, <<o, p>>, row) = DOMAIN c1 \union {<<o, p>>}
        /\ \A j \in DOMAIN c1 \union {<<o, p>>} :
             Put(c1, <<o, p>>, row)[j] = IF j = <<o, p>> THEN row ELSE c1[j]
    BY <1>2, <1>5 DEF IsTable, Put
  <2>6. /\ IsTable(Put(b1, <<o, <<h, p>>>>, bound), BindingKeys, BindingRows)
        /\ DOMAIN Put(b1, <<o, <<h, p>>>>, bound) = DOMAIN b1 \union {<<o, <<h, p>>>>}
        /\ \A j \in DOMAIN b1 \union {<<o, <<h, p>>>>} :
             Put(b1, <<o, <<h, p>>>>, bound)[j] = IF j = <<o, <<h, p>>>> THEN bound ELSE b1[j]
    BY <1>2, <1>6 DEF IsTable, Put
  <2>7. /\ IsTable(contacts', ContactKeys, ContactRows)
        /\ DOMAIN contacts' = DOMAIN contacts \union {<<o, p>>}
        /\ \A k \in DOMAIN contacts' : contacts'[k] = IF k = <<o, p>> THEN row ELSE c1[k]
    BY <1>5, <2>2, <2>5
  <2>8. /\ IsTable(bindings', BindingKeys, BindingRows)
        /\ DOMAIN bindings' = DOMAIN bindings \union {<<o, <<h, p>>>>}
        /\ \A k \in DOMAIN bindings' : bindings'[k] = IF k = <<o, <<h, p>>>> THEN bound ELSE b1[k]
    BY <1>6, <2>4, <2>6
  <2> QED
    BY <2>1, <2>3, <2>7, <2>8
<1>12. /\ \A k \in DOMAIN contacts' : contacts'[k].handle =
            IF k = <<o, p>> THEN h ELSE IF k = loser THEN NoHandle ELSE contacts[k].handle
       /\ \A k \in DOMAIN bindings' : bindings'[k].current <=>
            (k = <<o, <<h, p>>>> \/ (k \in DOMAIN bindings /\ bindings[k].current /\ ~(k[1] = o /\ k[2][1] = h /\ k[2][2] # p)))
  BY <1>8, <1>9, <1>10, <1>11
<1>13. NamesMet(contacts', bindings')
  <2> SUFFICES ASSUME NEW k \in DOMAIN contacts', contacts'[k].handle # NoHandle
               PROVE  \E q \in Owners : <<q, <<contacts'[k].handle, k[2]>>>> \in DOMAIN bindings'
    BY DEF NamesMet
  <2>1. CASE k = <<o, p>>
    BY <1>11, <1>12, <2>1
  <2>2. CASE k # <<o, p>>
    <3>1. k \in DOMAIN contacts /\ contacts'[k].handle = contacts[k].handle
      BY <1>11, <1>12, <2>2
    <3> QED
      BY <1>11, <3>1 DEF NamesMet
  <2> QED
    BY <2>1, <2>2
<1>14. ASSUME NamesCurrent(contacts, bindings) PROVE NamesCurrent(contacts', bindings')
  <2> SUFFICES ASSUME NEW k \in DOMAIN contacts', contacts'[k].handle # NoHandle, NEW q \in Peers
               PROVE  LET b == <<k[1], <<contacts'[k].handle, q>>>>
                      IN (b \in DOMAIN bindings' /\ bindings'[b].current) <=> q = k[2]
    BY DEF NamesCurrent
  <2>1. CASE k = <<o, p>>
    <3>1. contacts'[k].handle = h /\ k[1] = o /\ k[2] = p
      BY <1>12, <2>1
    <3>2. (<<o, <<h, q>>>> \in DOMAIN bindings' /\ bindings'[<<o, <<h, q>>>>].current) <=> q = p
      BY <1>11, <1>12
    <3> QED
      BY <3>1, <3>2
  <2>2. CASE k # <<o, p>>
    <3>1. k \in DOMAIN contacts /\ k # loser /\ contacts'[k].handle = contacts[k].handle
      BY <1>11, <1>12, <2>2
    <3>2. PICK g : g = contacts[k].handle
      OBVIOUS
    <3>3. \A r \in Peers : (<<k[1], <<g, r>>>> \in DOMAIN bindings /\ bindings[<<k[1], <<g, r>>>>].current) <=> r = k[2]
      BY <1>14, <3>1, <3>2 DEF NamesCurrent
    <3>4. ~(k[1] = o /\ g = h)
      <4> SUFFICES ASSUME k[1] = o, g = h PROVE FALSE
        OBVIOUS
      <4>1. loser \in DOMAIN contacts /\ loser[1] = o /\ contacts[loser].handle = h
        BY <1>3, <3>1, <3>2
      <4>2. \A r \in Peers : (<<o, <<h, r>>>> \in DOMAIN bindings /\ bindings[<<o, <<h, r>>>>].current) <=> r = loser[2]
        BY <1>14, <4>1, ConstantsOK DEF NamesCurrent
      <4>3. k[2] \in Peers /\ loser[2] \in Peers /\ k = <<k[1], k[2]>> /\ loser = <<loser[1], loser[2]>>
        BY <1>1, <3>1 DEF IsTable, ContactKeys
      <4>4. k[2] = loser[2]
        BY <3>3, <4>2, <4>3
      <4> QED
        BY <3>1, <4>1, <4>3, <4>4
    <3>5. PICK j : j = <<k[1], <<g, q>>>>
      OBVIOUS
    <3>6. j[1] = k[1] /\ j[2][1] = g
      BY <3>5
    <3>7. j # <<o, <<h, p>>>>
      BY <3>4, <3>5
    <3>8. (j \in DOMAIN bindings' /\ bindings'[j].current) <=> (j \in DOMAIN bindings /\ bindings[j].current)
      BY <1>11, <1>12, <3>4, <3>6, <3>7
    <3> QED
      BY <3>1, <3>2, <3>3, <3>5, <3>8
  <2> QED
    BY <2>1, <2>2
<1>15. MetIn(bindings') = MetIn(bindings) \union {<<h, p>>}
  <2>1. <<o, <<h, p>>>>[2] = <<h, p>> /\ \A k \in DOMAIN bindings : k \in DOMAIN bindings'
    BY <1>11
  <2>2. \A k \in DOMAIN bindings' : k \in DOMAIN bindings \/ k[2] = <<h, p>>
    BY <1>11
  <2>3. <<o, <<h, p>>>> \in DOMAIN bindings'
    BY <1>11
  <2> QED
    BY <2>1, <2>2, <2>3 DEF MetIn
<1> QED
  BY <1>11, <1>13, <1>14, <1>15

(* The backfill adds no DID to those met under a handle, and marks the one  *)
(* contact that has a handle.                                               *)
LEMMA Backfills ==
  ASSUME TypeOK, NamesMet(contacts, bindings), EnsureSchema
  PROVE  /\ IsTable(bindings', BindingKeys, BindingRows)
         /\ NamesMet(contacts', bindings')
         /\ NamesCurrent(contacts, bindings) => NamesCurrent(contacts', bindings')
         /\ MetIn(bindings') = MetIn(bindings)
<1>1. IsTable(contacts, ContactKeys, ContactRows) /\ IsTable(bindings, BindingKeys, BindingRows)
  BY DEF TypeOK, ContactKeys, BindingKeys
<1> DEFINE named == {<<k[1], <<contacts[k].handle, k[2]>>>> :
                       k \in {k \in DOMAIN contacts : contacts[k].handle # NoHandle}}
<1>2. /\ contacts' = contacts
      /\ bindings' = [k \in DOMAIN bindings \union named |->
                        IF k \in named THEN [current |-> k[2][2] \in Ranked(k[1], k[2][1]),
                                             seen |-> contacts[<<k[1], k[2][2]>>].seen]
                        ELSE bindings[k]]
  BY DEF EnsureSchema, BackfillContactHandleBindings
<1>3. \A k \in DOMAIN contacts : /\ k = <<k[1], k[2]>> /\ k[1] \in Owners /\ k[2] \in Peers
                                 /\ contacts[k] \in ContactRows
  BY <1>1 DEF IsTable, ContactKeys
<1>4. \A o, h, p : <<o, <<h, p>>>> \in named <=>
        <<o, p>> \in DOMAIN contacts /\ contacts[<<o, p>>].handle = h /\ h # NoHandle
  BY <1>3
<1>5. \A k \in named : /\ k = <<k[1], <<k[2][1], k[2][2]>>>> /\ k \in BindingKeys
                       /\ <<k[1], k[2][2]>> \in DOMAIN contacts
                       /\ contacts[<<k[1], k[2][2]>>].handle = k[2][1] /\ k[2][1] # NoHandle
  <2> SUFFICES ASSUME NEW j \in DOMAIN contacts, contacts[j].handle # NoHandle,
                      NEW k, k = <<j[1], <<contacts[j].handle, j[2]>>>>
               PROVE  /\ k = <<k[1], <<k[2][1], k[2][2]>>>> /\ k \in BindingKeys
                      /\ <<k[1], k[2][2]>> \in DOMAIN contacts
                      /\ contacts[<<k[1], k[2][2]>>].handle = k[2][1] /\ k[2][1] # NoHandle
    OBVIOUS
  <2>1. j = <<j[1], j[2]>> /\ j[1] \in Owners /\ j[2] \in Peers /\ contacts[j].handle \in Handles
    BY <1>3 DEF ContactRows
  <2>2. k[1] = j[1] /\ k[2][1] = contacts[j].handle /\ k[2][2] = j[2]
    OBVIOUS
  <2>3. <<k[1], k[2][2]>> = j
    BY <2>1, <2>2
  <2> QED
    BY <2>1, <2>2, <2>3 DEF BindingKeys
<1> HIDE DEF named
<1>6. IsTable(bindings', BindingKeys, BindingRows)
  <2>1. DOMAIN bindings' = DOMAIN bindings \union named
    BY <1>2
  <2>2. ASSUME NEW k \in DOMAIN bindings' PROVE bindings'[k] \in BindingRows
    <3>1. CASE k \in named
      <4>1. contacts[<<k[1], k[2][2]>>].seen \in 1..MaxTime
        BY <1>3, <1>5, <3>1 DEF ContactRows
      <4>2. (k[2][2] \in Ranked(k[1], k[2][1])) \in BOOLEAN
        OBVIOUS
      <4> QED
        BY <1>2, <3>1, <4>1, <4>2 DEF BindingRows
    <3>2. CASE k \notin named
      BY <1>1, <1>2, <3>2 DEF IsTable
    <3> QED
      BY <3>1, <3>2
  <2> QED
    BY <1>1, <1>2, <1>5, <2>1, <2>2 DEF IsTable
<1>7. NamesMet(contacts', bindings')
  BY <1>2 DEF NamesMet
<1>8. ASSUME NamesCurrent(contacts, bindings) PROVE NamesCurrent(contacts', bindings')
  <2>a. contacts' = contacts
    BY <1>2
  <2> SUFFICES ASSUME NEW k \in DOMAIN contacts, contacts[k].handle # NoHandle, NEW p \in Peers
               PROVE  LET b == <<k[1], <<contacts[k].handle, p>>>>
                      IN (b \in DOMAIN bindings' /\ bindings'[b].current) <=> p = k[2]
    BY <2>a DEF NamesCurrent
  <2>0. PICK h, b : h = contacts[k].handle /\ b = <<k[1], <<h, p>>>>
    OBVIOUS
  <2>1. \A q \in Peers : (<<k[1], <<h, q>>>> \in DOMAIN bindings /\ bindings[<<k[1], <<h, q>>>>].current) <=> q = k[2]
    BY <1>8, <2>0 DEF NamesCurrent
  <2>2. ASSUME NEW q \in Peers, <<k[1], q>> \in DOMAIN contacts, contacts[<<k[1], q>>].handle = h
        PROVE  q = k[2]
    <3>1. (<<k[1], <<h, q>>>> \in DOMAIN bindings /\ bindings[<<k[1], <<h, q>>>>].current) <=> q = q
      BY <1>8, <2>0, <2>2 DEF NamesCurrent
    <3> QED
      BY <2>1, <3>1
  <2>3. k = <<k[1], k[2]>> /\ k[2] \in Peers /\ contacts[k].seen \in Nat
    BY <1>3, ConstantsOK DEF ContactRows
  <2>4. b[1] = k[1] /\ b[2][1] = h /\ b[2][2] = p
    BY <2>0
  <2>5. b \in named <=> p = k[2]
    <3>1. b \in named <=> <<k[1], p>> \in DOMAIN contacts /\ contacts[<<k[1], p>>].handle = h
      BY <1>4, <2>0
    <3> QED
      BY <2>0, <2>2, <2>3, <3>1
  <2>6. CASE p = k[2]
    <3>1. p \in Nat /\ contacts[<<k[1], p>>].seen \in Nat
      BY <2>3, <2>6, ConstantsOK
    <3>2. \A q \in Peers : <<k[1], q>> \in DOMAIN contacts /\ contacts[<<k[1], q>>].handle = h => q = p
      BY <2>2, <2>6
    <3>3. <<k[1], p>> \in DOMAIN contacts /\ contacts[<<k[1], p>>].handle = h
      BY <2>0, <2>3, <2>6
    <3>4. p \in Ranked(k[1], h)
      BY <3>1, <3>2, <3>3 DEF Ranked
    <3>5. b \in named
      BY <2>5, <2>6
    <3>6. b \in DOMAIN bindings' /\ bindings'[b].current = (p \in Ranked(k[1], h))
      BY <1>2, <2>4, <3>5
    <3> QED
      BY <2>0, <2>6, <3>4, <3>6
  <2>7. CASE p # k[2]
    BY <1>2, <2>0, <2>1, <2>5, <2>7
  <2> QED
    BY <2>6, <2>7
<1>9. MetIn(bindings') = MetIn(bindings)
  <2>1. \A k \in DOMAIN bindings : k \in DOMAIN bindings'
    BY <1>2
  <2>2. ASSUME NEW k \in named PROVE \E j \in DOMAIN bindings : j[2] = k[2]
    <3>1. PICK o \in Owners : <<o, <<k[2][1], k[2][2]>>>> \in DOMAIN bindings
      <4>1. PICK c \in DOMAIN contacts : c = <<k[1], k[2][2]>> /\ contacts[c].handle = k[2][1] /\ k[2][1] # NoHandle
        BY <1>5
      <4>2. c[2] = k[2][2]
        BY <4>1
      <4> QED
        BY <4>1, <4>2 DEF NamesMet
    <3>2. k[2] = <<k[2][1], k[2][2]>>
      <4>1. PICK h, q : h = k[2][1] /\ q = k[2][2]
        OBVIOUS
      <4>2. k = <<k[1], <<h, q>>>>
        BY <1>5, <4>1
      <4>3. k[2] = <<h, q>>
        BY <4>2
      <4> QED
        BY <4>1, <4>3
    <3>3. <<o, k[2]>> \in DOMAIN bindings /\ <<o, k[2]>>[2] = k[2]
      BY <3>1, <3>2
    <3> QED
      BY <3>3
  <2>3. \A k \in DOMAIN bindings' : k \in DOMAIN bindings \/ k \in named
    BY <1>2
  <2> QED
    BY <2>1, <2>2, <2>3 DEF MetIn
<1> QED
  BY <1>6, <1>7, <1>8, <1>9

StoredIn(m) == {k[2] : k \in DOMAIN m}
ReadIn(m) == {k[2] : k \in {k \in DOMAIN m : m[k].read}}
JoinedIn(g) == {k[2] : k \in DOMAIN g}

Moved == {"rebound", "cleared"}

(* A step that leaves contacts and bindings, and one that leaves messages   *)
(* and groups.                                                              *)
LEMMA NamesKept ==
  ASSUME Inv, contacts' = contacts, bindings' = bindings, stage' \in Moved \/ stage \notin Moved
  PROVE  HandleNamesCurrent' /\ NamesMet(contacts', bindings')
<1>1. NamesMet(contacts', bindings')
  BY DEF Inv
<1>2. stage' \notin Moved => NamesCurrent(contacts', bindings')
  BY NamesCurrently DEF Inv, Moved
<1>3. HandleNamesCurrent'
  BY <1>2 DEF HandleNamesCurrent, NamesCurrent, Moved
<1> QED
  BY <1>1, <1>3

LEMMA RowsKept ==
  ASSUME Inv, messages' = messages, groups' = groups, stage' \in Moved \/ stage \notin Moved
  PROVE  FromSenders' /\ NameOwners'
BY DEF Inv, FromSenders, NameOwners, Moved

LEMMA HistoryKept ==
  ASSUME MetIn(bindings') = MetIn(bindings), StoredIn(messages') = StoredIn(messages),
         ReadIn(messages') = ReadIn(messages), JoinedIn(groups') = JoinedIn(groups)
  PROVE  [History!Next]_(History!vars)
BY DEF MetIn, StoredIn, ReadIn, JoinedIn, History!vars

LEMMA HistoryMeets ==
  ASSUME NEW h \in Handles, NEW p \in Peers, MetIn(bindings') = MetIn(bindings) \union {<<h, p>>},
         messages' = messages, groups' = groups
  PROVE  [History!Next]_(History!vars)
BY DEF MetIn, History!Next, History!Meet, History!vars

LEMMA HistoryStores ==
  ASSUME NEW m \in Msgs, StoredIn(messages') = StoredIn(messages) \union {m},
         ReadIn(messages') = ReadIn(messages), bindings' = bindings, groups' = groups
  PROVE  [History!Next]_(History!vars)
BY DEF StoredIn, ReadIn, History!Next, History!Store, History!vars

LEMMA HistoryReads ==
  ASSUME NEW m \in Msgs, m \in StoredIn(messages), StoredIn(messages') = StoredIn(messages),
         ReadIn(messages') = ReadIn(messages) \union {m}, bindings' = bindings, groups' = groups
  PROVE  [History!Next]_(History!vars)
BY DEF StoredIn, ReadIn, History!Next, History!Read, History!vars

LEMMA HistoryJoins ==
  ASSUME NEW g \in Groups, JoinedIn(groups') = JoinedIn(groups) \union {g},
         bindings' = bindings, messages' = messages
  PROVE  [History!Next]_(History!vars)
BY DEF JoinedIn, History!Next, History!Join, History!vars

(* A step keeps the invariant, and is one of HandleHistory or a stutter.    *)
Kept == Inv' /\ [History!Next]_(History!vars)

LEMMA WritesAre ==
  ASSUME Inv, NEW o, Writer(o)
  PROVE  stage' = stage /\ clock' = clock /\ clock' \in 1..MaxTime /\ writes' \in 0..MaxWrites
BY ConstantsOK DEF Inv, TypeOK, Writer

LEMMA ContactSteps ==
  ASSUME Inv, NEW o \in Owners, NEW p \in Peers, SyncPeerHandle(o, p) \/ SyncIncomingContact(o, p)
  PROVE  Kept
<1>1. PICK h \in Handles : UpsertContact(o, p, h)
  <2>1. ASSUME NEW h \in ResolveContactHandleByDID(o, p) PROVE h \in Handles
    <3>1. \A k \in DOMAIN contacts : contacts[k].handle \in Handles \union {NoHandle}
      BY DEF Inv, TypeOK, IsTable, ContactRows
    <3> QED
      BY <2>1, <3>1 DEF ResolveContactHandleByDID
  <2> QED
    BY <2>1 DEF SyncPeerHandle, SyncIncomingContact
<1>2. Writer(o) /\ UNCHANGED <<messages, groups, members, events, e2ee>>
  BY DEF SyncPeerHandle, SyncIncomingContact
<1>3. stage' = stage /\ clock' = clock /\ clock' \in 1..MaxTime /\ writes' \in 0..MaxWrites
  BY <1>2, WritesAre
<1>4. TypeOK /\ NamesMet(contacts, bindings)
  BY DEF Inv
<1>5. /\ IsTable(contacts', ContactKeys, ContactRows)
      /\ IsTable(bindings', BindingKeys, BindingRows)
      /\ NamesMet(contacts', bindings')
      /\ NamesCurrent(contacts, bindings) => NamesCurrent(contacts', bindings')
      /\ MetIn(bindings') = MetIn(bindings) \union {<<h, p>>}
  BY <1>1, <1>4, Upserts
<1>6. TypeOK'
  BY <1>2, <1>3, <1>4, <1>5 DEF TypeOK, ContactKeys, BindingKeys
<1>7. stage' \notin Moved => NamesCurrent(contacts', bindings')
  BY <1>3, <1>5, NamesCurrently DEF Inv, Moved
<1>8. HandleNamesCurrent'
  BY <1>7 DEF HandleNamesCurrent, NamesCurrent, Moved
<1>9. FromSenders' /\ NameOwners'
  BY <1>2, <1>3 DEF Inv, FromSenders, NameOwners
<1>10. [History!Next]_(History!vars)
  BY <1>2, <1>5, HistoryMeets
<1> QED
  BY <1>5, <1>6, <1>8, <1>9, <1>10 DEF Inv, Kept

LEMMA BackfillStep ==
  ASSUME Inv, EnsureSchema
  PROVE  Kept
<1>1. UNCHANGED <<contacts, messages, groups, members, events, e2ee, stage, clock, writes>>
  BY DEF EnsureSchema
<1>2. TypeOK /\ NamesMet(contacts, bindings)
  BY DEF Inv
<1>3. /\ IsTable(bindings', BindingKeys, BindingRows)
      /\ NamesMet(contacts', bindings')
      /\ NamesCurrent(contacts, bindings) => NamesCurrent(contacts', bindings')
      /\ MetIn(bindings') = MetIn(bindings)
  BY <1>2, Backfills
<1>4. TypeOK'
  BY <1>1, <1>2, <1>3 DEF TypeOK, BindingKeys
<1>5. stage' \notin Moved => NamesCurrent(contacts', bindings')
  BY <1>1, <1>3, NamesCurrently DEF Inv, Moved
<1>6. HandleNamesCurrent'
  BY <1>5 DEF HandleNamesCurrent, NamesCurrent, Moved
<1>7. FromSenders' /\ NameOwners'
  BY <1>1 DEF Inv, FromSenders, NameOwners
<1>8. [History!Next]_(History!vars)
  BY <1>1, <1>3, HistoryKept
<1> QED
  BY <1>3, <1>4, <1>6, <1>7, <1>8 DEF Inv, Kept

LEMMA StoreStep ==
  ASSUME Inv, NEW o \in Owners, NEW m \in Msgs, StoreMessage(o, m)
  PROVE  Kept
<1>1. /\ stage' = stage /\ clock' \in 1..MaxTime /\ writes' \in 0..MaxWrites
      /\ UNCHANGED <<contacts, bindings, groups, members, events, e2ee>>
  BY WritesAre DEF StoreMessage
<1>2. PICK row : row = [peer |-> Sender[m], self |-> o, thread |-> {o, Sender[m]}, read |-> FALSE]
  OBVIOUS
<1>3. row \in MessageRows /\ row.peer = Sender[m] /\ row.self = o /\ row.thread = {o, Sender[m]} /\ ~row.read
  BY <1>2, ConstantsOK DEF MessageRows
<1>4. <<o, m>> \notin DOMAIN messages /\ messages' = Put(messages, <<o, m>>, row)
  BY <1>2 DEF StoreMessage
<1>5. /\ DOMAIN messages' = DOMAIN messages \union {<<o, m>>}
      /\ messages'[<<o, m>>] = row
      /\ \A k \in DOMAIN messages : messages'[k] = messages[k]
  BY <1>4 DEF Put
<1>6. IsTable(messages, Owners \X Msgs, MessageRows)
  BY DEF Inv, TypeOK
<1>7. IsTable(messages', Owners \X Msgs, MessageRows)
  BY <1>3, <1>4, <1>6 DEF IsTable, Put
<1>8. TypeOK'
  BY <1>1, <1>7 DEF Inv, TypeOK
<1>9. HandleNamesCurrent' /\ NamesMet(contacts', bindings')
  BY <1>1, NamesKept DEF Moved
<1>10. <<o, m>>[1] = o /\ <<o, m>>[2] = m
  OBVIOUS
<1>11. FromSenders'
  <2>1. \A k \in DOMAIN messages' : messages'[k].peer = Sender[k[2]]
    BY <1>3, <1>5, <1>10 DEF Inv, FromSenders
  <2> QED
    BY <2>1 DEF FromSenders
<1>12. NameOwners'
  <2>1. stage \notin {"rebound", "cleared"} =>
          \A k \in DOMAIN messages' : messages'[k].self = k[1] /\ messages'[k].thread = {k[1], Sender[k[2]]}
    BY <1>3, <1>5, <1>10 DEF Inv, NameOwners
  <2>2. stage \notin {"rebound", "cleared"} => \A k \in DOMAIN groups : groups[k].creator = k[1]
    BY DEF Inv, NameOwners
  <2> QED
    BY <1>1, <2>1, <2>2 DEF NameOwners
<1>13. StoredIn(messages') = StoredIn(messages) \union {m} /\ ReadIn(messages') = ReadIn(messages)
  <2>1. \A k \in DOMAIN messages' : k \in DOMAIN messages \/ (k = <<o, m>> /\ k[2] = m)
    BY <1>5, <1>10
  <2>2. ~messages'[<<o, m>>].read
    BY <1>3, <1>5
  <2>3. \A k \in DOMAIN messages : k \in DOMAIN messages' /\ messages'[k].read = messages[k].read
    BY <1>5
  <2>4. <<o, m>> \in DOMAIN messages'
    BY <1>5
  <2>5. StoredIn(messages') = StoredIn(messages) \union {m}
    BY <2>1, <2>3, <2>4, <1>10 DEF StoredIn
  <2>6. {k \in DOMAIN messages' : messages'[k].read} = {k \in DOMAIN messages : messages[k].read}
    BY <2>1, <2>2, <2>3
  <2> QED
    BY <2>5, <2>6 DEF ReadIn
<1>14. [History!Next]_(History!vars)
  BY <1>1, <1>13, HistoryStores
<1> QED
  BY <1>8, <1>9, <1>11, <1>12, <1>14 DEF Inv, Kept

LEMMA ReadStep ==
  ASSUME Inv, NEW o \in Owners, NEW m \in Msgs, MarkMessagesRead(o, m)
  PROVE  Kept
<1>1. UNCHANGED <<contacts, bindings, groups, members, events, e2ee, stage, clock, writes>>
  BY DEF MarkMessagesRead
<1>2. IsTable(messages, Owners \X Msgs, MessageRows)
  BY DEF Inv, TypeOK
<1>3. /\ <<o, m>> \in DOMAIN messages
      /\ messages' = [messages EXCEPT ![<<o, m>>] = [messages[<<o, m>>] EXCEPT !.read = TRUE]]
  BY DEF MarkMessagesRead
<1>4. \A k \in DOMAIN messages : messages[k] \in MessageRows
  BY <1>2 DEF IsTable
<1>5. /\ DOMAIN messages' = DOMAIN messages
      /\ \A k \in DOMAIN messages :
           messages'[k] = IF k = <<o, m>> THEN [messages[k] EXCEPT !.read = TRUE] ELSE messages[k]
  BY <1>3
<1>6. \A k \in DOMAIN messages :
        /\ messages'[k] \in MessageRows
        /\ messages'[k].peer = messages[k].peer /\ messages'[k].self = messages[k].self
        /\ messages'[k].thread = messages[k].thread
        /\ messages'[k].read = IF k = <<o, m>> THEN TRUE ELSE messages[k].read
  <2> SUFFICES ASSUME NEW k \in DOMAIN messages
               PROVE  /\ messages'[k] \in MessageRows
                      /\ messages'[k].peer = messages[k].peer /\ messages'[k].self = messages[k].self
                      /\ messages'[k].thread = messages[k].thread
                      /\ messages'[k].read = IF k = <<o, m>> THEN TRUE ELSE messages[k].read
    OBVIOUS
  <2>1. messages[k] \in MessageRows
    BY <1>4
  <2>2. CASE k = <<o, m>>
    BY <1>5, <2>1, <2>2 DEF MessageRows
  <2>3. CASE k # <<o, m>>
    BY <1>5, <2>1, <2>3
  <2> QED
    BY <2>2, <2>3
<1>7. messages' \in [DOMAIN messages' -> MessageRows]
  <2>1. messages' = [k \in DOMAIN messages |-> messages'[k]]
    BY <1>3
  <2> QED
    BY <1>5, <1>6, <2>1
<1>8. IsTable(messages', Owners \X Msgs, MessageRows)
  BY <1>2, <1>5, <1>7 DEF IsTable
<1>9. TypeOK'
  BY <1>1, <1>8 DEF Inv, TypeOK
<1>10. HandleNamesCurrent' /\ NamesMet(contacts', bindings')
  BY <1>1, NamesKept DEF Moved
<1>11. FromSenders' /\ NameOwners'
  <2>1. \A k \in DOMAIN messages' : messages'[k].peer = Sender[k[2]]
    BY <1>5, <1>6 DEF Inv, FromSenders
  <2>2. stage \notin {"rebound", "cleared"} =>
          /\ \A k \in DOMAIN messages' : messages'[k].self = k[1] /\ messages'[k].thread = {k[1], Sender[k[2]]}
          /\ \A k \in DOMAIN groups : groups[k].creator = k[1]
    BY <1>5, <1>6 DEF Inv, NameOwners
  <2> QED
    BY <1>1, <2>1, <2>2 DEF FromSenders, NameOwners
<1>12. /\ m \in StoredIn(messages) /\ StoredIn(messages') = StoredIn(messages)
       /\ ReadIn(messages') = ReadIn(messages) \union {m}
  <2>1. <<o, m>>[2] = m
    OBVIOUS
  <2>2. m \in StoredIn(messages) /\ StoredIn(messages') = StoredIn(messages)
    BY <1>3, <1>5, <2>1 DEF StoredIn
  <2>3. {k \in DOMAIN messages' : messages'[k].read} = {k \in DOMAIN messages : messages[k].read} \union {<<o, m>>}
    BY <1>3, <1>5, <1>6
  <2> QED
    BY <2>1, <2>2, <2>3 DEF ReadIn
<1>13. [History!Next]_(History!vars)
  BY <1>1, <1>12, HistoryReads
<1> QED
  BY <1>9, <1>10, <1>11, <1>13 DEF Inv, Kept

LEMMA GroupStep ==
  ASSUME Inv, NEW o \in Owners, NEW g \in Groups, UpsertGroup(o, g)
  PROVE  Kept
<1>1. /\ stage' = stage /\ clock' \in 1..MaxTime /\ writes' \in 0..MaxWrites
      /\ UNCHANGED <<contacts, bindings, messages, members, events, e2ee>>
  BY WritesAre DEF UpsertGroup
<1>2. PICK s \in 0..1 : groups' = Put(groups, <<o, g>>, [creator |-> o, synced |-> s])
  BY DEF UpsertGroup
<1>3. PICK row : row = [creator |-> o, synced |-> s]
  OBVIOUS
<1>4. row \in GroupRows /\ row.creator = o /\ groups' = Put(groups, <<o, g>>, row)
  BY <1>2, <1>3 DEF GroupRows
<1>5. /\ DOMAIN groups' = DOMAIN groups \union {<<o, g>>}
      /\ \A k \in DOMAIN groups' : groups'[k] = IF k = <<o, g>> THEN row ELSE groups[k]
  BY <1>4 DEF Put
<1>6. IsTable(groups, Owners \X Groups, GroupRows)
  BY DEF Inv, TypeOK
<1>7. IsTable(groups', Owners \X Groups, GroupRows)
  BY <1>4, <1>6 DEF IsTable, Put
<1>8. TypeOK'
  BY <1>1, <1>7 DEF Inv, TypeOK
<1>9. HandleNamesCurrent' /\ NamesMet(contacts', bindings')
  BY <1>1, NamesKept DEF Moved
<1>10. <<o, g>>[1] = o /\ <<o, g>>[2] = g
  OBVIOUS
<1>11. FromSenders' /\ NameOwners'
  <2>1. stage \notin {"rebound", "cleared"} => \A k \in DOMAIN groups' : groups'[k].creator = k[1]
    BY <1>4, <1>5, <1>10 DEF Inv, NameOwners
  <2> QED
    BY <1>1, <2>1 DEF Inv, FromSenders, NameOwners
<1>12. JoinedIn(groups') = JoinedIn(groups) \union {g}
  BY <1>5, <1>10 DEF JoinedIn
<1>13. [History!Next]_(History!vars)
  BY <1>1, <1>12, HistoryJoins
<1> QED
  BY <1>8, <1>9, <1>11, <1>13 DEF Inv, Kept

(* The steps that leave contacts, bindings, messages and groups alone.      *)
LEMMA OtherSteps ==
  ASSUME Inv,
         \/ \E o \in Owners, g \in Groups : ReplaceGroupMembers(o, g)
         \/ \E o \in Owners, e \in Events : AppendRelationshipEvent(o, e)
         \/ \E o \in Owners : StoreE2EE(o)
         \/ Tick \/ ReplaceDID \/ Recover \/ MergeFails \/ ClearOwnerE2EEData
         \/ UNCHANGED vars
  PROVE  Kept
<1> USE DEF Inv
<1>1. UNCHANGED <<contacts, bindings, messages, groups>>
  BY DEF ReplaceGroupMembers, AppendRelationshipEvent, StoreE2EE, Tick, ReplaceDID, Recover,
         SwitchIdentity, MergeFails, ClearOwnerE2EEData, tables, vars
<1>2. stage' \in Moved \/ stage \notin Moved
  BY DEF ReplaceGroupMembers, AppendRelationshipEvent, StoreE2EE, Writer, Tick, ReplaceDID, Recover,
         SwitchIdentity, MergeFails, ClearOwnerE2EEData, tables, vars, Moved
<1>3. TypeOK'
  <2> USE DEF TypeOK
  <2>1. ASSUME NEW o \in Owners, NEW g \in Groups, ReplaceGroupMembers(o, g) PROVE TypeOK'
    <3>1. IsTable(members', Owners \X Groups, Owners)
      <4>1. <<o, g>> \in Owners \X Groups /\ IsTable(members, Owners \X Groups, Owners)
        OBVIOUS
      <4>2. members' = Put(members, <<o, g>>, o)
        BY <2>1 DEF ReplaceGroupMembers
      <4> QED
        BY <4>1, <4>2 DEF IsTable, Put
    <3>2. UNCHANGED <<events, e2ee>>
      BY <2>1 DEF ReplaceGroupMembers
    <3>3. stage' = stage /\ clock' \in 1..MaxTime /\ writes' \in 0..MaxWrites
      BY <2>1, WritesAre DEF ReplaceGroupMembers
    <3> QED
      BY <1>1, <3>1, <3>2, <3>3
  <2>2. ASSUME NEW o \in Owners, NEW e \in Events, AppendRelationshipEvent(o, e) PROVE TypeOK'
    <3>1. IsTable(events', Events, Owners)
      BY <2>2 DEF AppendRelationshipEvent, IsTable, Put
    <3>2. UNCHANGED <<members, e2ee>>
      BY <2>2 DEF AppendRelationshipEvent
    <3>3. stage' = stage /\ clock' \in 1..MaxTime /\ writes' \in 0..MaxWrites
      BY <2>2, WritesAre DEF AppendRelationshipEvent
    <3> QED
      BY <1>1, <3>1, <3>2, <3>3
  <2>3. ASSUME NEW o \in Owners, StoreE2EE(o) PROVE TypeOK'
    <3>1. stage' = stage /\ clock' \in 1..MaxTime /\ writes' \in 0..MaxWrites
      BY <2>3, WritesAre DEF StoreE2EE
    <3> QED
      BY <1>1, <2>3, <3>1 DEF StoreE2EE
  <2>4. CASE Tick
    BY <2>4, ConstantsOK DEF Tick, tables
  <2>5. CASE ReplaceDID \/ Recover
    BY <2>5 DEF ReplaceDID, Recover, SwitchIdentity, tables
  <2>6. CASE MergeFails
    BY <2>6 DEF MergeFails, tables
  <2>7. CASE ClearOwnerE2EEData
    BY <2>7 DEF ClearOwnerE2EEData
  <2>8. CASE UNCHANGED vars
    BY <2>8 DEF vars, tables
  <2> QED
    BY <2>1, <2>2, <2>3, <2>4, <2>5, <2>6, <2>7, <2>8
<1>4. HandleNamesCurrent' /\ NamesMet(contacts', bindings')
  BY <1>1, <1>2, NamesKept
<1>5. FromSenders' /\ NameOwners'
  BY <1>1, <1>2, RowsKept
<1>6. [History!Next]_(History!vars)
  BY <1>1, HistoryKept
<1> QED
  BY <1>3, <1>4, <1>5, <1>6 DEF Kept

(* Up to their owners, t and u have the same rows.                          *)
SameRows(t, u) ==
  /\ \A k \in DOMAIN u : \E j \in DOMAIN t : j[2] = k[2] /\ u[k] = t[j]
  /\ \A j \in DOMAIN t : \E k \in DOMAIN u : k[2] = j[2] /\ u[k] = t[j]

(* Rows that RebindOwnerDID moves change their owner and nothing else.      *)
LEMMA Rebinds ==
  ASSUME NEW t, NEW X, NEW rows, IsTable(t, Owners \X X, rows), NEW blocked,
         NEW u, u = Rebound(t, blocked)
  PROVE  IsTable(u, Owners \X X, rows) /\ SameRows(t, u)
<1>1. Old \in Olds /\ Old # NewOwner /\ Old \in Owners /\ NewOwner \in Owners
  BY ConstantsOK, Owned DEF Old, Olds, Owners
<1>2. \A k \in DOMAIN t : k = <<k[1], k[2]>> /\ k[1] \in Owners /\ k[2] \in X /\ t[k] \in rows
  BY DEF IsTable
<1> DEFINE moved == {k \in KeysOf(t, Old) : Under(k, NewOwner) \notin DOMAIN t} \ blocked
           gone == {Under(k, NewOwner) : k \in moved}
<1>3. u = [k \in (DOMAIN t \ moved) \union gone |-> IF k \in DOMAIN t THEN t[k] ELSE t[Under(k, Old)]]
  BY DEF Rebound
<1>4. \A k \in moved : /\ k \in DOMAIN t /\ k[1] = Old /\ Under(k, NewOwner) \notin DOMAIN t
                       /\ Under(k, NewOwner) \in gone
  BY DEF KeysOf
<1>5. \A j \in gone : \E k \in moved : j = Under(k, NewOwner)
  OBVIOUS
<1> HIDE DEF moved, gone
<1>6. \A k \in moved : /\ Under(k, NewOwner)[2] = k[2] /\ u[Under(k, NewOwner)] = t[k]
                       /\ Under(k, NewOwner) \in Owners \X X
  <2> SUFFICES ASSUME NEW k \in moved
               PROVE  /\ Under(k, NewOwner)[2] = k[2] /\ u[Under(k, NewOwner)] = t[k]
                      /\ Under(k, NewOwner) \in Owners \X X
    OBVIOUS
  <2>1. k = <<Old, k[2]>> /\ k[2] \in X
    BY <1>2, <1>4
  <2>2. Under(k, NewOwner) = <<NewOwner, k[2]>>
    BY DEF Under
  <2>3. Under(Under(k, NewOwner), Old) = k
    BY <2>1, <2>2 DEF Under
  <2>4. u[Under(k, NewOwner)] = t[k]
    BY <1>3, <1>4, <2>3
  <2> QED
    BY <1>1, <2>1, <2>2, <2>4
<1>7. \A k \in DOMAIN t : k \notin moved => k \in DOMAIN u /\ u[k] = t[k]
  BY <1>3
<1>8. \A k \in DOMAIN u : (k \in DOMAIN t /\ u[k] = t[k]) \/ (\E j \in moved : k = Under(j, NewOwner))
  BY <1>3, <1>5
<1>9. \A k \in DOMAIN u : u[k] \in rows /\ k \in Owners \X X
  <2> SUFFICES ASSUME NEW k \in DOMAIN u PROVE u[k] \in rows /\ k \in Owners \X X
    OBVIOUS
  <2>1. CASE k \in DOMAIN t /\ u[k] = t[k]
    BY <1>2, <2>1
  <2>2. CASE \E j \in moved : k = Under(j, NewOwner)
    BY <1>2, <1>4, <1>6, <2>2
  <2> QED
    BY <1>8, <2>1, <2>2
<1>10. u \in [DOMAIN u -> rows]
  BY <1>3, <1>9
<1>11. \A j \in moved : Under(j, NewOwner) \in DOMAIN u
  BY <1>3, <1>4
<1> QED
  BY <1>4, <1>6, <1>7, <1>8, <1>9, <1>10, <1>11 DEF IsTable, SameRows

LEMMA RebindStep ==
  ASSUME Inv, RebindOwnerDID
  PROVE  Kept
<1>1. /\ stage' = "rebound" /\ e2ee' = e2ee /\ clock' = clock /\ writes' = writes
      /\ messages' = Rebound(messages, {}) /\ contacts' = Rebound(contacts, {})
      /\ bindings' = Rebound(bindings, CurrentTaken)
      /\ groups' = Rebound(groups, {}) /\ members' = Rebound(members, {})
      /\ events' = [e \in DOMAIN events |-> IF events[e] = Old THEN NewOwner ELSE events[e]]
  BY DEF RebindOwnerDID
<1>2. TypeOK
  BY DEF Inv
<1>3. IsTable(messages', Owners \X Msgs, MessageRows) /\ SameRows(messages, messages')
  BY <1>1, <1>2, Rebinds DEF TypeOK
<1>4. IsTable(contacts', Owners \X Peers, ContactRows) /\ SameRows(contacts, contacts')
  BY <1>1, <1>2, Rebinds DEF TypeOK
<1>5. IsTable(bindings', Owners \X (Handles \X Peers), BindingRows) /\ SameRows(bindings, bindings')
  BY <1>1, <1>2, Rebinds DEF TypeOK
<1>6. IsTable(groups', Owners \X Groups, GroupRows) /\ SameRows(groups, groups')
  BY <1>1, <1>2, Rebinds DEF TypeOK
<1>7. IsTable(members', Owners \X Groups, Owners)
  BY <1>1, <1>2, Rebinds DEF TypeOK
<1>8. IsTable(events', Events, Owners)
  BY <1>1, <1>2 DEF TypeOK, IsTable, Owners
<1>9. TypeOK'
  BY <1>1, <1>2, <1>3, <1>4, <1>5, <1>6, <1>7, <1>8 DEF TypeOK
<1>10. HandleNamesCurrent' /\ NameOwners'
  BY <1>1 DEF HandleNamesCurrent, NameOwners
<1>11. NamesMet(contacts', bindings')
  <2> SUFFICES ASSUME NEW k \in DOMAIN contacts', contacts'[k].handle # NoHandle
               PROVE  \E o \in Owners : <<o, <<contacts'[k].handle, k[2]>>>> \in DOMAIN bindings'
    BY DEF NamesMet
  <2>1. PICK j \in DOMAIN contacts : j[2] = k[2] /\ contacts'[k] = contacts[j]
    BY <1>4 DEF SameRows
  <2>2. PICK o \in Owners : <<o, <<contacts[j].handle, j[2]>>>> \in DOMAIN bindings
    BY <2>1 DEF Inv, NamesMet
  <2>3. PICK b \in DOMAIN bindings : b = <<o, <<contacts[j].handle, j[2]>>>>
    BY <2>2
  <2>4. PICK c \in DOMAIN bindings' : c[2] = b[2]
    BY <1>5 DEF SameRows
  <2>5. c = <<c[1], c[2]>> /\ c[1] \in Owners
    BY <1>5 DEF IsTable
  <2>6. c[2] = <<contacts'[k].handle, k[2]>>
    BY <2>1, <2>3, <2>4
  <2> QED
    BY <2>5, <2>6
<1>12. FromSenders'
  <2>1. \A k \in DOMAIN messages' : messages'[k].peer = Sender[k[2]]
    BY <1>3 DEF Inv, FromSenders, SameRows
  <2> QED
    BY <2>1 DEF FromSenders
<1>13. /\ MetIn(bindings') = MetIn(bindings) /\ StoredIn(messages') = StoredIn(messages)
       /\ ReadIn(messages') = ReadIn(messages) /\ JoinedIn(groups') = JoinedIn(groups)
  <2>1. MetIn(bindings') = MetIn(bindings)
    BY <1>5 DEF MetIn, SameRows
  <2>2. StoredIn(messages') = StoredIn(messages)
    BY <1>3 DEF StoredIn, SameRows
  <2>3. ReadIn(messages') = ReadIn(messages)
    <3>1. \A k \in DOMAIN messages' : messages'[k].read =>
            \E j \in DOMAIN messages : messages[j].read /\ j[2] = k[2]
      BY <1>3 DEF SameRows
    <3>2. \A j \in DOMAIN messages : messages[j].read =>
            \E k \in DOMAIN messages' : messages'[k].read /\ j[2] = k[2]
      BY <1>3 DEF SameRows
    <3> QED
      BY <3>1, <3>2 DEF ReadIn
  <2>4. JoinedIn(groups') = JoinedIn(groups)
    BY <1>6 DEF JoinedIn, SameRows
  <2> QED
    BY <2>1, <2>2, <2>3, <2>4
<1>14. [History!Next]_(History!vars)
  BY <1>13, HistoryKept
<1> QED
  BY <1>9, <1>10, <1>11, <1>12, <1>14 DEF Inv, Kept

(***************************************************************************)
(* The merged tables                                                       *)
(***************************************************************************)
LEMMA KeysMerged ==
  ASSUME NEW table, NEW t, OfOwners(t), NEW p \in Owners, NEW x, <<p, x>> \in DOMAIN t
  PROVE  <<NewOwner, x>> \in DOMAIN MergeRows(table, t)
<1> DEFINE m == MergeOwners(table, t)
           P(i) == p = NewOwner \/ (\E j \in 1..i : p = OldOwners[j]) => <<NewOwner, x>> \in DOMAIN m[i]
           I == {i \in Nat : i <= Len(OldOwners) => P(i)}
<1>0. Paired(t)
  BY DEF OfOwners
<1>1. m[0] = t /\ \A i \in 1..Len(OldOwners) : m[i] = MergeOwner(table, m[i - 1], OldOwners[i])
  BY MergeTurns
<1>2. \A i \in 0..Len(OldOwners) : Paired(m[i]) /\ OldsKept(t, m[i])
  BY <1>0, OwnersMerged
<1>3. Len(OldOwners) \in Nat /\ m[Len(OldOwners)] = MergeOwners(table, t)[Len(OldOwners)]
  BY Owned
<1> HIDE DEF m
<1>4. 0 \in I
  BY <1>1
<1>5. ASSUME NEW i \in Nat, i \in I PROVE i + 1 \in I
  <2> SUFFICES ASSUME i + 1 <= Len(OldOwners), p = NewOwner \/ \E j \in 1..(i + 1) : p = OldOwners[j]
               PROVE  <<NewOwner, x>> \in DOMAIN m[i + 1]
    OBVIOUS
  <2>1. i + 1 \in 1..Len(OldOwners) /\ (i + 1) - 1 = i /\ i \in 0..Len(OldOwners)
    BY <1>3
  <2>2. P(i) /\ Paired(m[i])
    BY <1>2, <1>5, <2>1
  <2>3. PICK o : o = OldOwners[i + 1]
    OBVIOUS
  <2>4. o \in Olds /\ o # NewOwner /\ m[i + 1] = MergeOwner(table, m[i], o)
    BY <1>1, <2>1, <2>3, Owned
  <2>5. Taken(table, m[i], o, m[i + 1])
    BY <2>2, <2>4, OwnerMerged
  <2>6. <<o, x>> \in DOMAIN m[i] <=> <<o, x>> \in DOMAIN t
    BY <1>2, <2>1, <2>4 DEF OldsKept
  <2>7. CASE p = o
    BY <2>5, <2>6, <2>7 DEF Taken
  <2>8. CASE p # o
    <3>1. p = NewOwner \/ \E j \in 1..i : p = OldOwners[j]
      BY <2>3, <2>8
    <3> QED
      BY <2>2, <2>5, <3>1 DEF Taken
  <2> QED
    BY <2>7, <2>8
<1>6. Nat \subseteq I
  <2> HIDE DEF I
  <2> QED
    BY <1>4, <1>5, Induction
<1>7. P(Len(OldOwners))
  BY <1>3, <1>6
<1>8. p = NewOwner \/ \E j \in 1..Len(OldOwners) : p = OldOwners[j]
  BY Owned DEF Owners
<1> QED
  BY <1>3, <1>7, <1>8, RowsMerged

(* The merged table has the keys of all owners, under the new one.          *)
Gathered(t, u) ==
  /\ \A k \in DOMAIN u : k = <<NewOwner, k[2]>> /\ \E j \in DOMAIN t : j[2] = k[2]
  /\ \A j \in DOMAIN t : <<NewOwner, j[2]>> \in DOMAIN u

LEMMA Gathers ==
  ASSUME NEW table, NEW t, NEW X, NEW rows, IsTable(t, Owners \X X, rows),
         NEW S, S \subseteq X \X rows, Closed(table, t, S), NEW u, u = MergeRows(table, t)
  PROVE  /\ IsTable(u, Owners \X X, rows)
         /\ Gathered(t, u)
         /\ \A k \in DOMAIN u : <<k[2], u[k]>> \in S
<1>1. OfOwners(t)
  BY DEF OfOwners, Paired, IsTable
<1>2. \A x : <<NewOwner, x>> \in DOMAIN u =>
        (\E p \in Owners : <<p, x>> \in DOMAIN t) /\ <<x, u[<<NewOwner, x>>]>> \in S
  BY <1>1, Merges
<1>3. \A k \in DOMAIN u : k = <<NewOwner, k[2]>>
  BY <1>1, RowsMerged
<1>4. \A k \in DOMAIN u : <<k[2], u[k]>> \in S
  BY <1>2, <1>3
<1>5. ASSUME NEW k \in DOMAIN u PROVE \E j \in DOMAIN t : j[2] = k[2]
  <2>1. PICK p \in Owners : <<p, k[2]>> \in DOMAIN t
    BY <1>2, <1>3
  <2>2. <<p, k[2]>>[2] = k[2]
    OBVIOUS
  <2> QED
    BY <2>1, <2>2
<1>6. ASSUME NEW j \in DOMAIN t PROVE <<NewOwner, j[2]>> \in DOMAIN u
  <2>1. j = <<j[1], j[2]>> /\ j[1] \in Owners
    BY DEF IsTable
  <2>2. PICK p, x : p \in Owners /\ p = j[1] /\ x = j[2]
    BY <2>1
  <2>3. <<p, x>> \in DOMAIN t
    BY <2>1, <2>2
  <2> QED
    BY <1>1, <2>2, <2>3, KeysMerged
<1>7. \A k \in DOMAIN u : k \in Owners \X X /\ u[k] \in rows
  <2> SUFFICES ASSUME NEW k \in DOMAIN u PROVE k \in Owners \X X /\ u[k] \in rows
    OBVIOUS
  <2>1. <<k[2], u[k]>> \in X \X rows
    BY <1>4
  <2>2. k = <<NewOwner, k[2]>> /\ NewOwner \in Owners
    BY <1>3 DEF Owners
  <2> QED
    BY <2>1, <2>2
<1>8. u = [k \in DOMAIN u |-> u[k]]
  BY DEF MergeRows, DeleteRowsForOwners
<1>9. u \in [DOMAIN u -> rows]
  BY <1>7, <1>8
<1> QED
  BY <1>3, <1>4, <1>5, <1>6, <1>7, <1>9 DEF IsTable, Gathered

LEMMA NormalizesAre ==
  ASSUME NEW r, NEW e
  PROVE  /\ Normalize("messages", r) = NormalizeMessageRow(r) /\ Join("messages", e, r) = JoinMessage(e, r)
         /\ Normalize("contacts", r) = r /\ Join("contacts", e, r) = JoinContact(e, r)
         /\ Normalize("bindings", r) = NormalizeBindingRow(r) /\ Join("bindings", e, r) = JoinBinding(e, r)
         /\ Normalize("groups", r) = NormalizeGroupRow(r) /\ Join("groups", e, r) = JoinGroup(e, r)
         /\ Normalize("members", r) = RemapSelf(r) /\ Join("members", e, r) = r
BY DEF Normalize, Join, NormalizeContactRow, NormalizeMemberRow, JoinMember

(* A handle that no old owner knows comes from the new owner's own row.     *)
LEMMA ContactsMerged ==
  ASSUME TypeOK, NEW u, u = MergeContacts
  PROVE  /\ IsTable(u, Owners \X Peers, ContactRows)
         /\ Gathered(contacts, u)
         /\ \A k \in DOMAIN u : u[k].handle \in Handles \ AffectedHandles =>
              k \in DOMAIN contacts /\ contacts[k].handle = u[k].handle
<1> DEFINE S == {s \in Peers \X ContactRows :
                   s[2].handle \in Handles \ AffectedHandles =>
                     <<NewOwner, s[1]>> \in DOMAIN contacts /\ contacts[<<NewOwner, s[1]>>].handle = s[2].handle}
<1>1. IsTable(contacts, Owners \X Peers, ContactRows)
  BY DEF TypeOK
<1>2. \A o, x : <<o, x>> \in DOMAIN contacts =>
        x \in Peers /\ contacts[<<o, x>>] \in ContactRows
  BY <1>1 DEF IsTable
<1>3. ASSUME NEW x \in Peers, NEW r \in ContactRows
      PROVE  <<x, r>> \in S <=>
               (r.handle \in Handles \ AffectedHandles =>
                  <<NewOwner, x>> \in DOMAIN contacts /\ contacts[<<NewOwner, x>>].handle = r.handle)
  OBVIOUS
<1>4. \A x, r : <<x, r>> \in S => x \in Peers /\ r \in ContactRows
  OBVIOUS
<1>5. S \subseteq Peers \X ContactRows
  OBVIOUS
<1> HIDE DEF S
<1>6. Closed("contacts", contacts, S)
  <2>1. ASSUME NEW x, <<NewOwner, x>> \in DOMAIN contacts PROVE <<x, contacts[<<NewOwner, x>>]>> \in S
    BY <1>2, <1>3, <2>1
  <2>2. ASSUME NEW o \in Olds, NEW x, <<o, x>> \in DOMAIN contacts,
               NEW r, r = Normalize("contacts", contacts[<<o, x>>])
        PROVE  <<x, r>> \in S /\ \A e : <<x, e>> \in S => <<x, Join("contacts", e, r)>> \in S
    <3>1. x \in Peers /\ r \in ContactRows /\ r = contacts[<<o, x>>]
      BY <1>2, <2>2, NormalizesAre
    <3>2. r.handle \notin Handles \ AffectedHandles
      BY <2>2, <3>1 DEF AffectedHandles
    <3>3. <<x, r>> \in S
      BY <1>3, <3>1, <3>2
    <3>4. ASSUME NEW e, <<x, e>> \in S PROVE <<x, Join("contacts", e, r)>> \in S
      <4>1. e \in ContactRows
        BY <1>4, <3>4
      <4>2. PICK j : j = JoinContact(e, r)
        OBVIOUS
      <4>3. /\ j \in ContactRows
            /\ j.handle = IF r.handle # NoHandle THEN r.handle ELSE e.handle
        BY <3>1, <4>1, <4>2 DEF JoinContact, Later, ContactRows
      <4>4. <<x, j>> \in S
        <5>1. CASE r.handle # NoHandle
          BY <1>3, <3>1, <3>2, <4>3, <5>1
        <5>2. CASE r.handle = NoHandle
          BY <1>3, <3>1, <3>4, <4>1, <4>3, <5>2
        <5> QED
          BY <5>1, <5>2
      <4> QED
        BY <4>2, <4>4, NormalizesAre
    <3> QED
      BY <3>3, <3>4
  <2> QED
    BY <2>1, <2>2 DEF Closed
<1>7. /\ IsTable(u, Owners \X Peers, ContactRows) /\ Gathered(contacts, u)
      /\ \A k \in DOMAIN u : <<k[2], u[k]>> \in S
  BY <1>1, <1>5, <1>6, Gathers DEF MergeContacts
<1>8. ASSUME NEW k \in DOMAIN u, u[k].handle \in Handles \ AffectedHandles
      PROVE  k \in DOMAIN contacts /\ contacts[k].handle = u[k].handle
  <2>1. k = <<NewOwner, k[2]>> /\ <<k[2], u[k]>> \in S
    BY <1>7 DEF Gathered
  <2>2. <<NewOwner, k[2]>> \in DOMAIN contacts /\ contacts[<<NewOwner, k[2]>>].handle = u[k].handle
    BY <1>3, <1>4, <1>8, <2>1
  <2> QED
    BY <2>1, <2>2
<1> QED
  BY <1>7, <1>8

(* The bindings of such a handle are the new owner's own, as they were.     *)
LEMMA BindingsMerged ==
  ASSUME TypeOK, NEW u, u = MergeBindings
  PROVE  /\ IsTable(u, Owners \X (Handles \X Peers), BindingRows)
         /\ Gathered(bindings, u)
         /\ \A h \in Handles \ AffectedHandles, p \in Peers :
              /\ <<NewOwner, <<h, p>>>> \in DOMAIN u <=> <<NewOwner, <<h, p>>>> \in DOMAIN bindings
              /\ <<NewOwner, <<h, p>>>> \in DOMAIN u =>
                   u[<<NewOwner, <<h, p>>>>] = bindings[<<NewOwner, <<h, p>>>>]
<1> DEFINE X == Handles \X Peers
           S == {s \in X \X BindingRows :
                   s[1][1] \notin AffectedHandles =>
                     <<NewOwner, s[1]>> \in DOMAIN bindings /\ bindings[<<NewOwner, s[1]>>] = s[2]}
<1>1. IsTable(bindings, Owners \X X, BindingRows)
  BY DEF TypeOK
<1>2. \A o, x : <<o, x>> \in DOMAIN bindings =>
        /\ x \in X /\ bindings[<<o, x>>] \in BindingRows
        /\ x = <<x[1], x[2]>> /\ x[1] \in Handles /\ x[2] \in Peers
  <2>1. \A o, x : <<o, x>> \in DOMAIN bindings => x \in X /\ bindings[<<o, x>>] \in BindingRows
    BY <1>1 DEF IsTable
  <2>2. \A x \in X : x = <<x[1], x[2]>> /\ x[1] \in Handles /\ x[2] \in Peers
    OBVIOUS
  <2> HIDE DEF X
  <2> QED
    BY <2>1, <2>2
<1>3. ASSUME NEW x \in X, NEW r \in BindingRows
      PROVE  <<x, r>> \in S <=>
               (x[1] \notin AffectedHandles =>
                  <<NewOwner, x>> \in DOMAIN bindings /\ bindings[<<NewOwner, x>>] = r)
  <2> HIDE DEF X
  <2> QED
    OBVIOUS
<1>4. \A x, r : <<x, r>> \in S => x \in X /\ r \in BindingRows
  <2> HIDE DEF X
  <2> QED
    OBVIOUS
<1>5. S \subseteq X \X BindingRows
  OBVIOUS
<1> HIDE DEF S, X
<1>6. Closed("bindings", bindings, S)
  <2>1. ASSUME NEW x, <<NewOwner, x>> \in DOMAIN bindings PROVE <<x, bindings[<<NewOwner, x>>]>> \in S
    BY <1>2, <1>3, <2>1
  <2>2. ASSUME NEW o \in Olds, NEW x, <<o, x>> \in DOMAIN bindings,
               NEW r, r = Normalize("bindings", bindings[<<o, x>>])
        PROVE  <<x, r>> \in S /\ \A e : <<x, e>> \in S => <<x, Join("bindings", e, r)>> \in S
    <3>1. x \in X /\ bindings[<<o, x>>] \in BindingRows /\ r = NormalizeBindingRow(bindings[<<o, x>>])
      BY <1>2, <2>2, NormalizesAre
    <3>2. r \in BindingRows
      BY <3>1 DEF NormalizeBindingRow, BindingRows
    <3>3. x[1] \in AffectedHandles
      <4>1. <<o, <<x[1], x[2]>>>> \in DOMAIN bindings /\ x[1] \in Handles /\ x[2] \in Peers
        BY <1>2, <2>2
      <4> QED
        BY <4>1 DEF AffectedHandles
    <3>4. <<x, r>> \in S
      BY <1>3, <3>1, <3>2, <3>3
    <3>5. ASSUME NEW e, <<x, e>> \in S PROVE <<x, Join("bindings", e, r)>> \in S
      <4>1. e \in BindingRows
        BY <1>4, <3>5
      <4>2. PICK j : j = JoinBinding(e, r)
        OBVIOUS
      <4>3. j \in BindingRows
        BY <3>2, <4>1, <4>2 DEF JoinBinding, Later, BindingRows
      <4>4. <<x, j>> \in S
        BY <1>3, <3>1, <3>3, <4>3
      <4> QED
        BY <4>2, <4>4, NormalizesAre
    <3> QED
      BY <3>4, <3>5
  <2> QED
    BY <2>1, <2>2 DEF Closed
<1>7. /\ IsTable(u, Owners \X X, BindingRows) /\ Gathered(bindings, u)
      /\ \A k \in DOMAIN u : <<k[2], u[k]>> \in S
  BY <1>1, <1>5, <1>6, Gathers DEF MergeBindings
<1>8. ASSUME NEW h \in Handles \ AffectedHandles, NEW p \in Peers, NEW k, k = <<NewOwner, <<h, p>>>>
      PROVE  /\ k \in DOMAIN u <=> k \in DOMAIN bindings
             /\ k \in DOMAIN u => u[k] = bindings[k]
  <2>1. k[2] = <<h, p>> /\ k[2][1] = h /\ k = <<NewOwner, k[2]>>
    BY <1>8
  <2>2. k \in DOMAIN bindings => k \in DOMAIN u
    <3>1. k \in DOMAIN bindings => <<NewOwner, k[2]>> \in DOMAIN u
      BY <1>7 DEF Gathered
    <3> QED
      BY <2>1, <3>1
  <2>3. k \in DOMAIN u => k \in DOMAIN bindings /\ bindings[k] = u[k]
    <3> SUFFICES ASSUME k \in DOMAIN u PROVE k \in DOMAIN bindings /\ bindings[k] = u[k]
      OBVIOUS
    <3>1. <<k[2], u[k]>> \in S
      BY <1>7
    <3>2. k[2] \in X /\ u[k] \in BindingRows
      BY <1>4, <3>1
    <3>3. <<NewOwner, k[2]>> \in DOMAIN bindings /\ bindings[<<NewOwner, k[2]>>] = u[k]
      BY <1>3, <2>1, <3>1, <3>2
    <3> QED
      BY <2>1, <3>3
  <2> QED
    BY <2>2, <2>3
<1>9. IsTable(u, Owners \X (Handles \X Peers), BindingRows)
  BY <1>7 DEF X
<1> QED
  BY <1>7, <1>8, <1>9

(* Merged messages are addressed to the new owner, in its threads.          *)
LEMMA MessagesMerged ==
  ASSUME TypeOK, FromSenders, NameOwners, stage \notin Moved, NEW u, u = MergeMessages
  PROVE  /\ IsTable(u, Owners \X Msgs, MessageRows)
         /\ Gathered(messages, u)
         /\ \A k \in DOMAIN u : u[k].peer = Sender[k[2]] /\ u[k].self = k[1] /\ u[k].thread = {k[1], Sender[k[2]]}
<1> DEFINE S == {s \in Msgs \X MessageRows :
                   s[2].peer = Sender[s[1]] /\ s[2].self = NewOwner /\ s[2].thread = {NewOwner, Sender[s[1]]}}
<1>1. IsTable(messages, Owners \X Msgs, MessageRows)
  BY DEF TypeOK
<1>2. \A o, x : <<o, x>> \in DOMAIN messages =>
        /\ o \in Owners /\ x \in Msgs /\ messages[<<o, x>>] \in MessageRows
        /\ messages[<<o, x>>].peer = Sender[x] /\ messages[<<o, x>>].self = o
        /\ messages[<<o, x>>].thread = {o, Sender[x]}
  <2> SUFFICES ASSUME NEW o, NEW x, NEW k, k = <<o, x>>, k \in DOMAIN messages
               PROVE  /\ o \in Owners /\ x \in Msgs /\ messages[k] \in MessageRows
                      /\ messages[k].peer = Sender[x] /\ messages[k].self = o
                      /\ messages[k].thread = {o, Sender[x]}
    OBVIOUS
  <2>1. k[1] = o /\ k[2] = x
    OBVIOUS
  <2>2. o \in Owners /\ x \in Msgs /\ messages[k] \in MessageRows
    BY <1>1 DEF IsTable
  <2> QED
    BY <2>1, <2>2 DEF FromSenders, NameOwners, Moved
<1>3. ASSUME NEW x \in Msgs, NEW r \in MessageRows
      PROVE  <<x, r>> \in S <=> r.peer = Sender[x] /\ r.self = NewOwner /\ r.thread = {NewOwner, Sender[x]}
  OBVIOUS
<1>4. \A x, r : <<x, r>> \in S => x \in Msgs /\ r \in MessageRows
  OBVIOUS
<1>5. S \subseteq Msgs \X MessageRows
  OBVIOUS
<1>6. \A s \in S : s[2].peer = Sender[s[1]] /\ s[2].self = NewOwner /\ s[2].thread = {NewOwner, Sender[s[1]]}
  OBVIOUS
<1> HIDE DEF S
<1>7. Closed("messages", messages, S)
  <2>1. ASSUME NEW x, <<NewOwner, x>> \in DOMAIN messages PROVE <<x, messages[<<NewOwner, x>>]>> \in S
    BY <1>2, <1>3, <2>1
  <2>2. ASSUME NEW o \in Olds, NEW x, <<o, x>> \in DOMAIN messages,
               NEW r, r = Normalize("messages", messages[<<o, x>>])
        PROVE  <<x, r>> \in S /\ \A e : <<x, e>> \in S => <<x, Join("messages", e, r)>> \in S
    <3>1. PICK q : q = messages[<<o, x>>]
      OBVIOUS
    <3>2. x \in Msgs /\ q \in MessageRows /\ q.peer = Sender[x] /\ q.self = o /\ r = NormalizeMessageRow(q)
      BY <1>2, <2>2, <3>1, NormalizesAre
    <3>3. Sender[x] \in Peers /\ NewOwner \in Owners
      BY <3>2, ConstantsOK DEF Owners
    <3>4. RemapSelf(q.self) = NewOwner
      BY <3>2 DEF RemapSelf
    <3>5. r = [q EXCEPT !.self = NewOwner, !.thread = {NewOwner, q.peer}]
      BY <3>2, <3>4 DEF NormalizeMessageRow
    <3>6. /\ r \in MessageRows /\ r.peer = Sender[x] /\ r.self = NewOwner
          /\ r.thread = {NewOwner, Sender[x]}
      BY <3>2, <3>3, <3>5 DEF MessageRows
    <3>7. <<x, r>> \in S
      BY <1>3, <3>2, <3>6
    <3>8. ASSUME NEW e, <<x, e>> \in S PROVE <<x, Join("messages", e, r)>> \in S
      <4>1. e.read \in BOOLEAN /\ r.read \in BOOLEAN
        BY <1>4, <3>6, <3>8 DEF MessageRows
      <4>2. PICK read \in BOOLEAN : read = (e.read \/ r.read)
        BY <4>1
      <4>3. Join("messages", e, r) = [r EXCEPT !.read = read]
        BY <4>2, NormalizesAre DEF JoinMessage
      <4>4. PICK j : j = [r EXCEPT !.read = read]
        OBVIOUS
      <4>5. j \in MessageRows /\ j.peer = r.peer /\ j.self = r.self /\ j.thread = r.thread
        BY <3>6, <4>4 DEF MessageRows
      <4> QED
        BY <1>3, <3>2, <3>6, <4>3, <4>4, <4>5
    <3> QED
      BY <3>7, <3>8
  <2> QED
    BY <2>1, <2>2 DEF Closed
<1>8. /\ IsTable(u, Owners \X Msgs, MessageRows) /\ Gathered(messages, u)
      /\ \A k \in DOMAIN u : <<k[2], u[k]>> \in S
  BY <1>1, <1>5, <1>7, Gathers DEF MergeMessages
<1>9. ASSUME NEW k \in DOMAIN u
      PROVE  u[k].peer = Sender[k[2]] /\ u[k].self = k[1] /\ u[k].thread = {k[1], Sender[k[2]]}
  <2>1. k = <<NewOwner, k[2]>> /\ <<k[2], u[k]>> \in S
    BY <1>8 DEF Gathered
  <2>2. k[1] = NewOwner
    BY <2>1
  <2>3. k[2] \in Msgs /\ u[k] \in MessageRows
    BY <1>4, <2>1
  <2> QED
    BY <1>3, <2>1, <2>2, <2>3
<1> QED
  BY <1>8, <1>9

LEMMA GroupsMerged ==
  ASSUME TypeOK, NameOwners, stage \notin Moved, NEW u, u = MergeGroups
  PROVE  /\ IsTable(u, Owners \X Groups, GroupRows)
         /\ Gathered(groups, u)
         /\ \A k \in DOMAIN u : u[k].creator = k[1]
<1> DEFINE S == {s \in Groups \X GroupRows : s[2].creator = NewOwner}
<1>1. IsTable(groups, Owners \X Groups, GroupRows)
  BY DEF TypeOK
<1>2. \A o, x : <<o, x>> \in DOMAIN groups =>
        x \in Groups /\ groups[<<o, x>>] \in GroupRows /\ groups[<<o, x>>].creator = o
  <2> SUFFICES ASSUME NEW o, NEW x, NEW k, k = <<o, x>>, k \in DOMAIN groups
               PROVE  x \in Groups /\ groups[k] \in GroupRows /\ groups[k].creator = o
    OBVIOUS
  <2>1. k[1] = o
    OBVIOUS
  <2>2. x \in Groups /\ groups[k] \in GroupRows
    BY <1>1 DEF IsTable
  <2> QED
    BY <2>1, <2>2 DEF NameOwners, Moved
<1>3. ASSUME NEW x \in Groups, NEW r \in GroupRows PROVE <<x, r>> \in S <=> r.creator = NewOwner
  OBVIOUS
<1>4. \A x, r : <<x, r>> \in S => x \in Groups /\ r \in GroupRows
  OBVIOUS
<1>5. S \subseteq Groups \X GroupRows
  OBVIOUS
<1> HIDE DEF S
<1>6. Closed("groups", groups, S)
  <2>1. ASSUME NEW x, <<NewOwner, x>> \in DOMAIN groups PROVE <<x, groups[<<NewOwner, x>>]>> \in S
    BY <1>2, <1>3, <2>1
  <2>2. ASSUME NEW o \in Olds, NEW x, <<o, x>> \in DOMAIN groups,
               NEW r, r = Normalize("groups", groups[<<o, x>>])
        PROVE  <<x, r>> \in S /\ \A e : <<x, e>> \in S => <<x, Join("groups", e, r)>> \in S
    <3>1. PICK q : q = groups[<<o, x>>]
      OBVIOUS
    <3>2. x \in Groups /\ q \in GroupRows /\ q.creator = o /\ r = NormalizeGroupRow(q)
      BY <1>2, <2>2, <3>1, NormalizesAre
    <3>3. r = [q EXCEPT !.creator = NewOwner]
      BY <3>2 DEF NormalizeGroupRow, RemapSelf
    <3>4. r \in GroupRows /\ r.creator = NewOwner
      BY <3>2, <3>3 DEF GroupRows, Owners
    <3>5. ASSUME NEW e, <<x, e>> \in S PROVE <<x, Join("groups", e, r)>> \in S
      <4>1. e \in GroupRows
        BY <1>4, <3>5
      <4>2. PICK s \in 0..1 : s = Later(e.synced, r.synced)
        BY <3>4, <4>1 DEF Later, GroupRows
      <4>3. PICK j : j = [r EXCEPT !.synced = s]
        OBVIOUS
      <4>4. j \in GroupRows /\ j.creator = NewOwner
        BY <3>4, <4>3 DEF GroupRows
      <4>5. Join("groups", e, r) = j
        BY <4>2, <4>3, NormalizesAre DEF JoinGroup
      <4> QED
        BY <1>3, <3>2, <4>4, <4>5
    <3> QED
      BY <1>3, <3>2, <3>4, <3>5
  <2> QED
    BY <2>1, <2>2 DEF Closed
<1>7. /\ IsTable(u, Owners \X Groups, GroupRows) /\ Gathered(groups, u)
      /\ \A k \in DOMAIN u : <<k[2], u[k]>> \in S
  BY <1>1, <1>5, <1>6, Gathers DEF MergeGroups
<1>8. ASSUME NEW k \in DOMAIN u PROVE u[k].creator = k[1]
  <2>1. k = <<NewOwner, k[2]>> /\ <<k[2], u[k]>> \in S
    BY <1>7 DEF Gathered
  <2>2. k[1] = NewOwner
    BY <2>1
  <2> QED
    BY <1>3, <1>4, <2>1, <2>2
<1> QED
  BY <1>7, <1>8

LEMMA MembersMerged ==
  ASSUME TypeOK, NEW u, u = MergeMembers
  PROVE  IsTable(u, Owners \X Groups, Owners) /\ Gathered(members, u)
<1> DEFINE S == Groups \X Owners
<1>1. IsTable(members, Owners \X Groups, Owners)
  BY DEF TypeOK
<1>2. \A o, x : <<o, x>> \in DOMAIN members => x \in Groups /\ members[<<o, x>>] \in Owners
  BY <1>1 DEF IsTable
<1>3. \A r \in Owners : RemapSelf(r) \in Owners
  BY DEF RemapSelf, Owners
<1>4. Closed("members", members, S)
  <2>1. \A x : <<NewOwner, x>> \in DOMAIN members => <<x, members[<<NewOwner, x>>]>> \in S
    BY <1>2
  <2>2. ASSUME NEW o \in Olds, NEW x, <<o, x>> \in DOMAIN members,
               NEW r, r = Normalize("members", members[<<o, x>>])
        PROVE  <<x, r>> \in S /\ \A e : <<x, e>> \in S => <<x, Join("members", e, r)>> \in S
    <3>1. x \in Groups /\ r \in Owners
      <4>1. PICK q : q = members[<<o, x>>]
        OBVIOUS
      <4>2. x \in Groups /\ q \in Owners
        BY <1>2, <2>2, <4>1
      <4>3. r = RemapSelf(q)
        BY <2>2, <4>1, NormalizesAre
      <4> QED
        BY <1>3, <4>2, <4>3
    <3>2. ASSUME NEW e PROVE Join("members", e, r) = r
      BY NormalizesAre
    <3>3. <<x, r>> \in S
      BY <3>1
    <3> HIDE DEF S
    <3> QED
      BY <3>2, <3>3
  <2> HIDE DEF S
  <2> QED
    BY <2>1, <2>2 DEF Closed
<1> QED
  BY <1>1, <1>4, Gathers DEF MergeMembers

(* A merged message is read if one of its rows was.                         *)
LEMMA ReadsMerged ==
  ASSUME TypeOK, NEW u, u = MergeMessages
  PROVE  ReadIn(u) = ReadIn(messages)
<1> DEFINE S == {s \in Msgs \X MessageRows :
                   s[2].read => \E j \in DOMAIN messages : j[2] = s[1] /\ messages[j].read}
           R == {r \in MessageRows : r.read}
<1>1. IsTable(messages, Owners \X Msgs, MessageRows)
  BY DEF TypeOK
<1>2. OfOwners(messages) /\ \A k \in DOMAIN messages : k[2] \in Msgs /\ messages[k] \in MessageRows
  BY <1>1 DEF IsTable, OfOwners, Paired
<1>3. ASSUME NEW o \in Olds, NEW x, <<o, x>> \in DOMAIN messages,
             NEW r, r = Normalize("messages", messages[<<o, x>>])
      PROVE  /\ x \in Msgs /\ r \in MessageRows /\ r.read = messages[<<o, x>>].read
             /\ \A e \in MessageRows : /\ Join("messages", e, r) \in MessageRows
                                       /\ Join("messages", e, r).read = (e.read \/ r.read)
             /\ r.read => \A e : Join("messages", e, r) \in R
  <2>1. PICK q : q = messages[<<o, x>>]
    OBVIOUS
  <2>2. <<o, x>>[2] = x
    OBVIOUS
  <2>3. x \in Msgs /\ q \in MessageRows /\ r = NormalizeMessageRow(q)
    BY <1>2, <1>3, <2>1, <2>2, NormalizesAre
  <2>4. q.peer \in Peers /\ RemapSelf(q.self) \in Owners /\ {NewOwner, q.peer} \in SUBSET (Owners \union Peers)
    BY <2>3 DEF MessageRows, RemapSelf, Owners
  <2>5. r \in MessageRows /\ r.read = q.read
    BY <2>3, <2>4 DEF NormalizeMessageRow, MessageRows
  <2>6. ASSUME NEW e \in MessageRows
        PROVE  /\ Join("messages", e, r) \in MessageRows
               /\ Join("messages", e, r).read = (e.read \/ r.read)
    <3>1. e.read \in BOOLEAN /\ r.read \in BOOLEAN
      BY <2>5 DEF MessageRows
    <3>2. PICK read \in BOOLEAN : read = (e.read \/ r.read)
      BY <3>1
    <3>3. PICK j : j = [r EXCEPT !.read = read]
      OBVIOUS
    <3>4. Join("messages", e, r) = j
      BY <3>2, <3>3, NormalizesAre DEF JoinMessage
    <3>5. j \in MessageRows /\ j.read = read
      BY <2>5, <3>3 DEF MessageRows
    <3> QED
      BY <3>2, <3>4, <3>5
  <2>7. ASSUME r.read, NEW e PROVE Join("messages", e, r) \in R
    <3>1. Join("messages", e, r) = [r EXCEPT !.read = e.read \/ r.read]
      BY NormalizesAre DEF JoinMessage
    <3>2. (e.read \/ r.read) = TRUE
      BY <2>7
    <3>3. Join("messages", e, r) = [r EXCEPT !.read = TRUE]
      BY <3>1, <3>2
    <3>4. [r EXCEPT !.read = TRUE] \in R
      BY <2>5 DEF MessageRows
    <3> QED
      BY <3>3, <3>4
  <2> QED
    BY <2>1, <2>3, <2>5, <2>6, <2>7
<1>4. ASSUME NEW x \in Msgs, NEW r \in MessageRows
      PROVE  <<x, r>> \in S <=> (r.read => \E j \in DOMAIN messages : j[2] = x /\ messages[j].read)
  OBVIOUS
<1>5. \A x, r : <<x, r>> \in S => x \in Msgs /\ r \in MessageRows
  OBVIOUS
<1>6. \A r : r \in R <=> r \in MessageRows /\ r.read
  OBVIOUS
<1>7. S \subseteq Msgs \X MessageRows
  OBVIOUS
<1> HIDE DEF S, R
<1>8. Closed("messages", messages, S)
  <2>1. ASSUME NEW x, <<NewOwner, x>> \in DOMAIN messages PROVE <<x, messages[<<NewOwner, x>>]>> \in S
    <3>1. PICK k \in DOMAIN messages : k = <<NewOwner, x>>
      BY <2>1
    <3>2. k[2] = x
      BY <3>1
    <3>3. <<x, messages[k]>> \in S
      BY <1>2, <1>4, <3>2
    <3> QED
      BY <3>1, <3>3
  <2>2. ASSUME NEW o \in Olds, NEW x, <<o, x>> \in DOMAIN messages,
               NEW r, r = Normalize("messages", messages[<<o, x>>])
        PROVE  <<x, r>> \in S /\ \A e : <<x, e>> \in S => <<x, Join("messages", e, r)>> \in S
    <3>1. PICK k \in DOMAIN messages : k = <<o, x>>
      BY <2>2
    <3>2. /\ x \in Msgs /\ r \in MessageRows /\ r.read = messages[k].read /\ k[2] = x
          /\ \A e \in MessageRows : /\ Join("messages", e, r) \in MessageRows
                                    /\ Join("messages", e, r).read = (e.read \/ r.read)
      BY <1>3, <2>2, <3>1
    <3>3. <<x, r>> \in S
      BY <1>4, <3>2
    <3>4. ASSUME NEW e, <<x, e>> \in S PROVE <<x, Join("messages", e, r)>> \in S
      <4>1. e \in MessageRows
        BY <1>5, <3>4
      <4>2. PICK j : j = Join("messages", e, r)
        OBVIOUS
      <4>3. j \in MessageRows /\ j.read = (e.read \/ r.read)
        BY <3>2, <4>1, <4>2
      <4>4. j.read => \E i \in DOMAIN messages : i[2] = x /\ messages[i].read
        BY <1>4, <3>2, <3>3, <3>4, <4>1, <4>3
      <4> QED
        BY <1>4, <3>2, <4>2, <4>3, <4>4
    <3> QED
      BY <3>3, <3>4
  <2> QED
    BY <2>1, <2>2 DEF Closed
<1>9. Gathered(messages, u) /\ \A k \in DOMAIN u : <<k[2], u[k]>> \in S
  BY <1>1, <1>7, <1>8, Gathers DEF MergeMessages
<1>10. ASSUME NEW k \in DOMAIN u, u[k].read PROVE \E j \in DOMAIN messages : j[2] = k[2] /\ messages[j].read
  <2>1. <<k[2], u[k]>> \in S
    BY <1>9
  <2> QED
    BY <1>4, <1>5, <1>10, <2>1
<1>11. ASSUME NEW j \in DOMAIN messages, messages[j].read PROVE \E k \in DOMAIN u : k[2] = j[2] /\ u[k].read
  <2>1. PICK p, x : p \in Owners /\ j = <<p, x>>
    BY <1>2 DEF OfOwners, Paired
  <2>2. <<p, x>> \in DOMAIN messages /\ messages[<<p, x>>].read /\ messages[<<p, x>>] \in MessageRows
    BY <1>2, <1>11, <2>1
  <2>3. p = NewOwner => messages[<<p, x>>] \in R
    BY <1>6, <2>2
  <2>4. p # NewOwner => p \in Olds
    BY <2>1 DEF Owners
  <2>5. p # NewOwner => LET r == Normalize("messages", messages[<<p, x>>]) IN
                        r \in R /\ \A e : Join("messages", e, r) \in R
    <3> SUFFICES ASSUME p \in Olds, NEW r, r = Normalize("messages", messages[<<p, x>>])
                 PROVE  r \in R /\ \A e : Join("messages", e, r) \in R
      BY <2>4
    <3>1. r \in MessageRows /\ r.read = messages[<<p, x>>].read /\ (r.read => \A e : Join("messages", e, r) \in R)
      BY <1>3, <2>2
    <3> QED
      BY <1>6, <2>2, <3>1
  <2>6. ASSUME NEW o \in Olds, <<o, x>> \in DOMAIN messages, NEW e \in R
        PROVE  Join("messages", e, Normalize("messages", messages[<<o, x>>])) \in R
    <3>1. PICK r : r = Normalize("messages", messages[<<o, x>>])
      OBVIOUS
    <3>2. e \in MessageRows /\ e.read
      BY <1>6
    <3>3. Join("messages", e, r) \in MessageRows /\ Join("messages", e, r).read = (e.read \/ r.read)
      BY <1>3, <2>6, <3>1, <3>2
    <3>4. Join("messages", e, r).read
      BY <3>2, <3>3
    <3> QED
      BY <1>6, <3>1, <3>3, <3>4
  <2>7. <<NewOwner, x>> \in DOMAIN u /\ u[<<NewOwner, x>>] \in R
    BY <1>2, <2>1, <2>2, <2>3, <2>5, <2>6, Keeps DEF MergeMessages
  <2>8. <<NewOwner, x>>[2] = j[2] /\ u[<<NewOwner, x>>].read
    BY <1>6, <2>1, <2>7
  <2> QED
    BY <2>7, <2>8
<1> QED
  BY <1>10, <1>11 DEF ReadIn

(* The handles of the old owners are met, and the others settled, before    *)
(* the turns.                                                               *)
LEMMA Affected ==
  ASSUME TypeOK, NamesCurrent(contacts, bindings), NEW t, t = [c |-> MergeContacts, b |-> MergeBindings]
  PROVE  /\ Rows(t)
         /\ \A h \in AffectedHandles : Met(t, h)
         /\ \A h \in Handles \ AffectedHandles : Settled(t, h)
<1>1. /\ t.c = MergeContacts /\ t.b = MergeBindings
      /\ IsTable(contacts, Owners \X Peers, ContactRows)
      /\ IsTable(bindings, Owners \X (Handles \X Peers), BindingRows)
  BY DEF TypeOK
<1>2. /\ IsTable(t.c, Owners \X Peers, ContactRows) /\ Gathered(contacts, t.c)
      /\ \A k \in DOMAIN t.c : t.c[k].handle \in Handles \ AffectedHandles =>
           k \in DOMAIN contacts /\ contacts[k].handle = t.c[k].handle
  BY <1>1, ContactsMerged
<1>3. /\ IsTable(t.b, Owners \X (Handles \X Peers), BindingRows) /\ Gathered(bindings, t.b)
      /\ \A h \in Handles \ AffectedHandles, p \in Peers :
           /\ <<NewOwner, <<h, p>>>> \in DOMAIN t.b <=> <<NewOwner, <<h, p>>>> \in DOMAIN bindings
           /\ <<NewOwner, <<h, p>>>> \in DOMAIN t.b =>
                t.b[<<NewOwner, <<h, p>>>>] = bindings[<<NewOwner, <<h, p>>>>]
  BY <1>1, BindingsMerged
<1>4. Rows(t)
  BY <1>2, <1>3 DEF Rows
<1>5. ASSUME NEW h \in AffectedHandles PROVE Met(t, h)
  <2>1. PICK o \in Olds, p \in Peers : <<o, <<h, p>>>> \in DOMAIN bindings
    <3>1. PICK o \in Olds, p \in Peers :
            \/ <<o, <<h, p>>>> \in DOMAIN bindings
            \/ <<o, p>> \in DOMAIN contacts /\ contacts[<<o, p>>].handle = h
      BY DEF AffectedHandles
    <3>2. ASSUME <<o, p>> \in DOMAIN contacts, contacts[<<o, p>>].handle = h
          PROVE  <<o, <<h, p>>>> \in DOMAIN bindings
      <4>1. PICK k \in DOMAIN contacts : k = <<o, p>>
        BY <3>2
      <4>2. k[1] = o /\ k[2] = p /\ contacts[k].handle = h /\ h # NoHandle
        BY <3>2, <4>1, ConstantsOK DEF AffectedHandles
      <4>3. (<<k[1], <<h, p>>>> \in DOMAIN bindings /\ bindings[<<k[1], <<h, p>>>>].current) <=> p = k[2]
        BY <4>2 DEF NamesCurrent
      <4> QED
        BY <4>2, <4>3
    <3> QED
      BY <3>1, <3>2
  <2>2. PICK j \in DOMAIN bindings : j = <<o, <<h, p>>>>
    BY <2>1
  <2>3. j[2] = <<h, p>> /\ <<NewOwner, j[2]>> \in DOMAIN t.b
    BY <1>3, <2>2 DEF Gathered
  <2>4. <<NewOwner, <<h, p>>>> \in DOMAIN t.b
    BY <2>3
  <2> QED
    BY <2>4 DEF Met
<1>6. ASSUME NEW h \in Handles \ AffectedHandles PROVE Settled(t, h)
  <2> SUFFICES ASSUME NEW x \in Peers, <<NewOwner, x>> \in DOMAIN t.c, t.c[<<NewOwner, x>>].handle = h,
                      NEW p \in Peers
               PROVE  (<<NewOwner, <<h, p>>>> \in DOMAIN t.b /\ t.b[<<NewOwner, <<h, p>>>>].current) <=> p = x
    BY DEF Settled
  <2>1. PICK k \in DOMAIN t.c : k = <<NewOwner, x>>
    OBVIOUS
  <2>2. k \in DOMAIN contacts /\ contacts[k].handle = h
    BY <1>2, <2>1
  <2>3. k[1] = NewOwner /\ k[2] = x /\ h # NoHandle
    BY <2>1, ConstantsOK
  <2>4. (<<NewOwner, <<h, p>>>> \in DOMAIN bindings /\ bindings[<<NewOwner, <<h, p>>>>].current) <=> p = x
    BY <2>2, <2>3 DEF NamesCurrent
  <2> QED
    BY <1>3, <2>4
<1> QED
  BY <1>4, <1>5, <1>6

(* What a committed merge leaves.                                           *)
LEMMA Commits ==
  ASSUME Inv, MergeCommits
  PROVE  /\ IsTable(contacts', Owners \X Peers, ContactRows) /\ Gathered(contacts, contacts')
         /\ IsTable(bindings', Owners \X (Handles \X Peers), BindingRows) /\ Gathered(bindings, bindings')
         /\ NamesCurrent(contacts', bindings') /\ NamesMet(contacts', bindings')
         /\ messages' = MergeMessages /\ groups' = MergeGroups /\ members' = MergeMembers
         /\ stage = "recovered" /\ stage' = "merged"
<1>1. TypeOK /\ stage = "recovered" /\ stage' = "merged"
  BY DEF Inv, MergeCommits
<1>2. NamesCurrent(contacts, bindings)
  BY <1>1, NamesCurrently DEF Inv
<1>3. PICK t : t = [c |-> MergeContacts, b |-> MergeBindings]
  OBVIOUS
<1>4. /\ Rows(t)
      /\ \A h \in AffectedHandles : Met(t, h)
      /\ \A h \in Handles \ AffectedHandles : Settled(t, h)
  BY <1>1, <1>2, <1>3, Affected
<1>5. PICK order, u :
        /\ order \in Orders(AffectedHandles)
        /\ u = NormalizeCurrentHandles(t, order)[Len(order)]
        /\ contacts' = u.c /\ bindings' = u.b
  BY <1>3 DEF MergeCommits
<1>6. AffectedHandles \in SUBSET Handles
  BY DEF AffectedHandles
<1>7. /\ Rows(u) /\ DOMAIN u.c = DOMAIN t.c /\ DOMAIN u.b = DOMAIN t.b
      /\ \A h \in Handles : Settled(u, h)
  BY <1>4, <1>5, <1>6, Turns
<1>8. Gathered(contacts, t.c) /\ Gathered(bindings, t.b)
  BY <1>1, <1>3, ContactsMerged, BindingsMerged
<1>9. Gathered(contacts, contacts') /\ Gathered(bindings, bindings')
  BY <1>5, <1>7, <1>8 DEF Gathered
<1>10. IsTable(contacts', Owners \X Peers, ContactRows) /\ IsTable(bindings', Owners \X (Handles \X Peers), BindingRows)
  BY <1>5, <1>7 DEF Rows
<1>11. ASSUME NEW k \in DOMAIN contacts', NEW h, h = contacts'[k].handle, h # NoHandle
       PROVE  /\ k[1] = NewOwner /\ k[2] \in Peers
              /\ \A p \in Peers :
                   (<<NewOwner, <<h, p>>>> \in DOMAIN bindings' /\ bindings'[<<NewOwner, <<h, p>>>>].current) <=> p = k[2]
  <2>1. k = <<NewOwner, k[2]>>
    BY <1>9 DEF Gathered
  <2>2. k[1] = NewOwner
    BY <2>1
  <2>3. k[2] \in Peers /\ h \in Handles
    BY <1>10, <1>11 DEF IsTable, ContactRows
  <2>4. <<NewOwner, k[2]>> \in DOMAIN u.c /\ u.c[<<NewOwner, k[2]>>].handle = h
    BY <1>5, <1>11, <2>1
  <2>5. \A p \in Peers :
          (<<NewOwner, <<h, p>>>> \in DOMAIN u.b /\ u.b[<<NewOwner, <<h, p>>>>].current) <=> p = k[2]
    BY <1>7, <2>3, <2>4 DEF Settled
  <2> QED
    BY <1>5, <2>2, <2>3, <2>5
<1>12. NamesCurrent(contacts', bindings')
  <2>1. ASSUME NEW k \in DOMAIN contacts', contacts'[k].handle # NoHandle, NEW p \in Peers
        PROVE  (<<k[1], <<contacts'[k].handle, p>>>> \in DOMAIN bindings' /\ bindings'[<<k[1], <<contacts'[k].handle, p>>>>].current) <=> p = k[2]
    BY <1>11, <2>1
  <2> QED
    BY <2>1 DEF NamesCurrent
<1>13. NamesMet(contacts', bindings')
  <2>1. ASSUME NEW k \in DOMAIN contacts', contacts'[k].handle # NoHandle
        PROVE  \E o \in Owners : <<o, <<contacts'[k].handle, k[2]>>>> \in DOMAIN bindings'
    <3>1. NewOwner \in Owners
      BY DEF Owners
    <3> QED
      BY <1>11, <2>1, <3>1
  <2> QED
    BY <2>1 DEF NamesMet
<1>14. messages' = MergeMessages /\ groups' = MergeGroups /\ members' = MergeMembers
  BY DEF MergeCommits
<1> QED
  BY <1>1, <1>9, <1>10, <1>12, <1>13, <1>14

LEMMA MergeStep ==
  ASSUME Inv, MergeCommits
  PROVE  Kept
<1>1. TypeOK /\ FromSenders /\ NameOwners
  BY DEF Inv
<1>2. /\ IsTable(contacts', Owners \X Peers, ContactRows)
      /\ IsTable(bindings', Owners \X (Handles \X Peers), BindingRows) /\ Gathered(bindings, bindings')
      /\ NamesCurrent(contacts', bindings') /\ NamesMet(contacts', bindings')
      /\ messages' = MergeMessages /\ groups' = MergeGroups /\ members' = MergeMembers
      /\ stage = "recovered" /\ stage' = "merged"
  BY Commits
<1>3. stage \notin Moved
  BY <1>2 DEF Moved
<1>4. /\ IsTable(messages', Owners \X Msgs, MessageRows)
      /\ Gathered(messages, messages')
      /\ \A k \in DOMAIN messages' :
           messages'[k].peer = Sender[k[2]] /\ messages'[k].self = k[1] /\ messages'[k].thread = {k[1], Sender[k[2]]}
  BY <1>1, <1>2, <1>3, MessagesMerged
<1>5. /\ IsTable(groups', Owners \X Groups, GroupRows)
      /\ Gathered(groups, groups')
      /\ \A k \in DOMAIN groups' : groups'[k].creator = k[1]
  BY <1>1, <1>2, <1>3, GroupsMerged
<1>6. IsTable(members', Owners \X Groups, Owners)
  BY <1>1, <1>2, MembersMerged
<1>7. IsTable(events', Events, Owners) /\ e2ee' \subseteq Owners /\ clock' = clock /\ writes' = writes
  BY <1>1 DEF TypeOK, MergeCommits, MergeEvents, RemapSelf, IsTable, Owners
<1>8. TypeOK'
  BY <1>1, <1>2, <1>4, <1>5, <1>6, <1>7 DEF TypeOK
<1>9. HandleNamesCurrent'
  BY <1>2 DEF HandleNamesCurrent, NamesCurrent
<1>10. FromSenders' /\ NameOwners'
  BY <1>4, <1>5 DEF FromSenders, NameOwners
<1>11. /\ MetIn(bindings') = MetIn(bindings) /\ StoredIn(messages') = StoredIn(messages)
       /\ JoinedIn(groups') = JoinedIn(groups)
  <2>1. ASSUME NEW t, NEW u, Gathered(t, u) PROVE {k[2] : k \in DOMAIN u} = {k[2] : k \in DOMAIN t}
    <3>1. \A j \in DOMAIN t : \E k \in DOMAIN u : k[2] = j[2]
      <4> SUFFICES ASSUME NEW j \in DOMAIN t PROVE \E k \in DOMAIN u : k[2] = j[2]
        OBVIOUS
      <4>1. <<NewOwner, j[2]>> \in DOMAIN u /\ <<NewOwner, j[2]>>[2] = j[2]
        BY <2>1 DEF Gathered
      <4> QED
        BY <4>1
    <3> QED
      BY <2>1, <3>1 DEF Gathered
  <2> QED
    BY <1>2, <1>4, <1>5, <2>1 DEF MetIn, StoredIn, JoinedIn
<1>12. ReadIn(messages') = ReadIn(messages)
  BY <1>1, <1>2, ReadsMerged
<1>13. [History!Next]_(History!vars)
  BY <1>11, <1>12, HistoryKept
<1> QED
  BY <1>2, <1>8, <1>9, <1>10, <1>13 DEF Inv, Kept

(***************************************************************************)
(* The theorems                                                            *)
(***************************************************************************)
LEMMA Inductive ==
  ASSUME Inv, [Next]_vars
  PROVE  Kept
BY ContactSteps, StoreStep, ReadStep, GroupStep, BackfillStep, RebindStep, MergeStep, OtherSteps DEF Next

LEMMA Initially ==
  ASSUME Init
  PROVE  Inv /\ History!Init
<1>1. TypeOK
  BY ConstantsOK DEF Init, EmptyTable, TypeOK, IsTable
<1>2. HandleNamesCurrent /\ NamesMet(contacts, bindings) /\ FromSenders /\ NameOwners
  BY DEF Init, EmptyTable, HandleNamesCurrent, NamesMet, FromSenders, NameOwners
<1>3. History!Init
  BY DEF Init, EmptyTable, History!Init
<1> QED
  BY <1>1, <1>2, <1>3 DEF Inv

(* What every handler of the store keeps, and the argument of all that      *)
(* follows.                                                                 *)
THEOREM Always == Spec => []Inv
<1>1. Init => Inv
  BY Initially
<1>2. Inv /\ [Next]_vars => Inv'
  BY Inductive DEF Kept
<1> QED
  BY <1>1, <1>2, PTL DEF Spec

(* Every table has keys and rows of its types.                              *)
THEOREM TypeCorrect == Spec => []TypeOK
<1>1. Inv => TypeOK
  BY DEF Inv
<1> QED
  BY <1>1, Always, PTL

(* However commands, the listener and a recovery move handles between DIDs, *)
(* a contact that shows a handle is the current one of it, and the only one *)
(* (UpsertContact, backfillContactHandleBindings,                           *)
(* normalizeRecoveredCurrentHandles).                                       *)
THEOREM NamesAlwaysCurrent == Spec => []HandleNamesCurrent
<1>1. Inv => HandleNamesCurrent
  BY DEF Inv
<1> QED
  BY <1>1, Always, PTL

(* The workspace forgets no DID of a handle, no message, no read mark and   *)
(* no group: LocalStore implements HandleHistory.                           *)
THEOREM HistoryImplemented == Spec => ImplementsHistory
<1>1. Init => History!Init
  BY Initially
<1>2. Inv /\ [Next]_vars => [History!Next]_(History!vars)
  BY Inductive DEF Kept
<1> QED
  BY <1>1, <1>2, Always, PTL DEF Spec, ImplementsHistory, History!Spec

(* The DIDs of a handle are those of its bindings; contacts add none.       *)
LEMMA KnownByBindings ==
  ASSUME NamesCurrent(contacts, bindings), NEW o, NEW h \in Handles, NEW p \in ListDIDsByHandle(o, h)
  PROVE  p \in Peers /\ <<o, <<h, p>>>> \in DOMAIN bindings
<1>1. p \in Peers
  BY DEF ListDIDsByHandle
<1>2. ASSUME <<o, p>> \in DOMAIN contacts, contacts[<<o, p>>].handle = h
      PROVE  <<o, <<h, p>>>> \in DOMAIN bindings
  <2>1. PICK k \in DOMAIN contacts : k = <<o, p>>
    BY <1>2
  <2>2. k[1] = o /\ k[2] = p /\ contacts[k].handle = h /\ h # NoHandle
    BY <1>2, <2>1, ConstantsOK
  <2>3. (<<k[1], <<h, p>>>> \in DOMAIN bindings /\ bindings[<<k[1], <<h, p>>>>].current) <=> p = k[2]
    BY <1>1, <2>2 DEF NamesCurrent
  <2> QED
    BY <2>2, <2>3
<1> QED
  BY <1>1, <1>2 DEF ListDIDsByHandle

LEMMA CommitHandsOver ==
  ASSUME Inv, MergeCommits, NEW o \in Owners
  PROVE  HandsOver(o, NewOwner)
<1>1. TypeOK /\ FromSenders /\ NameOwners
  BY DEF Inv
<1>2. /\ Gathered(bindings, bindings')
      /\ messages' = MergeMessages /\ groups' = MergeGroups /\ members' = MergeMembers
      /\ stage = "recovered" /\ stage \notin Moved
  BY Commits DEF Moved
<1>3. NamesCurrent(contacts, bindings)
  BY <1>2, NamesCurrently DEF Inv
<1>4. /\ Gathered(messages, messages')
      /\ \A k \in DOMAIN messages' :
           messages'[k].peer = Sender[k[2]] /\ messages'[k].self = k[1] /\ messages'[k].thread = {k[1], Sender[k[2]]}
  BY <1>1, <1>2, MessagesMerged
<1>5. Gathered(groups, groups') /\ \A k \in DOMAIN groups' : groups'[k].creator = k[1]
  BY <1>1, <1>2, GroupsMerged
<1>6. Gathered(members, members')
  BY <1>1, <1>2, MembersMerged
<1>7. ASSUME NEW t, NEW u, Gathered(t, u), NEW x, <<o, x>> \in DOMAIN t PROVE <<NewOwner, x>> \in DOMAIN u
  <2>1. <<o, x>>[2] = x
    OBVIOUS
  <2> QED
    BY <1>7, <2>1 DEF Gathered
<1>8. ASSUME NEW m, <<o, m>> \in DOMAIN messages
      PROVE  /\ messages[<<o, m>>].peer = Sender[m] /\ messages[<<o, m>>].thread = {o, Sender[m]}
             /\ <<NewOwner, m>> \in DOMAIN messages'
             /\ messages'[<<NewOwner, m>>].peer = Sender[m] /\ messages'[<<NewOwner, m>>].self = NewOwner
             /\ messages'[<<NewOwner, m>>].thread = {NewOwner, Sender[m]}
  <2>1. PICK k \in DOMAIN messages : k = <<o, m>>
    BY <1>8
  <2>2. k[1] = o /\ k[2] = m
    BY <2>1
  <2>3. messages[k].peer = Sender[m] /\ messages[k].thread = {o, Sender[m]}
    BY <1>1, <1>2, <2>2 DEF FromSenders, NameOwners, Moved
  <2>4. <<NewOwner, m>> \in DOMAIN messages'
    BY <1>4, <1>7, <1>8
  <2>5. PICK j \in DOMAIN messages' : j = <<NewOwner, m>>
    BY <2>4
  <2>6. j[1] = NewOwner /\ j[2] = m
    BY <2>5
  <2> QED
    BY <1>4, <2>1, <2>3, <2>5, <2>6
<1>9. ASSUME NEW h \in Handles PROVE ListDirectMessages(o, h) \subseteq ListDirectMessages(NewOwner, h)'
  <2> SUFFICES ASSUME NEW m \in ListDirectMessages(o, h) PROVE m \in ListDirectMessages(NewOwner, h)'
    OBVIOUS
  <2>1. m \in Msgs /\ <<o, m>> \in DOMAIN messages /\ messages[<<o, m>>].peer \in ListDIDsByHandle(o, h)
    BY DEF ListDirectMessages
  <2>2. PICK p : p = Sender[m]
    OBVIOUS
  <2>3. p \in ListDIDsByHandle(o, h)
    BY <1>8, <2>1, <2>2
  <2>4. p \in Peers /\ <<o, <<h, p>>>> \in DOMAIN bindings
    BY <1>3, <2>3, KnownByBindings
  <2>5. <<NewOwner, <<h, p>>>> \in DOMAIN bindings'
    BY <1>2, <1>7, <2>4
  <2>6. p \in ListDIDsByHandle(NewOwner, h)'
    BY <2>4, <2>5 DEF ListDIDsByHandle
  <2> QED
    BY <1>8, <2>1, <2>2, <2>6 DEF ListDirectMessages
<1>10. ASSUME NEW p \in Peers PROVE ListThreadMessages(o, p) \subseteq ListThreadMessages(NewOwner, p)'
  <2> SUFFICES ASSUME NEW m \in ListThreadMessages(o, p) PROVE m \in ListThreadMessages(NewOwner, p)'
    OBVIOUS
  <2>1. m \in Msgs /\ <<o, m>> \in DOMAIN messages /\ messages[<<o, m>>].thread = {o, p}
    BY DEF ListThreadMessages
  <2>2. {o, p} = {o, Sender[m]}
    BY <1>8, <2>1
  <2>3. p = Sender[m]
    BY <2>2
  <2> QED
    BY <1>8, <2>1, <2>3 DEF ListThreadMessages
<1>11. ASSUME NEW g \in Groups, <<o, g>> \in DOMAIN groups
       PROVE  <<NewOwner, g>> \in DOMAIN groups' /\ groups'[<<NewOwner, g>>].creator = NewOwner
  <2>1. PICK k \in DOMAIN groups' : k = <<NewOwner, g>>
    BY <1>5, <1>7, <1>11
  <2>2. k[1] = NewOwner
    BY <2>1
  <2> QED
    BY <1>5, <2>1, <2>2
<1>12. ASSUME NEW g \in Groups, <<o, g>> \in DOMAIN members PROVE <<NewOwner, g>> \in DOMAIN members'
  BY <1>6, <1>7, <1>12
<1> QED
  BY <1>9, <1>10, <1>11, <1>12 DEF HandsOver

LEMMA CommitEmpties ==
  ASSUME Inv, MergeCommits, NEW o \in Olds
  PROVE  /\ KeysOf(messages', o) = {} /\ KeysOf(contacts', o) = {} /\ KeysOf(bindings', o) = {}
         /\ KeysOf(groups', o) = {} /\ KeysOf(members', o) = {}
<1>1. TypeOK /\ FromSenders /\ NameOwners
  BY DEF Inv
<1>2. /\ Gathered(contacts, contacts') /\ Gathered(bindings, bindings')
      /\ messages' = MergeMessages /\ groups' = MergeGroups /\ members' = MergeMembers /\ stage \notin Moved
  BY Commits DEF Moved
<1>3. Gathered(messages, messages') /\ Gathered(groups, groups') /\ Gathered(members, members')
  BY <1>1, <1>2, MessagesMerged, GroupsMerged, MembersMerged
<1>4. o # NewOwner
  BY ConstantsOK
<1>5. ASSUME NEW t, NEW u, Gathered(t, u) PROVE KeysOf(u, o) = {}
  <2>1. ASSUME NEW k \in DOMAIN u PROVE k[1] = NewOwner
    <3>1. k = <<NewOwner, k[2]>>
      BY <1>5 DEF Gathered
    <3> QED
      BY <3>1
  <2> QED
    BY <1>4, <2>1 DEF KeysOf
<1> QED
  BY <1>2, <1>3, <1>5

(* When `id recover` commits, the new DID can read what the old ones could  *)
(* (ListDirectMessagesByPeerDIDs, ListThreadMessages) and has their groups, *)
(* and no row of an old DID is left (MergeRecoveredHandleLocalState).       *)
THEOREM MergeAlwaysHandsOver == Spec => MergeHandsOver
<1> DEFINE Handed ==
      stage = "recovered" /\ stage' = "merged"
      => /\ \A o \in Owners : HandsOver(o, NewOwner)
         /\ \A o \in Olds :
              /\ KeysOf(messages', o) = {} /\ KeysOf(contacts', o) = {} /\ KeysOf(bindings', o) = {}
              /\ KeysOf(groups', o) = {} /\ KeysOf(members', o) = {}
<1>1. ASSUME Inv, [Next]_vars PROVE [Handed]_vars
  <2> SUFFICES ASSUME stage = "recovered", stage' = "merged"
               PROVE  /\ \A o \in Owners : HandsOver(o, NewOwner)
                      /\ \A o \in Olds :
                           /\ KeysOf(messages', o) = {} /\ KeysOf(contacts', o) = {} /\ KeysOf(bindings', o) = {}
                           /\ KeysOf(groups', o) = {} /\ KeysOf(members', o) = {}
    OBVIOUS
  <2>1. MergeCommits
    BY <1>1 DEF Next, SyncPeerHandle, SyncIncomingContact, StoreMessage, MarkMessagesRead, UpsertGroup,
                ReplaceGroupMembers, AppendRelationshipEvent, StoreE2EE, Writer, EnsureSchema, Tick,
                ReplaceDID, Recover, SwitchIdentity, RebindOwnerDID, ClearOwnerE2EEData, MergeFails, vars
  <2> QED
    BY <1>1, <2>1, CommitHandsOver, CommitEmpties
<1>2. Inv /\ [Next]_vars => [Handed]_vars
  BY <1>1
<1> QED
  BY <1>2, Always, PTL DEF Spec, MergeHandsOver
=============================================================================
