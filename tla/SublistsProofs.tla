--------------------------- MODULE SublistsProofs ---------------------------
(* What the operators of Sublists return, for every list and every set.    *)
EXTENDS Sublists, FiniteSetTheorems, TLAPS

\* R orders the members of S strictly and totally.
Orders(R, S) ==
    /\ \A i \in S : <<i, i>> \notin R
    /\ \A i, j \in S : i = j \/ <<i, j>> \in R \/ <<j, i>> \in R
    /\ \A i, j, k \in S : <<i, j>> \in R /\ <<j, k>> \in R => <<i, k>> \in R

LEMMA CardinalityNat == ASSUME NEW S, IsFiniteSet(S) PROVE Cardinality(S) \in Nat
BY FS_CardinalityType

(* Arranged lists every member once, the members before it in R first.     *)
LEMMA ArrangedOrder ==
    ASSUME NEW S, IsFiniteSet(S), NEW R, Orders(R, S)
    PROVE  /\ Arranged(S, R) \in [1..Cardinality(S) -> S]
           /\ \A i \in S : \E k \in 1..Cardinality(S) : Arranged(S, R)[k] = i
           /\ \A k, l \in 1..Cardinality(S) :
                 k < l <=> <<Arranged(S, R)[k], Arranged(S, R)[l]>> \in R
           /\ \A k, l \in 1..Cardinality(S) :
                 Arranged(S, R)[k] = Arranged(S, R)[l] => k = l
<1> DEFINE n == Cardinality(S)
           Below(i) == {j \in S : <<j, i>> \in R}
           place == [i \in S |-> Cardinality(Below(i)) + 1]
           list == Arranged(S, R)
<1>1. n \in Nat
  BY CardinalityNat
<1>2. \A i \in S : IsFiniteSet(Below(i)) /\ Cardinality(Below(i)) \in Nat
  BY FS_Subset, CardinalityNat
<1>3. ASSUME NEW i \in S, NEW j \in S, <<i, j>> \in R
      PROVE  place[i] < place[j]
  <2>1. Below(i) \in SUBSET Below(j) /\ i \in Below(j) /\ i \notin Below(i)
    BY <1>3 DEF Orders
  <2>2. /\ Cardinality(Below(i)) <= Cardinality(Below(j))
        /\ Cardinality(Below(i)) # Cardinality(Below(j))
    BY <1>2, <2>1, FS_Subset
  <2> QED  BY <1>2, <2>2
<1>4. ASSUME NEW i \in S PROVE place[i] \in 1..n
  <2>1. Below(i) \in SUBSET S /\ Below(i) # S
    BY DEF Orders
  <2>2. Cardinality(Below(i)) <= n /\ Cardinality(Below(i)) # n
    BY <2>1, FS_Subset
  <2> QED  BY <1>1, <1>2, <2>2
<1> HIDE DEF n, list
<1>5. \A i \in S : place[i] = Cardinality(Below(i)) + 1
  OBVIOUS
<1> HIDE DEF place
<1>6. \A i, j \in S : place[i] = place[j] => i = j
  <2> SUFFICES ASSUME NEW i \in S, NEW j \in S, place[i] = place[j], i # j PROVE FALSE
    OBVIOUS
  <2>1. place[i] < place[j] \/ place[j] < place[i]
    BY <1>3 DEF Orders
  <2> QED  BY <1>1, <1>4, <2>1
<1>7. \A k \in 1..n : \E i \in S : place[i] = k
  <2>1. place \in [S -> 1..n]
    BY <1>4 DEF place
  <2>2. place \in Injection(S, 1..n)
    BY <1>6, <2>1 DEF Injection, IsInjective
  <2>3. IsFiniteSet(1..n) /\ Cardinality(1..n) = n
    BY <1>1, FS_Interval
  <2>4. place \in Surjection(S, 1..n)
    BY <2>2, <2>3, FS_Injection DEF n
  <2> QED  BY <2>4 DEF Surjection
<1>8. DOMAIN list = 1..n /\ \A k \in 1..n : list[k] \in S /\ place[list[k]] = k
  <2>1. list = [k \in 1..n |-> CHOOSE i \in S : Cardinality(Below(i)) = k - 1]
    BY DEF list, Arranged, n
  <2>2. ASSUME NEW k \in 1..n
        PROVE  list[k] \in S /\ place[list[k]] = k
    <3>1. list[k] = CHOOSE i \in S : Cardinality(Below(i)) = k - 1
      BY <2>1
    <3>2. PICK i \in S : Cardinality(Below(i)) = k - 1
      <4>1. PICK i \in S : place[i] = k
        BY <1>7
      <4>2. Cardinality(Below(i)) \in Nat /\ Cardinality(Below(i)) + 1 = k
        BY <1>2, <1>5, <4>1
      <4>3. Cardinality(Below(i)) = k - 1
        BY <1>1, <4>2
      <4> QED  BY <4>3
    <3>3. list[k] \in S /\ Cardinality(Below(list[k])) = k - 1
      BY <3>1, <3>2
    <3> QED  BY <1>1, <1>5, <3>3
  <2> QED  BY <2>1, <2>2
<1>9. list \in [1..n -> S]
  <2> DEFINE Entry(k) == CHOOSE i \in S : Cardinality(Below(i)) = k - 1
  <2>1. list = [k \in 1..n |-> Entry(k)]
    BY DEF list, Arranged, n
  <2> HIDE DEF Entry
  <2> QED  BY <1>8, <2>1
<1>10. ASSUME NEW i \in S PROVE \E k \in 1..n : list[k] = i
  <2>1. place[i] \in 1..n /\ list[place[i]] = i
    BY <1>4, <1>6, <1>8
  <2> QED  BY <2>1
<1>11. ASSUME NEW k \in 1..n, NEW l \in 1..n
       PROVE  k < l <=> <<list[k], list[l]>> \in R
  <2> DEFINE x == list[k]
             y == list[l]
  <2>0. x \in S /\ y \in S /\ place[x] = k /\ place[y] = l
    BY <1>8
  <2> HIDE DEF x, y
  <2>1. <<x, y>> \in R => k < l
    BY <1>3, <2>0
  <2>2. ASSUME k < l PROVE <<x, y>> \in R
    <3>1. x # y
      BY <1>1, <2>0, <2>2
    <3>2. <<y, x>> \in R => l < k
      BY <1>3, <2>0
    <3>3. <<y, x>> \notin R
      BY <1>1, <2>2, <3>2
    <3> QED  BY <2>0, <3>1, <3>3 DEF Orders
  <2> QED  BY <2>1, <2>2 DEF x, y
<1>12. ASSUME NEW k \in 1..n, NEW l \in 1..n, list[k] = list[l]
       PROVE  k = l
  BY <1>8, <1>12
<1> QED  BY <1>9, <1>10, <1>11, <1>12 DEF n, list

(* A finite set that is ordered has a first and a last member.             *)
LEMMA Extremes ==
    ASSUME NEW S, IsFiniteSet(S), S # {}, NEW R, Orders(R, S)
    PROVE  /\ \E i \in S : \A j \in S : i = j \/ <<i, j>> \in R
           /\ \E i \in S : \A j \in S : i = j \/ <<j, i>> \in R
<1> DEFINE n == Cardinality(S)
           list == Arranged(S, R)
<1>1. /\ list \in [1..n -> S]
      /\ \A i \in S : \E k \in 1..n : list[k] = i
      /\ \A k, l \in 1..n : k < l <=> <<list[k], list[l]>> \in R
  BY ArrangedOrder
<1>2. n \in Nat
  BY CardinalityNat
<1> HIDE DEF n, list
<1>3. 1 \in 1..n /\ n \in 1..n
  BY <1>1, <1>2
<1>4. ASSUME NEW j \in S
      PROVE  (list[1] = j \/ <<list[1], j>> \in R) /\ (list[n] = j \/ <<j, list[n]>> \in R)
  <2>1. PICK k \in 1..n : list[k] = j
    BY <1>1
  <2>2. k = 1 \/ 1 < k
    BY <1>2
  <2>3. k = n \/ k < n
    BY <1>2
  <2> QED  BY <1>1, <1>3, <2>1, <2>2, <2>3
<1> QED  BY <1>1, <1>3, <1>4

----------------------------------------------------------------------------
(* Rising lists are what Sublist and Only are made of.                     *)
LEMMA AscendingOrder ==
    ASSUME NEW n \in Nat, NEW at \in SUBSET (1..n)
    PROVE  /\ IsFiniteSet(at) /\ Cardinality(at) \in 0..n
           /\ Ascending[at] \in [1..Cardinality(at) -> at]
           /\ \A i \in at : \E k \in 1..Cardinality(at) : Ascending[at][k] = i
           /\ \A k, l \in 1..Cardinality(at) : k < l <=> Ascending[at][k] < Ascending[at][l]
           /\ \A k, l \in 1..Cardinality(at) : Ascending[at][k] = Ascending[at][l] => k = l
<1> DEFINE R == {p \in at \X at : p[1] < p[2]}
<1>1. IsFiniteSet(at) /\ Cardinality(at) \in 0..n
  <2>1. IsFiniteSet(1..n) /\ Cardinality(1..n) = n
    BY FS_Interval
  <2>2. IsFiniteSet(at) /\ Cardinality(at) <= n
    BY <2>1, FS_Subset
  <2> QED  BY <2>2, CardinalityNat
<1>2. \A i, j \in at : <<i, j>> \in R <=> i < j
  OBVIOUS
<1> HIDE DEF R
<1>3. Orders(R, at)
  BY <1>2 DEF Orders
<1>4. Ascending[at] = Arranged(at, R)
  <2>1. at \in SUBSET Nat
    OBVIOUS
  <2>2. Ascending[at] =
          [k \in 1..Cardinality(at) |->
              CHOOSE i \in at : Cardinality({j \in at : j < i}) = k - 1]
    BY <2>1 DEF Ascending
  <2>3. ASSUME NEW i \in at PROVE {j \in at : j < i} = {j \in at : <<j, i>> \in R}
    BY <1>2
  <2>4. \A k \in 1..Cardinality(at) :
           (CHOOSE i \in at : Cardinality({j \in at : j < i}) = k - 1)
           = CHOOSE i \in at : Cardinality({j \in at : <<j, i>> \in R}) = k - 1
    BY <2>3
  <2> QED  BY <2>2, <2>4 DEF Arranged
<1> DEFINE list == Arranged(at, R)
<1>5. /\ list \in [1..Cardinality(at) -> at]
      /\ \A i \in at : \E k \in 1..Cardinality(at) : list[k] = i
      /\ \A k, l \in 1..Cardinality(at) : k < l <=> <<list[k], list[l]>> \in R
      /\ \A k, l \in 1..Cardinality(at) : list[k] = list[l] => k = l
  BY <1>1, <1>3, ArrangedOrder
<1> HIDE DEF list
<1>6. \A k, l \in 1..Cardinality(at) : k < l <=> list[k] < list[l]
  BY <1>2, <1>5
<1>7. Ascending[at] = list
  BY <1>4 DEF list
<1> QED  BY <1>1, <1>5, <1>6, <1>7

(* A sublist consists of the elements at the positions it was asked for,   *)
(* in the order of the list.                                               *)
LEMMA SublistParts ==
    ASSUME NEW T, NEW list \in Seq(T), NEW at \in SUBSET DOMAIN list
    PROVE  /\ Sublist(list, at) \in Seq(T)
           /\ Len(Sublist(list, at)) = Cardinality(at)
           /\ Len(Sublist(list, at)) <= Len(list)
           /\ \E from \in [DOMAIN Sublist(list, at) -> at] :
                 /\ \A k \in DOMAIN Sublist(list, at) : Sublist(list, at)[k] = list[from[k]]
                 /\ \A i \in at : \E k \in DOMAIN Sublist(list, at) : from[k] = i
                 /\ \A k, l \in DOMAIN Sublist(list, at) : k < l <=> from[k] < from[l]
                 /\ \A k, l \in DOMAIN Sublist(list, at) : from[k] = from[l] => k = l
<1> DEFINE n == Cardinality(at)
           from == Ascending[at]
           part == Sublist(list, at)
<1>1. Len(list) \in Nat /\ DOMAIN list = 1..Len(list) /\ \A i \in DOMAIN list : list[i] \in T
  OBVIOUS
<1>2. /\ n \in 0..Len(list)
      /\ from \in [1..n -> at]
      /\ \A i \in at : \E k \in 1..n : from[k] = i
      /\ \A k, l \in 1..n : k < l <=> from[k] < from[l]
      /\ \A k, l \in 1..n : from[k] = from[l] => k = l
  <2>1. PICK m \in Nat : m = Len(list) /\ at \in SUBSET (1..m)
    BY <1>1
  <2> QED  BY <2>1, AscendingOrder
<1> HIDE DEF n, from
<1>3. part = [k \in DOMAIN from |-> list[from[k]]]
  BY DEF Sublist, from
<1> HIDE DEF part
<1>4. part = [k \in 1..n |-> list[from[k]]] /\ n \in Nat
  BY <1>2, <1>3
<1>5. part \in [1..n -> T] /\ \A k \in 1..n : part[k] = list[from[k]]
  BY <1>1, <1>2, <1>4
<1>6. part \in Seq(T) /\ Len(part) = n /\ DOMAIN part = 1..n
  BY <1>4, <1>5
<1>7. Len(part) <= Len(list)
  BY <1>1, <1>2, <1>6
<1>8. /\ from \in [DOMAIN part -> at]
      /\ \A k \in DOMAIN part : part[k] = list[from[k]]
      /\ \A i \in at : \E k \in DOMAIN part : from[k] = i
      /\ \A k, l \in DOMAIN part : k < l <=> from[k] < from[l]
      /\ \A k, l \in DOMAIN part : from[k] = from[l] => k = l
  BY <1>2, <1>5, <1>6
<1> QED  BY <1>6, <1>7, <1>8 DEF part, n

(* Filtering a list keeps the members of the set, without adding repeats.  *)
LEMMA OnlyParts ==
    ASSUME NEW T, NEW list \in Seq(T), NEW S
    PROVE  /\ Only(list, S) \in Seq(T) /\ Len(Only(list, S)) <= Len(list)
           /\ \A k \in DOMAIN Only(list, S) :
                 Only(list, S)[k] \in S /\ \E i \in DOMAIN list : Only(list, S)[k] = list[i]
           /\ \A i \in DOMAIN list : list[i] \in S =>
                 \E k \in DOMAIN Only(list, S) : Only(list, S)[k] = list[i]
           /\ (\A i, j \in DOMAIN list : list[i] = list[j] => i = j) =>
                 \A k, l \in DOMAIN Only(list, S) :
                    Only(list, S)[k] = Only(list, S)[l] => k = l
<1> DEFINE at == {i \in DOMAIN list : list[i] \in S}
           part == Only(list, S)
<1>1. part = Sublist(list, at) /\ at \in SUBSET DOMAIN list
  BY DEF Only
<1>2. \A i : i \in at <=> i \in DOMAIN list /\ list[i] \in S
  OBVIOUS
<1> HIDE DEF at, part
<1>3. /\ part \in Seq(T) /\ Len(part) <= Len(list)
      /\ \E from \in [DOMAIN part -> at] :
            /\ \A k \in DOMAIN part : part[k] = list[from[k]]
            /\ \A i \in at : \E k \in DOMAIN part : from[k] = i
            /\ \A k, l \in DOMAIN part : from[k] = from[l] => k = l
  BY <1>1, SublistParts
<1>4. PICK from \in [DOMAIN part -> at] :
            /\ \A k \in DOMAIN part : part[k] = list[from[k]]
            /\ \A i \in at : \E k \in DOMAIN part : from[k] = i
            /\ \A k, l \in DOMAIN part : from[k] = from[l] => k = l
  BY <1>3
<1>5. \A k \in DOMAIN part : part[k] \in S /\ \E i \in DOMAIN list : part[k] = list[i]
  BY <1>2, <1>4
<1>6. \A i \in DOMAIN list : list[i] \in S => \E k \in DOMAIN part : part[k] = list[i]
  BY <1>2, <1>4
<1>7. (\A i, j \in DOMAIN list : list[i] = list[j] => i = j) =>
          \A k, l \in DOMAIN part : part[k] = part[l] => k = l
  BY <1>2, <1>4
<1> QED  BY <1>3, <1>5, <1>6, <1>7 DEF part
=============================================================================
