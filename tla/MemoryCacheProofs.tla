------------------------- MODULE MemoryCacheProofs -------------------------
(***************************************************************************)
(* The bookkeeping of MemoryCache, for any keys, clients, texts, sizes and *)
(* limit.                                                                  *)
(***************************************************************************)
EXTENDS MemoryCache, TLAPS, WellFoundedInduction, FiniteSetTheorems, FunctionTheorems, SequenceTheorems

-----------------------------------------------------------------------------
(* Induction, on sets of natural numbers. *)

LEMMA LeastNat ==
  ASSUME NEW T \in SUBSET Nat, T # {}
  PROVE  \E j \in T : \A i \in T : j <= i
<1> DEFINE Less == {ss \in Nat \X Nat : ss[1] < ss[2]}
<1>1. IsWellFoundedOn(Less, Nat)
  BY NatLessThanWellFounded DEF OpToRel
<1>2. \A i, j \in Nat : i < j => <<i, j>> \in Less
  OBVIOUS
<1> HIDE DEF Less
<1>3. \E j \in T : \A i \in T : <<i, j>> \notin Less
  BY <1>1, WFMin, Zenon
<1>4. PICK j \in T : \A i \in T : <<i, j>> \notin Less
  BY <1>3
<1>5. ASSUME NEW i \in T PROVE j <= i
  <2>1. i \in Nat /\ j \in Nat /\ ~(i < j)
    BY <1>2, <1>4
  <2> QED
    BY <2>1
<1> QED
  BY <1>5

LEMMA Induction ==
  ASSUME NEW T \in SUBSET Nat, 0 \in T, \A j \in T : j + 1 \in T
  PROVE  T = Nat
<1> SUFFICES ASSUME T # Nat PROVE FALSE
  OBVIOUS
<1>1. PICK j \in Nat \ T : \A i \in Nat \ T : j <= i
  BY LeastNat
<1>2. j - 1 \in T
  BY <1>1
<1> QED
  BY <1>1, <1>2

-----------------------------------------------------------------------------
(* Sums. *)

\* The partial sums of a sequence are what their definition says.
LEMMA UptoIs ==
  ASSUME NEW g, NEW n \in Nat, Len(g) = n
  PROVE  Upto(g) = [i \in 0..n |-> IF i = 0 THEN 0 ELSE Upto(g)[i - 1] + g[i]]
<1> DEFINE IsUpto(f, k) == f = [i \in 0..k |-> IF i = 0 THEN 0 ELSE f[i - 1] + g[i]]
           T == {k \in Nat : \E f : IsUpto(f, k)}
<1>1. 0 \in T
  <2>1. IsUpto([i \in 0..0 |-> 0], 0)
    OBVIOUS
  <2> HIDE DEF IsUpto
  <2> QED
    BY <2>1
<1>2. ASSUME NEW k \in T PROVE k + 1 \in T
  <2>1. PICK f : IsUpto(f, k)
    OBVIOUS
  <2> DEFINE h == [i \in 0..(k + 1) |-> IF i <= k THEN f[i] ELSE f[k] + g[k + 1]]
  <2>2. ASSUME NEW i \in 0..(k + 1)
        PROVE  h[i] = IF i = 0 THEN 0 ELSE h[i - 1] + g[i]
    <3>1. CASE i \in 0..k
      BY <2>1, <3>1
    <3>2. CASE i = k + 1
      BY <3>2
    <3> QED
      BY <3>1, <3>2
  <2>3. IsUpto(h, k + 1)
    BY <2>2
  <2> HIDE DEF IsUpto, h
  <2> QED
    BY <2>3
<1>3. \E f : IsUpto(f, n)
  <2> HIDE DEF T
  <2>1. n \in T
    BY <1>1, <1>2, Induction DEF T
  <2> QED
    BY <2>1 DEF T
<1> DEFINE sum[i \in 0..n] == IF i = 0 THEN 0 ELSE sum[i - 1] + g[i]
<1>4. sum = [i \in 0..n |-> IF i = 0 THEN 0 ELSE sum[i - 1] + g[i]]
  BY <1>3
<1>5. sum = Upto(g)
  BY DEF Upto
<1> QED
  BY <1>4, <1>5

Sum(g) == Upto(g)[Len(g)]

LEMMA UptoType ==
  ASSUME NEW g \in Seq(Nat)
  PROVE  /\ \A i \in 0..Len(g) : Upto(g)[i] \in Nat
         /\ Upto(g)[0] = 0
         /\ \A i \in 1..Len(g) : Upto(g)[i] = Upto(g)[i - 1] + g[i]
         /\ Sum(g) \in Nat
<1>1. /\ Len(g) \in Nat /\ \A i \in 1..Len(g) : g[i] \in Nat
  OBVIOUS
<1>2. Upto(g) = [i \in 0..Len(g) |-> IF i = 0 THEN 0 ELSE Upto(g)[i - 1] + g[i]]
  BY <1>1, UptoIs
<1>3. /\ Upto(g)[0] = 0
      /\ \A i \in 1..Len(g) : Upto(g)[i] = Upto(g)[i - 1] + g[i]
  BY <1>1, <1>2
<1> DEFINE T == {i \in Nat : i <= Len(g) => Upto(g)[i] \in Nat}
<1>4. T = Nat
  <2>1. 0 \in T
    BY <1>1, <1>3
  <2>2. ASSUME NEW i \in T PROVE i + 1 \in T
    <3> SUFFICES ASSUME i + 1 <= Len(g) PROVE Upto(g)[i + 1] \in Nat
      OBVIOUS
    <3>1. i + 1 \in 1..Len(g) /\ (i + 1) - 1 = i /\ Upto(g)[i] \in Nat
      BY <1>1
    <3>2. Upto(g)[i + 1] = Upto(g)[i] + g[i + 1] /\ g[i + 1] \in Nat
      BY <1>1, <1>3, <3>1
    <3> QED
      BY <3>1, <3>2
  <2> HIDE DEF T
  <2> QED
    BY <2>1, <2>2, Induction DEF T
<1> QED
  BY <1>1, <1>3, <1>4 DEF Sum

LEMMA SumOfThree ==
  ASSUME NEW a \in Nat, NEW b \in Nat, NEW c \in Nat
  PROVE  (a + c) + b = (a + b) + c
  OBVIOUS

\* Sequences with the same partial sums to begin with.
LEMMA UptoSame ==
  ASSUME NEW g \in Seq(Nat), NEW h \in Seq(Nat), NEW n \in Nat,
         n <= Len(g), n <= Len(h), \A i \in 1..n : g[i] = h[i]
  PROVE  \A i \in 0..n : Upto(g)[i] = Upto(h)[i]
<1> DEFINE T == {i \in Nat : i <= n => Upto(g)[i] = Upto(h)[i]}
<1>1. 0 \in T
  BY UptoType
<1>2. ASSUME NEW i \in T PROVE i + 1 \in T
  <2> SUFFICES ASSUME i + 1 <= n PROVE Upto(g)[i + 1] = Upto(h)[i + 1]
    OBVIOUS
  <2>1. i \in Nat /\ Upto(g)[i] = Upto(h)[i] /\ g[i + 1] = h[i + 1]
        /\ i + 1 \in 1..Len(g) /\ i + 1 \in 1..Len(h)
    OBVIOUS
  <2> QED
    BY <2>1, UptoType
<1>3. T = Nat
  <2> HIDE DEF T
  <2> QED
    BY <1>1, <1>2, Induction DEF T
<1> QED
  BY <1>3

LEMMA SumEmpty == Sum(<<>>) = 0
<1>1. <<>> \in Seq(Nat) /\ Len(<<>>) = 0
  OBVIOUS
<1> QED
  BY <1>1, UptoType DEF Sum

\* A new element in front.
LEMMA SumFront ==
  ASSUME NEW g \in Seq(Nat), NEW z \in Nat
  PROVE  Sum(<<z>> \o g) = z + Sum(g)
<1> DEFINE h == <<z>> \o g
<1>1. /\ h \in Seq(Nat) /\ Len(h) = Len(g) + 1 /\ h[1] = z /\ Len(g) \in Nat
      /\ \A i \in 1..Len(g) : h[i + 1] = g[i]
  OBVIOUS
<1> HIDE DEF h
<1>0. /\ \A j \in 0..Len(g) : Upto(g)[j] \in Nat
      /\ \A j \in 1..Len(g) : Upto(g)[j] = Upto(g)[j - 1] + g[j]
      /\ \A j \in 1..Len(h) : Upto(h)[j] = Upto(h)[j - 1] + h[j]
  BY <1>1, UptoType
<1>2. Upto(h)[1] = z + Upto(g)[0]
  <2>1. Upto(h)[0] = 0 /\ Upto(g)[0] = 0
    BY <1>1, UptoType
  <2>2. Upto(h)[1] = Upto(h)[1 - 1] + z
    BY <1>0, <1>1
  <2> QED
    BY <2>1, <2>2
<1>3. ASSUME NEW i \in Nat, i + 1 <= Len(g), Upto(h)[i + 1] = z + Upto(g)[i]
      PROVE  Upto(h)[(i + 1) + 1] = z + Upto(g)[i + 1]
  <2>1. /\ i + 1 \in 1..Len(g) /\ (i + 1) + 1 \in 1..Len(h) /\ i \in 0..Len(g)
        /\ ((i + 1) + 1) - 1 = i + 1 /\ (i + 1) - 1 = i
    BY <1>1, <1>3
  <2>2. h[(i + 1) + 1] = g[i + 1]
    BY <1>1, <2>1
  <2>5. g[i + 1] \in Nat
    BY <2>1
  <2>6. Upto(g)[i] \in Nat
    BY <1>0, <2>1
  <2>3. Upto(h)[(i + 1) + 1] = Upto(h)[i + 1] + g[i + 1]
    BY <1>0, <2>1, <2>2
  <2>4. Upto(g)[i + 1] = Upto(g)[i] + g[i + 1]
    BY <1>0, <2>1
  <2>7. Upto(h)[i + 1] = Upto(g)[i] + z
    BY <1>3, <2>6
  <2>8. (Upto(g)[i] + z) + g[i + 1] = (Upto(g)[i] + g[i + 1]) + z
    BY <2>5, <2>6, SumOfThree
  <2>9. Upto(h)[(i + 1) + 1] = Upto(g)[i + 1] + z
    BY <2>3, <2>4, <2>7, <2>8, Zenon
  <2> QED
    BY <2>4, <2>5, <2>6, <2>9
<1> DEFINE T == {i \in Nat : i <= Len(g) => Upto(h)[i + 1] = z + Upto(g)[i]}
<1>4. T = Nat
  <2>1. 0 \in T
    BY <1>2
  <2>2. \A i \in T : i + 1 \in T
    BY <1>1, <1>3
  <2> HIDE DEF T
  <2> QED
    BY <2>1, <2>2, Induction DEF T
<1>5. Upto(h)[Len(g) + 1] = z + Upto(g)[Len(g)]
  BY <1>1, <1>4
<1> QED
  BY <1>1, <1>5 DEF Sum, h

\* h is g without the element at p.
Lacks(h, g, p) ==
  /\ p \in 1..Len(g) /\ Len(h) = Len(g) - 1
  /\ \A i \in 1..Len(h) : h[i] = IF i < p THEN g[i] ELSE g[i + 1]

LEMMA SumLacks ==
  ASSUME NEW g \in Seq(Nat), NEW h \in Seq(Nat), NEW p, Lacks(h, g, p)
  PROVE  Sum(g) = Sum(h) + g[p]
<1>1. /\ p \in Nat /\ p >= 1 /\ p <= Len(g) /\ Len(g) \in Nat /\ Len(h) \in Nat
      /\ Len(h) = Len(g) - 1 /\ g[p] \in Nat
      /\ \A i \in 1..Len(h) : h[i] = IF i < p THEN g[i] ELSE g[i + 1]
  BY DEF Lacks
<1>0. /\ \A j \in 0..Len(h) : Upto(h)[j] \in Nat
      /\ \A j \in 1..Len(h) : Upto(h)[j] = Upto(h)[j - 1] + h[j]
      /\ \A j \in 1..Len(g) : Upto(g)[j] = Upto(g)[j - 1] + g[j]
  BY UptoType
<1>2. Upto(h)[p - 1] = Upto(g)[p - 1]
  <2>1. p - 1 \in Nat /\ p - 1 <= Len(g) /\ p - 1 <= Len(h)
    BY <1>1
  <2>2. ASSUME NEW i \in 1..(p - 1) PROVE g[i] = h[i]
    <3>1. i \in 1..Len(h) /\ i < p
      BY <1>1
    <3> QED
      BY <1>1, <3>1
  <2>3. \A i \in 0..(p - 1) : Upto(g)[i] = Upto(h)[i]
    BY <2>1, <2>2, UptoSame
  <2> QED
    BY <1>1, <2>3
<1>3. Upto(g)[p] = Upto(h)[p - 1] + g[p]
  BY <1>0, <1>1, <1>2
<1>4. ASSUME NEW i \in Nat, p <= i, i + 1 <= Len(g), Upto(g)[i] = Upto(h)[i - 1] + g[p]
      PROVE  Upto(g)[i + 1] = Upto(h)[i] + g[p]
  <2>1. /\ i + 1 \in 1..Len(g) /\ (i + 1) - 1 = i /\ i \in 1..Len(h) /\ i - 1 \in 0..Len(h)
        /\ ~(i < p)
    BY <1>1, <1>4
  <2>2. h[i] = g[i + 1]
    BY <1>1, <2>1
  <2>5. g[i + 1] \in Nat
    BY <2>1
  <2>6. Upto(h)[i - 1] \in Nat
    BY <1>0, <2>1
  <2>3. Upto(g)[i + 1] = Upto(g)[i] + g[i + 1]
    BY <1>0, <2>1
  <2>4. Upto(h)[i] = Upto(h)[i - 1] + h[i]
    BY <1>0, <2>1
  <2>7. g[p] \in Nat
    BY <1>1
  <2>8. Upto(g)[i] = Upto(h)[i - 1] + g[p]
    BY <1>4
  <2>9. (Upto(h)[i - 1] + g[p]) + g[i + 1] = (Upto(h)[i - 1] + g[i + 1]) + g[p]
    BY <2>5, <2>6, <2>7, SumOfThree
  <2> QED
    BY <2>2, <2>3, <2>4, <2>8, <2>9, Zenon
<1> DEFINE T == {i \in Nat : p <= i /\ i <= Len(g) => Upto(g)[i] = Upto(h)[i - 1] + g[p]}
<1>5. T = Nat
  <2>1. 0 \in T
    BY <1>1
  <2>2. ASSUME NEW i \in T PROVE i + 1 \in T
    <3> SUFFICES ASSUME p <= i + 1, i + 1 <= Len(g)
                 PROVE  Upto(g)[i + 1] = Upto(h)[i] + g[p]
      OBVIOUS
    <3>1. CASE p = i + 1
      BY <1>3, <3>1
    <3>2. CASE p <= i
      BY <1>1, <1>4, <3>2
    <3> QED
      BY <1>1, <3>1, <3>2
  <2> HIDE DEF T
  <2> QED
    BY <2>1, <2>2, Induction DEF T
<1>6. Upto(g)[Len(g)] = Upto(h)[Len(g) - 1] + g[p]
  <2> HIDE DEF T
  <2>1. Len(g) \in T
    BY <1>1, <1>5
  <2> QED
    BY <1>1, <2>1 DEF T
<1> QED
  BY <1>1, <1>6 DEF Sum
-----------------------------------------------------------------------------
(* The list. *)

Elems == [key : Keys, id : Ids]

LEMMA FrontLacks ==
  ASSUME NEW s \in Seq(Elems), s # <<>>
  PROVE  Front(s) \in Seq(Elems) /\ Lacks(Front(s), s, Len(s)) /\ Last(s) = s[Len(s)]
<1>0. Front(s) = SubSeq(s, 1, Len(s) - 1) /\ Last(s) = s[Len(s)]
  BY DEF Front, Last
<1>1. Len(s) \in Nat /\ Len(s) >= 1
  <2>1. Len(s) \in Nat \ {0}
    BY EmptySeq, Zenon
  <2> QED
    BY <2>1
<1>2. Front(s) \in Seq(Elems) /\ Len(Front(s)) = Len(s) - 1
  <2> DEFINE n == Len(s) - 1
  <2>1. n \in Nat /\ n <= Len(s)
    BY <1>1
  <2> HIDE DEF n
  <2>2. SubSeq(s, 1, n) \in Seq(Elems) /\ Len(SubSeq(s, 1, n)) = n
    BY <1>1, <2>1
  <2> QED
    BY <1>0, <2>2 DEF n
<1>3. \A i \in 1..Len(Front(s)) : Front(s)[i] = s[i] /\ i < Len(s)
  BY <1>0, <1>1, <1>2
<1> QED
  BY <1>0, <1>1, <1>2, <1>3 DEF Lacks

LEMMA RemoveAtLacks ==
  ASSUME NEW s \in Seq(Elems), NEW p \in 1..Len(s)
  PROVE  RemoveAt(s, p) \in Seq(Elems) /\ Lacks(RemoveAt(s, p), s, p)
<1> DEFINE a == SubSeq(s, 1, p - 1)
           b == SubSeq(s, p + 1, Len(s))
<1>1. /\ a \in Seq(Elems) /\ Len(a) = p - 1
      /\ b \in Seq(Elems) /\ Len(b) = Len(s) - p
      /\ p \in Nat /\ p >= 1 /\ Len(s) \in Nat /\ p <= Len(s)
  OBVIOUS
<1>2. /\ \A i \in 1..(p - 1) : a[i] = s[i]
      /\ \A i \in 1..(Len(s) - p) : b[i] = s[p + i]
  OBVIOUS
<1>3. RemoveAt(s, p) = a \o b
  BY DEF RemoveAt
<1> HIDE DEF a, b
<1>4. /\ a \o b \in Seq(Elems) /\ Len(a \o b) = Len(s) - 1
      /\ \A i \in 1..(Len(s) - 1) :
           (a \o b)[i] = IF i <= p - 1 THEN a[i] ELSE b[i - (p - 1)]
  BY <1>1
<1>5. ASSUME NEW i \in 1..(Len(s) - 1)
      PROVE  (a \o b)[i] = IF i < p THEN s[i] ELSE s[i + 1]
  <2>1. CASE i < p
    BY <1>1, <1>2, <1>4, <2>1
  <2>2. CASE i >= p
    <3>1. i - (p - 1) \in 1..(Len(s) - p) /\ p + (i - (p - 1)) = i + 1 /\ ~(i <= p - 1)
      BY <1>1, <2>2
    <3> QED
      BY <1>1, <1>2, <1>4, <2>2, <3>1
  <2> QED
    BY <1>1, <2>1, <2>2
<1> QED
  BY <1>1, <1>3, <1>4, <1>5 DEF Lacks

\* An element that is in the list once.
LEMMA RemoveFirstLacks ==
  ASSUME NEW s \in Seq(Elems), NEW p \in 1..Len(s),
         \A i \in 1..Len(s) : s[i] = s[p] => i = p
  PROVE  RemoveFirst(s, s[p]) \in Seq(Elems) /\ Lacks(RemoveFirst(s, s[p]), s, p)
<1> DEFINE I == {i \in 1..Len(s) : s[i] = s[p]}
<1>1. I = {p} /\ p \in Nat
  OBVIOUS
<1>2. Min({p}) = p
  BY <1>1 DEF Min
<1>3. SelectInSeq(s, LAMBDA v : v = s[p]) = p
  BY <1>1, <1>2 DEF SelectInSeq
<1>4. RemoveFirst(s, s[p]) = RemoveAt(s, p)
  BY <1>3 DEF RemoveFirst
<1> QED
  BY <1>4, RemoveAtLacks

-----------------------------------------------------------------------------
(* A map, a list and a count that agree. *)

Maps == [Keys -> Item \cup {None}]

\* The size a list element stands for.
SizesOf(it, ls) == [i \in 1..Len(ls) |-> it[ls[i].key].size]

\* Each element is the one of its key's item, there is one to a key, and u is
\* the sum of their sizes.
Listed(it, ls, u) ==
  /\ it \in Maps /\ ls \in Seq(Elems)
  /\ \A i \in 1..Len(ls) : it[ls[i].key] # None /\ it[ls[i].key].id = ls[i].id
  /\ \A i, j \in 1..Len(ls) : ls[i].key = ls[j].key => i = j
  /\ u = Sum(SizesOf(it, ls))

\* Every item, but those of the keys K, has an element.
Covers(it, ls, K) ==
  \A q \in Keys \ K : it[q] # None => \E i \in 1..Len(ls) : ls[i].key = q

Misses(ls, k) == \A i \in 1..Len(ls) : ls[i].key # k

LEMMA SizesType ==
  ASSUME NEW it, NEW ls, NEW u, Listed(it, ls, u)
  PROVE  /\ SizesOf(it, ls) \in Seq(Nat) /\ Len(SizesOf(it, ls)) = Len(ls)
         /\ Len(ls) \in Nat
         /\ \A i \in 1..Len(ls) : /\ ls[i].key \in Keys /\ it[ls[i].key] \in Item
                                   /\ SizesOf(it, ls)[i] = it[ls[i].key].size
                                   /\ it[ls[i].key].size \in Nat
         /\ u \in Nat
<1>1. it \in Maps /\ ls \in Seq(Elems) /\ Len(ls) \in Nat
  BY DEF Listed
<1>2. ASSUME NEW i \in 1..Len(ls)
      PROVE  /\ ls[i].key \in Keys /\ it[ls[i].key] \in Item
             /\ it[ls[i].key].size \in Nat
  <2>1. ls[i] \in Elems
    BY <1>1
  <2>2. ls[i].key \in Keys /\ it[ls[i].key] # None
    BY <2>1 DEF Elems, Listed
  <2>3. it[ls[i].key] \in Item
    BY <1>1, <2>2 DEF Maps
  <2> QED
    BY <2>2, <2>3 DEF Item
<1>3. SizesOf(it, ls) \in Seq(Nat) /\ Len(SizesOf(it, ls)) = Len(ls)
      /\ \A i \in 1..Len(ls) : SizesOf(it, ls)[i] = it[ls[i].key].size
  BY <1>1, <1>2 DEF SizesOf
<1>4. u \in Nat
  BY <1>3, UptoType DEF Listed
<1> QED
  BY <1>1, <1>2, <1>3, <1>4

\* An element goes; the item of its key may change.
LEMMA DropElement ==
  ASSUME NEW it, NEW ls, NEW u, Listed(it, ls, u), NEW p \in 1..Len(ls),
         NEW hs \in Seq(Elems), Lacks(hs, ls, p),
         NEW jt \in Maps, \A q \in Keys \ {ls[p].key} : jt[q] = it[q]
  PROVE  /\ it[ls[p].key].size \in Nat
         /\ u - it[ls[p].key].size \in Nat
         /\ Listed(jt, hs, u - it[ls[p].key].size)
         /\ Misses(hs, ls[p].key)
<1> DEFINE k == ls[p].key
           g == SizesOf(it, ls)
           h == SizesOf(jt, hs)
           to(i) == IF i < p THEN i ELSE i + 1
<1>1. /\ g \in Seq(Nat) /\ Len(g) = Len(ls) /\ Len(ls) \in Nat /\ k \in Keys
      /\ \A i \in 1..Len(ls) : ls[i].key \in Keys /\ g[i] = it[ls[i].key].size
                                /\ g[i] \in Nat
  BY SizesType
<1>2. Len(hs) = Len(ls) - 1 /\ Len(hs) \in Nat
      /\ \A i \in 1..Len(hs) : to(i) \in 1..Len(ls) /\ to(i) # p /\ hs[i] = ls[to(i)]
  BY <1>1 DEF Lacks
<1>3. \A i, j \in 1..Len(hs) : to(i) = to(j) => i = j
  BY <1>2
<1> HIDE DEF to, k, g
<1>4. \A i \in 1..Len(hs) : hs[i].key # k /\ hs[i].key \in Keys
  <2> TAKE i \in 1..Len(hs)
  <2>1. to(i) \in 1..Len(ls) /\ to(i) # p /\ hs[i] = ls[to(i)]
    BY <1>2
  <2>2. ls[to(i)].key # ls[p].key
    BY <2>1 DEF Listed
  <2>3. ls[to(i)].key \in Keys
    BY <1>1, <2>1
  <2> QED
    BY <2>1, <2>2, <2>3 DEF k
<1>5. \A i \in 1..Len(hs) : jt[hs[i].key] = it[ls[to(i)].key]
  <2> TAKE i \in 1..Len(hs)
  <2>1. hs[i].key \in Keys \ {ls[p].key} /\ hs[i] = ls[to(i)]
    BY <1>2, <1>4 DEF k
  <2> QED
    BY <2>1
<1>6. \A i \in 1..Len(hs) : jt[hs[i].key] # None /\ jt[hs[i].key].id = hs[i].id
  <2> TAKE i \in 1..Len(hs)
  <2>1. to(i) \in 1..Len(ls) /\ hs[i] = ls[to(i)] /\ jt[hs[i].key] = it[ls[to(i)].key]
    BY <1>2, <1>5
  <2>2. it[ls[to(i)].key] # None /\ it[ls[to(i)].key].id = ls[to(i)].id
    BY <2>1 DEF Listed
  <2> QED
    BY <2>1, <2>2
<1>7. \A i, j \in 1..Len(hs) : hs[i].key = hs[j].key => i = j
  BY <1>2, <1>3 DEF Listed
<1>8. h \in Seq(Nat) /\ Lacks(h, g, p)
  <2>1. \A i \in 1..Len(hs) : jt[hs[i].key].size = g[to(i)] /\ g[to(i)] \in Nat
    BY <1>1, <1>2, <1>5
  <2>2. h \in Seq(Nat) /\ Len(h) = Len(hs) /\ \A i \in 1..Len(hs) : h[i] = g[to(i)]
    <3>1. h = [i \in 1..Len(hs) |-> jt[hs[i].key].size]
      BY DEF SizesOf
    <3> HIDE DEF h
    <3>2. \A i \in 1..Len(hs) : h[i] = jt[hs[i].key].size
      BY <3>1
    <3>3. \A i \in 1..Len(hs) : h[i] = g[to(i)] /\ h[i] \in Nat
      BY <2>1, <3>2, Zenon
    <3>4. h \in [1..Len(hs) -> Nat]
      <4>1. \A i \in 1..Len(hs) : h[i] \in Nat
        BY <3>3
      <4>2. h = [i \in 1..Len(hs) |-> h[i]]
        BY <3>1, Zenon
      <4> QED
        BY <4>1, <4>2, Zenon
    <3>5. h \in Seq(Nat) /\ Len(h) = Len(hs)
      <4>1. Len(hs) \in Nat
        OBVIOUS
      <4> QED
        BY <3>4, <4>1
    <3> QED
      BY <3>3, <3>5
  <2> QED
    BY <1>1, <1>2, <2>2 DEF Lacks, to
<1>9. Sum(g) = Sum(h) + g[p] /\ Sum(h) \in Nat /\ u = Sum(g) /\ g[p] = it[k].size
      /\ g[p] \in Nat
  <2>1. Sum(g) = Sum(h) + g[p]
    BY <1>1, <1>8, SumLacks
  <2>2. Sum(h) \in Nat
    BY <1>8, UptoType
  <2>3. u = Sum(g)
    BY DEF Listed, g
  <2>4. g[p] = it[k].size /\ g[p] \in Nat
    BY <1>1 DEF k
  <2> QED
    BY <2>1, <2>2, <2>3, <2>4
<1> QED
  BY <1>4, <1>6, <1>7, <1>9 DEF Listed, Misses, k

\* A new element in front, of an item that had none.
LEMMA PushElement ==
  ASSUME NEW it, NEW ls, NEW u, Listed(it, ls, u), NEW k \in Keys, Misses(ls, k),
         NEW x \in Item,
         NEW jt \in Maps, jt[k] = x, \A q \in Keys \ {k} : jt[q] = it[q]
  PROVE  Listed(jt, <<[key |-> k, id |-> x.id]>> \o ls, u + x.size)
<1> DEFINE e == [key |-> k, id |-> x.id]
           hs == <<e>> \o ls
           g == SizesOf(it, ls)
           h == SizesOf(jt, hs)
<1>1. /\ g \in Seq(Nat) /\ Len(g) = Len(ls) /\ Len(ls) \in Nat /\ ls \in Seq(Elems)
      /\ \A i \in 1..Len(ls) : ls[i].key \in Keys /\ g[i] = it[ls[i].key].size
                                /\ g[i] \in Nat
      /\ u \in Nat /\ u = Sum(g)
  BY SizesType DEF Listed
<1>2. x # None /\ x.size \in Nat /\ x.id \in Ids /\ e \in Elems
  BY CacheAssumption DEF Item, Elems
<1>3. /\ hs \in Seq(Elems) /\ Len(hs) = Len(ls) + 1 /\ hs[1] = e
      /\ \A i \in 1..Len(ls) : hs[i + 1] = ls[i]
      /\ \A i \in 2..Len(hs) : i - 1 \in 1..Len(ls) /\ hs[i] = ls[i - 1]
  BY <1>1, <1>2
<1> HIDE DEF hs, g
<1>4. \A i \in 2..Len(hs) : hs[i].key # k /\ jt[hs[i].key] = it[ls[i - 1].key]
  BY <1>1, <1>3 DEF Misses
<1>5. \A i \in 1..Len(hs) : jt[hs[i].key] # None /\ jt[hs[i].key].id = hs[i].id
  <2> TAKE i \in 1..Len(hs)
  <2>1. CASE i = 1
    BY <1>2, <1>3, <2>1
  <2>2. CASE i \in 2..Len(hs)
    <3>1. i - 1 \in 1..Len(ls) /\ hs[i] = ls[i - 1]
      BY <1>3, <2>2
    <3>2. it[ls[i - 1].key] # None /\ it[ls[i - 1].key].id = ls[i - 1].id
      BY <3>1 DEF Listed
    <3> QED
      BY <1>4, <2>2, <3>1, <3>2
  <2> QED
    BY <2>1, <2>2
<1>6. \A i, j \in 1..Len(hs) : hs[i].key = hs[j].key => i = j
  <2> SUFFICES ASSUME NEW i \in 1..Len(hs), NEW j \in 1..Len(hs), hs[i].key = hs[j].key
               PROVE  i = j
    OBVIOUS
  <2>1. CASE i = 1 \/ j = 1
    BY <1>3, <1>4, <2>1
  <2>2. CASE i \in 2..Len(hs) /\ j \in 2..Len(hs)
    <3>0. i - 1 \in 1..Len(ls) /\ j - 1 \in 1..Len(ls) /\ ls[i - 1].key = ls[j - 1].key
      BY <1>3, <2>2
    <3>1. i - 1 = j - 1
      BY <3>0 DEF Listed
    <3> QED
      BY <3>1
  <2> QED
    BY <2>1, <2>2
<1>7. h = <<x.size>> \o g
  <2>1. Len(<<x.size>> \o g) = Len(hs) /\ (<<x.size>> \o g)[1] = x.size
        /\ \A i \in 2..Len(hs) : (<<x.size>> \o g)[i] = g[i - 1]
        /\ <<x.size>> \o g \in Seq(Nat)
    BY <1>1, <1>2, <1>3
  <2>2. \A i \in 1..Len(hs) : jt[hs[i].key].size = (<<x.size>> \o g)[i]
    <3> TAKE i \in 1..Len(hs)
    <3>1. CASE i = 1
      BY <1>3, <2>1, <3>1
    <3>2. CASE i \in 2..Len(hs)
      <4>1. i - 1 \in 1..Len(ls)
        BY <1>3, <3>2
      <4>2. g[i - 1] = it[ls[i - 1].key].size /\ jt[hs[i].key] = it[ls[i - 1].key]
        BY <1>1, <1>4, <3>2, <4>1
      <4>3. (<<x.size>> \o g)[i] = g[i - 1]
        BY <2>1, <3>2
      <4>4. jt[hs[i].key].size = g[i - 1]
        BY <4>2
      <4> QED
        BY <4>3, <4>4
    <3> QED
      BY <1>1, <1>3, <3>1, <3>2
  <2>3. <<x.size>> \o g = [i \in 1..Len(hs) |-> (<<x.size>> \o g)[i]]
    BY <1>1, <1>3, <2>1
  <2> QED
    BY <2>2, <2>3 DEF SizesOf
<1>8. Sum(h) = u + x.size
  BY <1>1, <1>2, <1>7, SumFront
<1> QED
  BY <1>3, <1>5, <1>6, <1>8 DEF Listed, hs

LEMMA CoversDrop ==
  ASSUME NEW it, NEW ls \in Seq(Elems), NEW hs, NEW p, Lacks(hs, ls, p), NEW K,
         Covers(it, ls, K), NEW jt, \A q \in Keys \ {ls[p].key} : jt[q] = it[q]
  PROVE  Covers(jt, hs, K \cup {ls[p].key})
<1> SUFFICES ASSUME NEW q \in Keys \ (K \cup {ls[p].key}), jt[q] # None
             PROVE  \E i \in 1..Len(hs) : hs[i].key = q
  BY DEF Covers
<1>1. PICK i \in 1..Len(ls) : ls[i].key = q
  BY DEF Covers
<1>2. /\ p \in 1..Len(ls) /\ Len(hs) = Len(ls) - 1 /\ Len(ls) \in Nat /\ i # p
      /\ \A j \in 1..Len(hs) : hs[j] = IF j < p THEN ls[j] ELSE ls[j + 1]
  BY <1>1 DEF Lacks
<1>3. CASE i < p
  <2>1. i \in 1..Len(hs) /\ hs[i] = ls[i]
    BY <1>2, <1>3
  <2> QED
    BY <1>1, <2>1
<1>4. CASE i > p
  <2>1. i - 1 \in 1..Len(hs) /\ ~(i - 1 < p) /\ (i - 1) + 1 = i
    BY <1>2, <1>4
  <2>2. hs[i - 1] = ls[i]
    BY <1>2, <2>1
  <2> QED
    BY <1>1, <2>1, <2>2
<1> QED
  BY <1>2, <1>3, <1>4

-----------------------------------------------------------------------------
(* Eviction. *)

\* The rounds of the loop are what their definition says.
LEMMA RoundsAre ==
  ASSUME NEW m, NEW n, NEW l \in Nat, Len(m.lru) = l
  PROVE  Rounds(m, n) =
           [i \in 0..l |-> IF i = 0 THEN m ELSE EvictOne(Rounds(m, n)[i - 1], n)]
<1> DEFINE AreRounds(f, k) ==
             f = [i \in 0..k |-> IF i = 0 THEN m ELSE EvictOne(f[i - 1], n)]
           T == {k \in Nat : \E f : AreRounds(f, k)}
<1>1. 0 \in T
  <2>1. AreRounds([i \in 0..0 |-> m], 0)
    OBVIOUS
  <2> HIDE DEF AreRounds
  <2> QED
    BY <2>1
<1>2. ASSUME NEW k \in T PROVE k + 1 \in T
  <2>1. PICK f : AreRounds(f, k)
    OBVIOUS
  <2> DEFINE h == [i \in 0..(k + 1) |-> IF i <= k THEN f[i] ELSE EvictOne(f[k], n)]
  <2>2. ASSUME NEW i \in 0..(k + 1)
        PROVE  h[i] = IF i = 0 THEN m ELSE EvictOne(h[i - 1], n)
    <3>1. CASE i \in 0..k
      BY <2>1, <3>1
    <3>2. CASE i = k + 1
      BY <3>2
    <3> QED
      BY <3>1, <3>2
  <2>3. AreRounds(h, k + 1)
    BY <2>2
  <2> HIDE DEF AreRounds, h
  <2> QED
    BY <2>3
<1>3. \E f : AreRounds(f, l)
  <2> HIDE DEF T
  <2>1. l \in T
    BY <1>1, <1>2, Induction DEF T
  <2> QED
    BY <2>1 DEF T
<1> DEFINE after[i \in 0..l] == IF i = 0 THEN m ELSE EvictOne(after[i - 1], n)
<1>4. after = [i \in 0..l |-> IF i = 0 THEN m ELSE EvictOne(after[i - 1], n)]
  BY <1>3
<1>5. after = Rounds(m, n)
  BY DEF Rounds
<1> QED
  BY <1>4, <1>5

\* All items but that of k, which is about to be replaced, are in the list.
Ready(m, k) ==
  /\ Listed(m.items, m.lru, m.used)
  /\ Covers(m.items, m.lru, {k})
  /\ Misses(m.lru, k)

Fits(m, n) == MaxBytes = 0 \/ m.used + n <= MaxBytes \/ m.lru = <<>>

LEMMA EvictOneKeeps ==
  ASSUME NEW m, NEW n \in Nat, NEW k \in Keys, Ready(m, k)
  PROVE  /\ Ready(EvictOne(m, n), k)
         /\ Fits(m, n) => EvictOne(m, n) = m
         /\ ~Fits(m, n) => Len(EvictOne(m, n).lru) = Len(m.lru) - 1
<1> DEFINE it == m.items
           ls == m.lru
           p == Len(ls)
           r == EvictOne(m, n)
<1>1. /\ it \in Maps /\ ls \in Seq(Elems) /\ Listed(it, ls, m.used) /\ m.used \in Nat
      /\ MaxBytes \in Nat
  BY SizesType, CacheAssumption DEF Ready, Listed
<1>2. CASE Fits(m, n)
  <2>1. r = m
    BY <1>1, <1>2 DEF Fits, EvictOne
  <2> QED
    BY <1>2, <2>1
<1>3. CASE ~Fits(m, n)
  <2> DEFINE q == ls[p].key
             jt == [it EXCEPT ![q] = None]
             hs == Front(ls)
  <2>1. ls # <<>> /\ MaxBytes > 0 /\ m.used + n > MaxBytes
    BY <1>1, <1>3 DEF Fits
  <2>2. hs \in Seq(Elems) /\ Lacks(hs, ls, p) /\ Last(ls) = ls[p] /\ p \in 1..Len(ls)
    BY <1>1, <2>1, FrontLacks DEF Lacks
  <2>3. q \in Keys /\ it[q] # None
    BY <1>1, <2>2, SizesType DEF Listed
  <2>4. jt \in Maps /\ jt[q] = None /\ \A x \in Keys \ {q} : jt[x] = it[x]
    BY <1>1, <2>3 DEF Maps
  <2>5. r.items = jt /\ r.lru = hs /\ r.used = m.used - it[q].size
    BY <2>1, <2>2, <2>3 DEF EvictOne
  <2> HIDE DEF jt, hs, r
  <2>6. Listed(jt, hs, m.used - it[q].size)
    BY <1>1, <2>2, <2>4, DropElement
  <2>7. Covers(jt, hs, {k})
    <3>1. Covers(jt, hs, {k} \cup {q})
      BY <1>1, <2>2, <2>4, CoversDrop DEF Ready
    <3> QED
      BY <2>4, <3>1 DEF Covers
  <2>8. Misses(hs, k)
    <3>1. \A i \in 1..Len(hs) : \E j \in 1..Len(ls) : hs[i] = ls[j]
      BY <1>1, <2>2 DEF Lacks
    <3> QED
      BY <3>1 DEF Ready, Misses
  <2>9. Len(hs) = Len(ls) - 1
    BY <2>2 DEF Lacks
  <2> QED
    BY <1>3, <2>5, <2>6, <2>7, <2>8, <2>9 DEF Ready, r
<1> QED
  BY <1>2, <1>3

\* The loop ends when n more bytes fit or the list is empty.
LEMMA EvictUntilFits ==
  ASSUME NEW m, NEW n \in Nat, NEW k \in Keys, Ready(m, k)
  PROVE  Ready(EvictUntil(m, n), k) /\ Fits(EvictUntil(m, n), n)
<1> DEFINE l == Len(m.lru)
           f == Rounds(m, n)
<1>1. l \in Nat /\ m.lru \in Seq(Elems)
  BY DEF Ready, Listed
<1>2. f = [i \in 0..l |-> IF i = 0 THEN m ELSE EvictOne(f[i - 1], n)]
  BY <1>1, RoundsAre
<1> HIDE DEF f
<1> DEFINE Good(i) == Ready(f[i], k) /\ (Fits(f[i], n) \/ Len(f[i].lru) = l - i)
           T == {i \in Nat : i <= l => Good(i)}
<1>3. Good(0)
  BY <1>1, <1>2
<1>4. ASSUME NEW i \in Nat, i + 1 <= l, Good(i) PROVE Good(i + 1)
  <2>1. f[i + 1] = EvictOne(f[i], n)
    BY <1>1, <1>2, <1>4
  <2>2. CASE Fits(f[i], n)
    BY <1>4, <2>1, <2>2, EvictOneKeeps
  <2>3. CASE ~Fits(f[i], n)
    <3>1. Len(f[i + 1].lru) = (l - i) - 1 /\ Ready(f[i + 1], k)
      BY <1>4, <2>1, <2>3, EvictOneKeeps
    <3> QED
      BY <1>1, <3>1
  <2> QED
    BY <2>2, <2>3
<1>5. T = Nat
  <2> HIDE DEF Good
  <2>1. 0 \in T
    BY <1>3
  <2>2. \A i \in T : i + 1 \in T
    BY <1>1, <1>4
  <2> HIDE DEF T
  <2> QED
    BY <2>1, <2>2, Induction DEF T
<1>6. Good(l)
  <2> HIDE DEF Good
  <2> QED
    BY <1>1, <1>5
<1>7. Len(f[l].lru) = l - l => f[l].lru = <<>>
  <2>1. f[l].lru \in Seq(Elems)
    BY <1>6 DEF Ready, Listed
  <2>2. f[l].lru # <<>> => Len(f[l].lru) \in Nat \ {0}
    BY <2>1, EmptySeq, Zenon
  <2> QED
    BY <1>1, <2>2
<1> QED
  BY <1>6, <1>7 DEF EvictUntil, Fits, f

\* Eviction takes items out of the map and leaves the others as they are.
LEMMA EvictUntilRemoves ==
  ASSUME NEW m, NEW n \in Nat, NEW k \in Keys, Ready(m, k)
  PROVE  \A q \in Keys : EvictUntil(m, n).items[q] \in {m.items[q], None}
<1> DEFINE l == Len(m.lru)
           f == Rounds(m, n)
<1>1. l \in Nat
  BY DEF Ready, Listed
<1>2. f = [i \in 0..l |-> IF i = 0 THEN m ELSE EvictOne(f[i - 1], n)]
  BY <1>1, RoundsAre
<1> HIDE DEF f
<1> DEFINE Good(i) == /\ Ready(f[i], k)
                      /\ \A q \in Keys : f[i].items[q] \in {m.items[q], None}
           T == {i \in Nat : i <= l => Good(i)}
<1>3. Good(0)
  BY <1>1, <1>2
<1>4. ASSUME NEW i \in Nat, i + 1 <= l, Good(i) PROVE Good(i + 1)
  <2>1. f[i + 1] = EvictOne(f[i], n)
    BY <1>1, <1>2, <1>4
  <2>2. Ready(EvictOne(f[i], n), k)
    BY <1>4, EvictOneKeeps
  <2>3. f[i].items \in Maps
    BY <1>4 DEF Ready, Listed
  <2>4. \/ EvictOne(f[i], n).items = f[i].items
        \/ \E x : EvictOne(f[i], n).items = [f[i].items EXCEPT ![x] = None]
    BY DEF EvictOne
  <2>5. \A q \in Keys : EvictOne(f[i], n).items[q] \in {f[i].items[q], None}
    BY <2>3, <2>4 DEF Maps
  <2> QED
    BY <1>4, <2>1, <2>2, <2>5
<1>5. T = Nat
  <2> HIDE DEF Good
  <2>1. 0 \in T
    BY <1>3
  <2>2. \A i \in T : i + 1 \in T
    BY <1>1, <1>4
  <2> HIDE DEF T
  <2> QED
    BY <2>1, <2>2, Induction DEF T
<1>6. Good(l)
  <2> HIDE DEF Good
  <2> QED
    BY <1>1, <1>5
<1> QED
  BY <1>6 DEF EvictUntil, f

-----------------------------------------------------------------------------
(* The inductive invariant. *)

CacheInv ==
  /\ TypeOK
  /\ Listed(items, lru, used)
  /\ Covers(items, lru, {})
  /\ WithinCapacity

\* There are more identities than keys and clients can hold.
LEMMA FreshIdIsId ==
  ASSUME TypeOK
  PROVE  FreshId \in Ids /\ \A c \in Clients : call[c].id # FreshId
<1> DEFINE a == [k \in Keys |-> IF items[k] = None THEN None ELSE items[k].id]
           b == [c \in Clients |-> call[c].id]
           A == {a[k] : k \in Keys}
           B == {b[c] : c \in Clients}
<1>1. a \in Surjection(Keys, A) /\ b \in Surjection(Clients, B)
  BY DEF Surjection
<1>2. /\ IsFiniteSet(Keys) /\ IsFiniteSet(Clients) /\ IsFiniteSet(Ids)
      /\ Cardinality(Ids) > Cardinality(Keys) + Cardinality(Clients)
  BY CacheAssumption
<1> HIDE DEF a, b, A, B
<1>3. /\ IsFiniteSet(A) /\ Cardinality(A) <= Cardinality(Keys)
      /\ IsFiniteSet(B) /\ Cardinality(B) <= Cardinality(Clients)
  BY <1>1, <1>2, FS_Surjection
<1>4. /\ IsFiniteSet(A \cup B)
      /\ Cardinality(A \cup B) = Cardinality(A) + Cardinality(B) - Cardinality(A \cap B)
  BY <1>3, FS_Union
<1>5. IsFiniteSet(A \cap B)
  BY <1>3, FS_Subset
<1>6. /\ Cardinality(A) \in Nat /\ Cardinality(B) \in Nat /\ Cardinality(A \cap B) \in Nat
      /\ Cardinality(Keys) \in Nat /\ Cardinality(Clients) \in Nat /\ Cardinality(Ids) \in Nat
      /\ Cardinality(A \cup B) \in Nat
  BY <1>2, <1>3, <1>4, <1>5, FS_CardinalityType
<1>7. Cardinality(A \cup B) < Cardinality(Ids)
  BY <1>2, <1>3, <1>4, <1>6
<1>8. ~(Ids \subseteq A \cup B)
  <2> SUFFICES ASSUME Ids \subseteq A \cup B PROVE FALSE
    OBVIOUS
  <2>1. Cardinality(Ids) <= Cardinality(A \cup B)
    BY <1>4, FS_Subset
  <2> QED
    BY <1>6, <1>7, <2>1
<1>9. PICK i \in Ids : i \notin A \cup B
  BY <1>8
<1>10. /\ \A k \in Keys : items[k] # None => items[k].id # i
       /\ \A c \in Clients : call[c].id # i
  BY <1>9 DEF A, B, a, b
<1> QED
  BY <1>10 DEF FreshId

\* What is listed does not depend on the rest of the map, nor on values.
LEMMA ListedFrame ==
  ASSUME NEW it, NEW ls, NEW u, Listed(it, ls, u), NEW jt \in Maps,
         \A i \in 1..Len(ls) : /\ jt[ls[i].key] # None
                               /\ jt[ls[i].key].id = it[ls[i].key].id
                               /\ jt[ls[i].key].size = it[ls[i].key].size
  PROVE  Listed(jt, ls, u)
<1>1. SizesOf(jt, ls) = SizesOf(it, ls)
  BY DEF SizesOf
<1> QED
  BY <1>1 DEF Listed

LEMMA WithoutOldReady ==
  ASSUME CacheInv, NEW k \in Keys
  PROVE  /\ Ready(WithoutOld(k), k) /\ WithoutOld(k).items = items
         /\ WithoutOld(k).used <= used
         /\ \/ Len(WithoutOld(k).lru) = Len(lru) - 1
            \/ WithoutOld(k).used = used /\ WithoutOld(k).lru = lru
<1>1. Listed(items, lru, used) /\ Covers(items, lru, {}) /\ items \in Maps
      /\ used \in Nat /\ Len(lru) \in Nat /\ lru \in Seq(Elems)
  BY SizesType DEF CacheInv, Listed
<1>2. CASE items[k] = None
  <2>1. Misses(lru, k)
    BY <1>1, <1>2 DEF Listed, Misses
  <2>2. Covers(items, lru, {k})
    BY <1>1 DEF Covers
  <2> QED
    BY <1>1, <1>2, <2>1, <2>2 DEF WithoutOld, Ready
<1>3. CASE items[k] # None
  <2> DEFINE hs == RemoveFirst(lru, Elem(k))
  <2>1. PICK p \in 1..Len(lru) : lru[p].key = k
    BY <1>1, <1>3 DEF Covers
  <2>2. lru[p] = Elem(k)
    <3>1. lru[p] \in Elems /\ lru[p].id = items[k].id
      BY <1>1, <2>1 DEF Listed
    <3> QED
      BY <2>1, <3>1 DEF Elems, Elem
  <2>3. \A i \in 1..Len(lru) : lru[i] = lru[p] => i = p
    BY <1>1 DEF Listed
  <2>4. hs \in Seq(Elems) /\ Lacks(hs, lru, p)
    BY <1>1, <2>2, <2>3, RemoveFirstLacks
  <2> HIDE DEF hs
  <2>5. Listed(items, hs, used - items[k].size) /\ Misses(hs, k) /\ items[k].size \in Nat
    BY <1>1, <2>1, <2>4, DropElement
  <2>6. Covers(items, hs, {k})
    <3>1. Covers(items, hs, {} \cup {lru[p].key})
      BY <1>1, <2>4, CoversDrop
    <3> QED
      BY <2>1, <3>1
  <2>7. Len(hs) = Len(lru) - 1
    BY <2>4 DEF Lacks
  <2>8. /\ WithoutOld(k).items = items /\ WithoutOld(k).lru = hs
        /\ WithoutOld(k).used = used - items[k].size
    BY <1>3 DEF WithoutOld, hs
  <2> QED
    BY <1>1, <2>5, <2>6, <2>7, <2>8 DEF Ready
<1> QED
  BY <1>2, <1>3

\* An element moves to the front.
LEMMA MoveToFrontKeeps ==
  ASSUME NEW it, Listed(it, lru, used), Covers(it, lru, {}), NEW x, MoveToFront(x)
  PROVE  Listed(it, lru', used) /\ Covers(it, lru', {}) /\ Len(lru') = Len(lru)
<1>1. CASE x \notin ToSet(lru)
  BY <1>1 DEF MoveToFront
<1>2. CASE x \in ToSet(lru)
  <2> DEFINE hs == RemoveFirst(lru, x)
             k == x.key
  <2>1. lru \in Seq(Elems) /\ it \in Maps /\ Len(lru) \in Nat /\ used \in Nat
    BY SizesType DEF Listed
  <2>2. PICK p \in 1..Len(lru) : lru[p] = x
    BY <1>2, <2>1 DEF ToSet
  <2>3. /\ k \in Keys /\ it[k] \in Item /\ it[k].size \in Nat /\ it[k].id = x.id
        /\ x = [key |-> k, id |-> it[k].id]
    <3>1. x \in Elems /\ it[k] \in Item /\ it[k].size \in Nat /\ it[k].id = x.id
      BY <2>1, <2>2, SizesType DEF Listed
    <3> QED
      BY <3>1 DEF Elems
  <2>4. \A i \in 1..Len(lru) : lru[i] = lru[p] => i = p
    BY <2>1 DEF Listed
  <2>5. hs \in Seq(Elems) /\ Lacks(hs, lru, p)
    BY <2>1, <2>2, <2>4, RemoveFirstLacks
  <2> HIDE DEF hs
  <2>6. Listed(it, hs, used - it[k].size) /\ Misses(hs, k)
    BY <2>1, <2>2, <2>5, DropElement
  <2>7. Covers(it, hs, {k})
    <3>1. Covers(it, hs, {} \cup {lru[p].key})
      BY <2>1, <2>5, CoversDrop
    <3> QED
      BY <2>2, <3>1
  <2>8. lru' = <<[key |-> k, id |-> it[k].id]>> \o hs
    BY <1>2, <2>3 DEF MoveToFront, hs
  <2>9. Listed(it, lru', (used - it[k].size) + it[k].size)
    BY <2>1, <2>3, <2>6, <2>8, PushElement
  <2>10. Len(hs) = Len(lru) - 1 /\ Len(lru') = Len(hs) + 1
         /\ lru'[1].key = k /\ \A i \in 1..Len(hs) : lru'[i + 1] = hs[i]
    BY <2>1, <2>3, <2>5, <2>8 DEF Lacks, Elems, Item
  <2>11. Covers(it, lru', {})
    BY <2>1, <2>7, <2>10 DEF Covers
  <2> QED
    BY <2>1, <2>3, <2>9, <2>10, <2>11
<1> QED
  BY <1>1, <1>2

\* Set and Incr of a missing key.
LEMMA InsertKeeps ==
  ASSUME CacheInv, NEW m, NEW k \in Keys, NEW v \in Values, NEW e \in Nat \cup {None},
         Ready(m, k), Insert(EvictUntil(m, Size(k, v)), k, v, e), UNCHANGED <<now, call>>
  PROVE  CacheInv'
<1> DEFINE n == Size(k, v)
           r == EvictUntil(m, n)
           x == [id |-> FreshId, value |-> v, expire |-> e, size |-> n]
<1>1. n \in Nat
  BY CacheAssumption DEF Size
<1> HIDE DEF n
<1>2. Ready(r, k) /\ Fits(r, n)
  BY <1>1, EvictUntilFits
<1>3. x \in Item
  BY <1>1, FreshIdIsId DEF CacheInv, Item
<1>4. /\ items' = [r.items EXCEPT ![k] = x] /\ used' = r.used + n
      /\ lru' = <<[key |-> k, id |-> FreshId]>> \o r.lru
  BY DEF Insert, n
<1> HIDE DEF r
<1>5. r.items \in Maps /\ r.lru \in Seq(Elems) /\ r.used \in Nat /\ Len(r.lru) \in Nat
  BY <1>2, SizesType DEF Ready, Listed
<1>6. /\ items' \in Maps /\ items'[k] = x
      /\ \A q \in Keys \ {k} : items'[q] = r.items[q]
  BY <1>3, <1>4, <1>5 DEF Maps
<1>7. x.id = FreshId /\ x.size = n
  OBVIOUS
<1> HIDE DEF x
<1>8. Listed(items', lru', used')
  <2>1. Listed(items', <<[key |-> k, id |-> x.id]>> \o r.lru, r.used + x.size)
    BY <1>2, <1>3, <1>6, PushElement DEF Ready
  <2> QED
    BY <1>4, <1>7, <2>1
<1>9. /\ Len(lru') = Len(r.lru) + 1 /\ lru'[1].key = k
      /\ \A i \in 1..Len(r.lru) : lru'[i + 1] = r.lru[i]
  BY <1>3, <1>4, <1>5, <1>7 DEF Elems, Item
<1>10. Covers(items', lru', {})
  <2> SUFFICES ASSUME NEW q \in Keys, items'[q] # None
               PROVE  \E i \in 1..Len(lru') : lru'[i].key = q
    BY DEF Covers
  <2>1. CASE q = k
    <3>1. 1 \in 1..Len(lru')
      BY <1>5, <1>9
    <3> QED
      BY <1>9, <2>1, <3>1
  <2>2. CASE q # k
    <3>1. r.items[q] # None
      BY <1>6, <2>2
    <3>2. PICK i \in 1..Len(r.lru) : r.lru[i].key = q
      BY <1>2, <2>2, <3>1 DEF Ready, Covers
    <3>3. i + 1 \in 1..Len(lru') /\ lru'[i + 1].key = q
      BY <1>5, <1>9, <3>2
    <3> QED
      BY <3>3
  <2> QED
    BY <2>1, <2>2
<1>11. WithinCapacity'
  <2>1. r.lru = <<>> => Len(lru') = 1
    BY <1>9
  <2> QED
    BY <1>2, <1>4, <2>1, CacheAssumption DEF Fits, WithinCapacity
<1>12. TypeOK'
  <2>1. used' \in Nat
    BY <1>1, <1>4, <1>5
  <2>2. lru' \in Seq([key : Keys, id : Ids]) /\ items' \in [Keys -> Item \cup {None}]
    BY <1>8 DEF Listed, Elems, Maps
  <2> QED
    BY <2>1, <2>2 DEF CacheInv, TypeOK, Idle
<1> QED
  BY <1>8, <1>10, <1>11, <1>12 DEF CacheInv

LEMMA DropKeeps ==
  ASSUME CacheInv, NEW k \in Keys, Drop(k)
  PROVE  /\ Listed(items', lru', used') /\ Covers(items', lru', {})
         /\ WithinCapacity' /\ used' \in Nat
<1> DEFINE m == WithoutOld(k)
<1>1. /\ Ready(m, k) /\ m.items = items /\ m.used <= used
      /\ \/ Len(m.lru) = Len(lru) - 1
         \/ m.used = used /\ m.lru = lru
  BY WithoutOldReady
<1>2. items' = [items EXCEPT ![k] = None] /\ lru' = m.lru /\ used' = m.used
  BY DEF Drop
<1> HIDE DEF m
<1>3. /\ items \in Maps /\ m.lru \in Seq(Elems) /\ m.used \in Nat /\ used \in Nat
      /\ Len(lru) \in Nat
      /\ Len(m.lru) \in Nat
      /\ \A i \in 1..Len(m.lru) : m.lru[i].key \in Keys \ {k}
  <2>1. Listed(items, lru, used) /\ Listed(items, m.lru, m.used) /\ Misses(m.lru, k)
    BY <1>1 DEF CacheInv, Ready
  <2>2. used \in Nat /\ Len(lru) \in Nat
    BY <2>1, SizesType
  <2>3. /\ m.used \in Nat /\ Len(m.lru) \in Nat
        /\ \A i \in 1..Len(m.lru) : m.lru[i].key \in Keys
    BY <2>1, SizesType
  <2>4. items \in Maps /\ m.lru \in Seq(Elems)
    BY <2>1 DEF Listed
  <2> QED
    BY <2>1, <2>2, <2>3, <2>4 DEF Misses
<1>4. items' \in Maps /\ items'[k] = None /\ \A q \in Keys \ {k} : items'[q] = items[q]
  BY <1>2, <1>3 DEF Maps
<1>5. Listed(items', lru', used')
  <2>1. Listed(items, m.lru, m.used)
    BY <1>1 DEF Ready
  <2>2. \A i \in 1..Len(m.lru) : items'[m.lru[i].key] = items[m.lru[i].key]
                                /\ items[m.lru[i].key] # None
    BY <1>3, <1>4, <2>1 DEF Listed
  <2> DEFINE jt == items'
  <2>3. /\ jt \in Maps
        /\ \A i \in 1..Len(m.lru) : /\ jt[m.lru[i].key] # None
                                    /\ jt[m.lru[i].key].id = items[m.lru[i].key].id
                                    /\ jt[m.lru[i].key].size = items[m.lru[i].key].size
    BY <1>4, <2>2
  <2> HIDE DEF jt
  <2>4. Listed(jt, m.lru, m.used)
    BY <2>1, <2>3, ListedFrame
  <2> QED
    BY <1>2, <2>4 DEF jt
<1>6. Covers(items', lru', {})
  BY <1>1, <1>2, <1>4 DEF Ready, Covers
<1>7. WithinCapacity'
  <2>1. Len(lru') = 0 => used' = 0
    <3>1. Len(lru') = 0 => SizesOf(items', lru') = <<>>
      BY DEF SizesOf
    <3> QED
      BY <1>5, <3>1, SumEmpty DEF Listed
  <2>2. CASE m.used = used /\ m.lru = lru
    BY <1>2, <2>2 DEF CacheInv, WithinCapacity
  <2>3. CASE Len(m.lru) = Len(lru) - 1
    <3> SUFFICES ASSUME MaxBytes > 0 PROVE used' <= MaxBytes
      BY DEF WithinCapacity
    <3>1. used <= MaxBytes \/ Len(lru) = 1
      BY DEF CacheInv, WithinCapacity
    <3>2. CASE used <= MaxBytes
      BY <1>1, <1>2, <1>3, <3>2, CacheAssumption
    <3>3. CASE Len(lru) = 1
      <4>1. Len(m.lru) = 0
        BY <2>3, <3>3
      <4>2. Len(lru') = 0
        BY <1>2, <4>1
      <4> QED
        BY <2>1, <4>2, CacheAssumption
    <3> QED
      BY <3>1, <3>2, <3>3
  <2> QED
    BY <1>1, <2>2, <2>3
<1> QED
  BY <1>2, <1>3, <1>5, <1>6, <1>7

LEMMA CacheInvInit == Init => CacheInv
<1> SUFFICES ASSUME Init PROVE CacheInv
  OBVIOUS
<1>1. lru = <<>> /\ Len(lru) = 0 /\ lru \in Seq(Elems) /\ used = 0
      /\ items = [k \in Keys |-> None] /\ items \in Maps
  BY DEF Init, Maps
<1>2. SizesOf(items, lru) = <<>>
  BY <1>1 DEF SizesOf
<1>3. Listed(items, lru, used) /\ Covers(items, lru, {})
  BY <1>1, <1>2, SumEmpty DEF Listed, Covers
<1>4. WithinCapacity
  BY <1>1, CacheAssumption DEF WithinCapacity
<1>5. TypeOK
  BY <1>1, CacheAssumption DEF Init, TypeOK, Maps, Elems
<1> QED
  BY <1>3, <1>4, <1>5 DEF CacheInv

\* One lemma for each operation.
LEMMA SetKeeps ==
  ASSUME CacheInv, NEW k \in Keys, NEW v \in Values, NEW ttl \in TTLs, Set(k, v, ttl)
  PROVE  CacheInv'
<1>1. ExpiryOf(ttl) \in Nat \cup {None}
  BY CacheAssumption DEF ExpiryOf, CacheInv, TypeOK
<1> QED
  BY <1>1, WithoutOldReady, InsertKeeps DEF Set

LEMMA DeleteKeeps ==
  ASSUME CacheInv, NEW k \in Keys, Delete(k)
  PROVE  CacheInv'
<1>1. Drop(k) /\ UNCHANGED <<now, call>>
  BY DEF Delete
<1>2. /\ Listed(items', lru', used') /\ Covers(items', lru', {})
      /\ WithinCapacity' /\ used' \in Nat
  BY <1>1, DropKeeps
<1>3. TypeOK'
  BY <1>1, <1>2 DEF CacheInv, TypeOK, Listed, Maps, Elems, Idle
<1> QED
  BY <1>2, <1>3 DEF CacheInv

LEMMA IncrMissingKeeps ==
  ASSUME CacheInv, NEW k \in Keys, NEW d, IncrMissing(k, d)
  PROVE  CacheInv'
<1> DEFINE m == [items |-> items, lru |-> lru, used |-> used]
<1>1. Ready(m, k)
  <2>1. Misses(lru, k)
    BY DEF IncrMissing, CacheInv, Listed, Misses
  <2> QED
    BY <2>1 DEF CacheInv, Ready, Covers
<1>2. d \in Values /\ now + DefaultTTL \in Nat \cup {None}
  BY CacheAssumption DEF IncrMissing, Values, CacheInv, TypeOK
<1> QED
  BY <1>1, <1>2, InsertKeeps DEF IncrMissing

LEMMA IncrExistingKeeps ==
  ASSUME CacheInv, NEW k \in Keys, NEW d, IncrExisting(k, d)
  PROVE  CacheInv'
<1>1. /\ items[k] # None /\ items[k].value + d \in Values
      /\ items' = [items EXCEPT ![k].value = @ + d]
      /\ MoveToFront(Elem(k)) /\ UNCHANGED <<used, now, call>>
  BY DEF IncrExisting, Values
<1>2. Listed(items, lru, used) /\ Covers(items, lru, {}) /\ items \in Maps
  BY DEF CacheInv, Listed
<1>3. items[k] \in Item
  BY <1>1, <1>2 DEF Maps
<1>4. /\ items' \in Maps
      /\ \A q \in Keys : (items'[q] = None) = (items[q] = None)
      /\ \A q \in Keys : items[q] # None => /\ items'[q].id = items[q].id
                                            /\ items'[q].size = items[q].size
  <2>1. items'[k] \in Item /\ items'[k].id = items[k].id /\ items'[k].size = items[k].size
    BY <1>1, <1>2, <1>3 DEF Maps, Item
  <2>2. items' \in Maps /\ \A q \in Keys \ {k} : items'[q] = items[q]
    BY <1>1, <1>2, <2>1 DEF Maps
  <2> QED
    BY <1>1, <2>1, <2>2, CacheAssumption
<1>5. Listed(items', lru, used) /\ Covers(items', lru, {})
  <2>1. \A i \in 1..Len(lru) : lru[i].key \in Keys /\ items[lru[i].key] # None
    BY <1>2, SizesType DEF Listed
  <2> DEFINE jt == items'
  <2>2. /\ jt \in Maps
        /\ \A i \in 1..Len(lru) : /\ jt[lru[i].key] # None
                                  /\ jt[lru[i].key].id = items[lru[i].key].id
                                  /\ jt[lru[i].key].size = items[lru[i].key].size
        /\ \A q \in Keys : jt[q] # None => items[q] # None
    <3>1. jt \in Maps /\ \A q \in Keys : jt[q] # None => items[q] # None
      BY <1>4
    <3>2. ASSUME NEW i \in 1..Len(lru)
          PROVE  /\ jt[lru[i].key] # None
                 /\ jt[lru[i].key].id = items[lru[i].key].id
                 /\ jt[lru[i].key].size = items[lru[i].key].size
      <4>1. lru[i].key \in Keys /\ items[lru[i].key] # None
        BY <2>1
      <4> QED
        BY <1>4, <4>1
    <3> QED
      BY <3>1, <3>2
  <2> HIDE DEF jt
  <2>3. Listed(jt, lru, used)
    BY <1>2, <2>2, ListedFrame
  <2>4. Covers(jt, lru, {})
    BY <1>2, <2>2 DEF Covers
  <2> QED
    BY <2>3, <2>4 DEF jt
<1>6. Listed(items', lru', used) /\ Covers(items', lru', {}) /\ Len(lru') = Len(lru)
  BY <1>1, <1>5, MoveToFrontKeeps
<1>7. TypeOK' /\ WithinCapacity'
  BY <1>1, <1>6 DEF CacheInv, TypeOK, WithinCapacity, Listed, Maps, Elems, Idle
<1> QED
  BY <1>1, <1>6, <1>7 DEF CacheInv

LEMMA TouchKeeps ==
  ASSUME CacheInv, NEW c \in Clients, Touch(c)
  PROVE  CacheInv'
<1>1. /\ MoveToFront([key |-> call[c].key, id |-> call[c].id])
      /\ UNCHANGED <<items, used, now>> /\ call' = [call EXCEPT ![c] = Idle]
  BY DEF Touch
<1>2. Listed(items, lru, used) /\ Covers(items, lru, {})
  BY DEF CacheInv
<1>3. Listed(items, lru', used) /\ Covers(items, lru', {}) /\ Len(lru') = Len(lru)
  BY <1>1, <1>2, MoveToFrontKeeps
<1>4. \A d \in Clients : call'[d] = call[d] \/ call'[d] = Idle
  BY <1>1 DEF CacheInv, TypeOK
<1>5. lru' \in Seq([key : Keys, id : Ids])
  BY <1>3 DEF Listed, Elems
<1>6. TypeOK'
  BY <1>1, <1>4, <1>5 DEF CacheInv, TypeOK, Idle
<1>7. WithinCapacity'
  BY <1>1, <1>3 DEF CacheInv, WithinCapacity
<1> QED
  BY <1>1, <1>3, <1>6, <1>7 DEF CacheInv

LEMMA DeleteStaleKeeps ==
  ASSUME CacheInv, NEW c \in Clients, DeleteStale(c)
  PROVE  CacheInv'
<1>1. call[c].key \in Keys
  BY DEF DeleteStale, CacheInv, TypeOK, Idle
<1>2. Drop(call[c].key) /\ UNCHANGED now /\ call' = [call EXCEPT ![c] = Idle]
  BY DEF DeleteStale
<1>3. /\ Listed(items', lru', used') /\ Covers(items', lru', {})
      /\ WithinCapacity' /\ used' \in Nat
  BY <1>1, <1>2, DropKeeps
<1>4. \A d \in Clients : call'[d] = call[d] \/ call'[d] = Idle
  BY <1>2 DEF CacheInv, TypeOK
<1>5. lru' \in Seq([key : Keys, id : Ids]) /\ items' \in [Keys -> Item \cup {None}]
  BY <1>3 DEF Listed, Elems, Maps
<1>6. TypeOK'
  BY <1>2, <1>3, <1>4, <1>5 DEF CacheInv, TypeOK, Idle
<1> QED
  BY <1>3, <1>6 DEF CacheInv

\* The steps that leave the map, the list and the count alone.
LEMMA OtherKeeps ==
  ASSUME CacheInv, UNCHANGED <<items, lru, used>>, TypeOK'
  PROVE  CacheInv'
  BY DEF CacheInv, WithinCapacity

LEMMA LookupKeeps ==
  ASSUME CacheInv, NEW c \in Clients, NEW op \in {"Get", "Exists"}, NEW k \in Keys,
         Lookup(c, op, k)
  PROVE  CacheInv'
<1>1. items[k] \in Item
  BY DEF Lookup, CacheInv, TypeOK
<1>2. items[k].id \in Ids /\ items[k].expire \in Nat \cup {None}
  BY <1>1 DEF Item
<1> DEFINE x == [pc |-> op, key |-> k, id |-> items[k].id, expire |-> items[k].expire]
<1>3. x \in [pc : {"Get", "Exists", "stale", "touch"}, key : Keys, id : Ids,
             expire : Nat \cup {None}]
  BY <1>2
<1>4. call' = [call EXCEPT ![c] = x] /\ UNCHANGED <<items, lru, used, now>>
  BY DEF Lookup
<1> HIDE DEF x
<1>5. TypeOK'
  BY <1>3, <1>4 DEF CacheInv, TypeOK, Idle
<1> QED
  BY <1>4, <1>5, OtherKeeps

LEMMA JudgeKeeps ==
  ASSUME CacheInv, NEW c \in Clients, Judge(c)
  PROVE  CacheInv'
<1> DEFINE Calls == [pc : {"Get", "Exists", "stale", "touch"}, key : Keys, id : Ids,
                     expire : Nat \cup {None}]
           x == IF Expired(call[c].expire) THEN [call[c] EXCEPT !.pc = "stale"]
                ELSE IF call[c].pc = "Get" THEN [call[c] EXCEPT !.pc = "touch"]
                ELSE Idle
<1>1. call[c] \in Calls
  BY DEF Judge, CacheInv, TypeOK, Idle
<1>2. x = Idle \/ x \in Calls
  BY <1>1
<1>3. call' = [call EXCEPT ![c] = x] /\ UNCHANGED <<items, lru, used, now>>
  BY DEF Judge
<1> HIDE DEF x
<1>4. TypeOK'
  BY <1>2, <1>3 DEF CacheInv, TypeOK, Idle
<1> QED
  BY <1>3, <1>4, OtherKeeps

LEMMA TickKeeps ==
  ASSUME CacheInv, Tick
  PROVE  CacheInv'
<1>1. TypeOK'
  BY CacheAssumption DEF Tick, CacheInv, TypeOK, Idle
<1> QED
  BY <1>1, OtherKeeps DEF Tick

LEMMA CacheInvNext == CacheInv /\ [Next]_vars => CacheInv'
<1> SUFFICES ASSUME CacheInv, [Next]_vars PROVE CacheInv'
  OBVIOUS
<1>1. ASSUME NEW k \in Keys, NEW v \in Values, NEW ttl \in TTLs, Set(k, v, ttl)
      PROVE  CacheInv'
  BY <1>1, SetKeeps
<1>2. ASSUME NEW k \in Keys, Delete(k) PROVE CacheInv'
  BY <1>2, DeleteKeeps
<1>3. ASSUME NEW k \in Keys, NEW d \in {1, -1}, Incr(k, d) PROVE CacheInv'
  BY <1>3, IncrMissingKeeps, IncrExistingKeeps DEF Incr
<1>4. ASSUME NEW k \in Keys, NEW c \in Clients, NEW op \in {"Get", "Exists"},
             Lookup(c, op, k)
      PROVE  CacheInv'
  BY <1>4, LookupKeeps
<1>5. ASSUME NEW c \in Clients, Judge(c) \/ DeleteStale(c) \/ Touch(c) PROVE CacheInv'
  BY <1>5, JudgeKeeps, DeleteStaleKeeps, TouchKeeps
<1>6. CASE Tick
  BY <1>6, TickKeeps
<1>7. CASE UNCHANGED vars
  <2>1. TypeOK'
    BY <1>7 DEF vars, CacheInv, TypeOK, Idle
  <2> QED
    BY <1>7, <2>1, OtherKeeps DEF vars
<1> QED
  BY <1>1, <1>2, <1>3, <1>4, <1>5, <1>6, <1>7 DEF Next

\* The invariant of the cache holds in every state it reaches.
THEOREM Invariance == Spec => []CacheInv
  BY CacheInvInit, CacheInvNext, PTL DEF Spec

-----------------------------------------------------------------------------
(* What it says. *)

\* The map, the list, the count, the clock and the calls keep their types; the
\* number of bytes in use is never negative.
THEOREM TypeCorrect == Spec => []TypeOK
<1>1. CacheInv => TypeOK
  BY DEF CacheInv
<1> QED
  BY <1>1, Invariance, PTL

\* m.used is the sum of the sizes of the items in the list, however Set, Incr,
\* Delete, the eviction and the late delete of Get and Exists interleave.
THEOREM UsedIsExact == Spec => []UsedExact
<1>1. ASSUME CacheInv PROVE UsedExact
  <2> DEFINE g == [i \in DOMAIN lru |-> SizeOf(lru[i].key)]
  <2>1. Listed(items, lru, used) /\ lru \in Seq(Elems)
    BY <1>1 DEF CacheInv, Listed
  <2>2. DOMAIN lru = 1..Len(lru)
    BY <2>1
  <2>3. \A i \in 1..Len(lru) : SizeOf(lru[i].key) = items[lru[i].key].size
    BY <2>1 DEF Listed, SizeOf
  <2>4. g = SizesOf(items, lru)
    BY <2>2, <2>3 DEF SizesOf
  <2> HIDE DEF g
  <2>5. used = Upto(g)[Len(g)] /\ Len(g) = Len(lru)
    BY <2>1, <2>4, SizesType DEF Listed, Sum
  <2>6. used = Upto(g)[Len(lru)]
    BY <2>5
  <2> QED
    BY <2>6 DEF UsedExact, g
<1> QED
  BY <1>1, Invariance, PTL

\* The list and the map hold the same items, each of them once.
THEOREM ListIsMap == Spec => []ListMatchesMap
<1>1. ASSUME CacheInv PROVE ListMatchesMap
  <2>1. Listed(items, lru, used) /\ Covers(items, lru, {}) /\ lru \in Seq(Elems)
    BY <1>1 DEF CacheInv, Listed
  <2>2. DOMAIN lru = 1..Len(lru)
    BY <2>1
  <2>3. \A i \in 1..Len(lru) : lru[i].key \in Present /\ lru[i] = Elem(lru[i].key)
    <3> SUFFICES ASSUME NEW i \in 1..Len(lru)
                 PROVE  lru[i].key \in Present /\ lru[i] = Elem(lru[i].key)
      OBVIOUS
    <3>1. lru[i] \in Elems
      BY <2>1
    <3>2. items[lru[i].key] # None /\ items[lru[i].key].id = lru[i].id
      BY <2>1 DEF Listed
    <3> QED
      BY <3>1, <3>2 DEF Elems, Elem, Present
  <2>4. \A k \in Present : \E i \in 1..Len(lru) : lru[i] = Elem(k)
    <3> SUFFICES ASSUME NEW k \in Present PROVE \E i \in 1..Len(lru) : lru[i] = Elem(k)
      OBVIOUS
    <3>1. PICK i \in 1..Len(lru) : lru[i].key = k
      BY <2>1 DEF Covers, Present
    <3> QED
      BY <2>3, <3>1
  <2>5. ToSet(lru) = {Elem(k) : k \in Present}
    BY <2>2, <2>3, <2>4 DEF ToSet
  <2> QED
    BY <2>1, <2>2, <2>5 DEF ListMatchesMap, Listed
<1> QED
  BY <1>1, Invariance, PTL

\* The items in use stay within maxBytes, but for one item that is larger.
THEOREM KeepsCapacity == Spec => []WithinCapacity
<1>1. CacheInv => WithinCapacity
  BY DEF CacheInv
<1> QED
  BY <1>1, Invariance, PTL

-----------------------------------------------------------------------------
(* What a read that comes late drops. *)

\* While the item a call has picked up is in the map, its expiry is the one the
\* call has picked up with it; and what was judged too old stays so.
PickedUp ==
  \A c \in Clients : call[c].pc # "idle" =>
    /\ items[call[c].key] # None /\ items[call[c].key].id = call[c].id
         => items[call[c].key].expire = call[c].expire
    /\ call[c].pc = "stale" => Expired(call[c].expire)

\* It holds when every item that is new to the map has a new identity.
LEMMA PickedUpKept ==
  ASSUME TypeOK, PickedUp, call' = call, now' = now,
         \A q \in Keys :
           \/ items'[q] = None
           \/ items'[q].id = FreshId
           \/ /\ items[q] # None /\ items'[q].id = items[q].id
              /\ items'[q].expire = items[q].expire
  PROVE  PickedUp'
<1> SUFFICES ASSUME NEW c \in Clients, call[c].pc # "idle"
             PROVE  /\ items'[call[c].key] # None /\ items'[call[c].key].id = call[c].id
                         => items'[call[c].key].expire = call[c].expire
                    /\ call[c].pc = "stale" => Expired(call[c].expire)'
  BY DEF PickedUp
<1>1. call[c].key \in Keys
  BY DEF TypeOK, Idle
<1>2. call[c].id # FreshId
  BY FreshIdIsId
<1>3. /\ items[call[c].key] # None /\ items[call[c].key].id = call[c].id
           => items[call[c].key].expire = call[c].expire
      /\ call[c].pc = "stale" => Expired(call[c].expire)
  BY DEF PickedUp
<1>4. Expired(call[c].expire)' = Expired(call[c].expire)
  BY DEF Expired
<1> QED
  BY <1>1, <1>2, <1>3, <1>4

\* Set, and Incr of a missing key.
LEMMA InsertPickedUp ==
  ASSUME CacheInv, PickedUp, NEW m, NEW k \in Keys, NEW v \in Values, NEW e,
         Ready(m, k), m.items = items, Insert(EvictUntil(m, Size(k, v)), k, v, e),
         UNCHANGED <<now, call>>
  PROVE  PickedUp'
<1> DEFINE r == EvictUntil(m, Size(k, v))
           x == [id |-> FreshId, value |-> v, expire |-> e, size |-> Size(k, v)]
<1>1. Size(k, v) \in Nat
  BY CacheAssumption DEF Size
<1>2. \A q \in Keys : r.items[q] \in {items[q], None}
  BY <1>1, EvictUntilRemoves
<1>3. r.items \in Maps
  BY <1>1, EvictUntilFits DEF Ready, Listed
<1>4. items' = [r.items EXCEPT ![k] = x]
  BY DEF Insert
<1>5. x.id = FreshId
  OBVIOUS
<1> HIDE DEF r, x
<1>6. items'[k] = x /\ \A q \in Keys \ {k} : items'[q] = r.items[q]
  BY <1>3, <1>4 DEF Maps
<1>7. \A q \in Keys :
        \/ items'[q] = None
        \/ items'[q].id = FreshId
        \/ /\ items[q] # None /\ items'[q].id = items[q].id
           /\ items'[q].expire = items[q].expire
  BY <1>2, <1>5, <1>6
<1> QED
  BY <1>7, PickedUpKept DEF CacheInv

\* A call that ends, or does not change what it has picked up.
LEMMA CallPickedUp ==
  ASSUME PickedUp, now' = now,
         \A q \in Keys : items'[q] \in {items[q], None},
         \A c \in Clients : \/ call'[c] = Idle
                            \/ call'[c] = call[c] /\ call[c].key \in Keys
                            \/ call'[c] = call[c] /\ call[c].pc = "idle"
  PROVE  PickedUp'
<1> SUFFICES ASSUME NEW c \in Clients, call'[c].pc # "idle"
             PROVE  /\ items'[call'[c].key] # None /\ items'[call'[c].key].id = call'[c].id
                         => items'[call'[c].key].expire = call'[c].expire
                    /\ call'[c].pc = "stale" => Expired(call[c].expire)'
  BY DEF PickedUp, Expired
<1>1. call'[c] = call[c] /\ call[c].pc # "idle" /\ call[c].key \in Keys
  BY DEF Idle
<1>2. /\ items[call[c].key] # None /\ items[call[c].key].id = call[c].id
           => items[call[c].key].expire = call[c].expire
      /\ call[c].pc = "stale" => Expired(call[c].expire)
  BY <1>1 DEF PickedUp
<1>3. items'[call[c].key] \in {items[call[c].key], None}
  BY <1>1
<1>4. Expired(call[c].expire)' = Expired(call[c].expire)
  BY <1>1 DEF Expired
<1> QED
  BY <1>1, <1>2, <1>3, <1>4

LEMMA PickedUpNext ==
  ASSUME CacheInv, PickedUp, [Next]_vars
  PROVE  PickedUp'
<1>0. /\ TypeOK /\ items \in Maps
      /\ \A c \in Clients : call[c] = Idle \/ call[c].key \in Keys
  BY DEF CacheInv, Listed, TypeOK
<1>1. ASSUME NEW k \in Keys, NEW v \in Values, NEW ttl \in TTLs, Set(k, v, ttl)
      PROVE  PickedUp'
  <2>1. Ready(WithoutOld(k), k) /\ WithoutOld(k).items = items
    BY WithoutOldReady
  <2> QED
    BY <1>1, <2>1, InsertPickedUp DEF Set
<1>2. ASSUME NEW k \in Keys, Delete(k) PROVE PickedUp'
  <2>1. \A q \in Keys : items'[q] \in {items[q], None}
    BY <1>0, <1>2 DEF Delete, Drop, Maps
  <2> QED
    BY <1>0, <1>2, <2>1, CallPickedUp DEF Delete
<1>3. ASSUME NEW k \in Keys, NEW d, IncrMissing(k, d) PROVE PickedUp'
  <2> DEFINE m == [items |-> items, lru |-> lru, used |-> used]
  <2>1. Ready(m, k) /\ m.items = items
    <3>1. Misses(lru, k)
      BY <1>3 DEF IncrMissing, CacheInv, Listed, Misses
    <3> QED
      BY <3>1 DEF CacheInv, Ready, Covers
  <2>2. d \in Values
    BY <1>3 DEF IncrMissing, Values
  <2>3. Insert(EvictUntil(m, Size(k, d)), k, d, now + DefaultTTL) /\ UNCHANGED <<now, call>>
    BY <1>3 DEF IncrMissing
  <2> HIDE DEF m
  <2> QED
    BY <2>1, <2>2, <2>3, InsertPickedUp
<1>4. ASSUME NEW k \in Keys, NEW d, IncrExisting(k, d) PROVE PickedUp'
  <2>1. /\ items[k] # None /\ items' = [items EXCEPT ![k].value = @ + d]
        /\ UNCHANGED <<now, call>>
    BY <1>4 DEF IncrExisting
  <2>2. items[k] \in Item
    BY <1>0, <2>1 DEF Maps
  <2>3. items'[k].id = items[k].id /\ items'[k].expire = items[k].expire
    BY <1>0, <2>1, <2>2 DEF Maps, Item
  <2>4. \A q \in Keys \ {k} : items'[q] = items[q]
    BY <1>0, <2>1 DEF Maps
  <2>5. \A q \in Keys :
          \/ items'[q] = None
          \/ items'[q].id = FreshId
          \/ /\ items[q] # None /\ items'[q].id = items[q].id
             /\ items'[q].expire = items[q].expire
    BY <2>1, <2>3, <2>4
  <2> QED
    BY <1>0, <2>1, <2>5, PickedUpKept
<1>5. ASSUME NEW c \in Clients, NEW op \in {"Get", "Exists"}, NEW k \in Keys,
             Lookup(c, op, k)
      PROVE  PickedUp'
  <2>1. /\ call' = [call EXCEPT ![c] = [pc |-> op, key |-> k, id |-> items[k].id,
                                        expire |-> items[k].expire]]
        /\ UNCHANGED <<items, now>>
    BY <1>5 DEF Lookup
  <2> QED
    BY <2>1 DEF PickedUp, Expired
<1>6. ASSUME NEW c \in Clients, Judge(c) PROVE PickedUp'
  <2>1. UNCHANGED <<items, now>> /\ \A d \in Clients : d # c => call'[d] = call[d]
    BY <1>6 DEF Judge
  <2>2. \/ call'[c].pc = "idle"
        \/ /\ call'[c].key = call[c].key /\ call'[c].id = call[c].id
           /\ call'[c].expire = call[c].expire /\ call[c].pc # "idle"
           /\ call'[c].pc = "stale" => Expired(call[c].expire)
    BY <1>0, <1>6 DEF Judge, TypeOK, Idle
  <2> QED
    BY <2>1, <2>2 DEF PickedUp, Expired
<1>7. ASSUME NEW c \in Clients, DeleteStale(c) PROVE PickedUp'
  <2>1. \A q \in Keys : items'[q] \in {items[q], None}
    BY <1>0, <1>7 DEF DeleteStale, Drop, Maps
  <2>2. \A d \in Clients : call'[d] = Idle \/ call'[d] = call[d]
    BY <1>7 DEF DeleteStale
  <2> QED
    BY <1>0, <1>7, <2>1, <2>2, CallPickedUp DEF DeleteStale
<1>8. ASSUME NEW c \in Clients, Touch(c) PROVE PickedUp'
  <2>1. \A d \in Clients : call'[d] = Idle \/ call'[d] = call[d]
    BY <1>8 DEF Touch
  <2> QED
    BY <1>0, <1>8, <2>1, CallPickedUp DEF Touch
<1>9. CASE Tick
  <2>1. now' = now + 1 /\ UNCHANGED <<items, call>> /\ now \in Nat
    BY <1>9, <1>0, CacheAssumption DEF Tick, TypeOK
  <2>2. \A c \in Clients : call[c].pc # "idle" => call[c].expire \in Nat \cup {None}
    BY <1>0 DEF TypeOK, Idle
  <2>3. \A e \in Nat \cup {None} : Expired(e) => Expired(e)'
    BY <2>1 DEF Expired
  <2> QED
    BY <2>1, <2>2, <2>3 DEF PickedUp, Expired
<1>10. CASE UNCHANGED vars
  BY <1>10 DEF vars, PickedUp, Expired
<1> QED
  BY <1>1, <1>2, <1>3, <1>4, <1>5, <1>6, <1>7, <1>8, <1>9, <1>10 DEF Next, Incr

LEMMA PickedUpAlways == Spec => [](CacheInv /\ PickedUp)
<1>1. Init => PickedUp
  BY DEF Init, PickedUp, Idle
<1> QED
  BY <1>1, PickedUpNext, Invariance, PTL DEF Spec

\* A Get or Exists that drops a fresh item drops one that was stored after its
\* own lookup: what it had looked up itself has expired (memory.go:51-58).
THEOREM LateDropsExplained == Spec => DroppedWasStoredLate
<1> DEFINE Late == \A c \in Clients :
             call[c].pc = "stale" /\ call'[c].pc = "idle" /\ items[call[c].key] # None
             => \/ Expired(items[call[c].key].expire)
                \/ items[call[c].key].id # call[c].id
<1>1. PickedUp => Late
  BY DEF PickedUp
<1>2. PickedUp => [Late]_vars
  BY <1>1
<1> QED
  BY <1>2, PickedUpAlways, PTL DEF DroppedWasStoredLate
=============================================================================
